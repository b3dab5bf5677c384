---------------------------- MODULE MCBulkAction ----------------------------
(* Three rows, in batches of one, two, or all of them.                     *)
EXTENDS BulkAction
=============================================================================
