---------------------------- MODULE MCLiveQuery ----------------------------
(* Instances of LiveQuery small enough to check.                            *)
EXTENDS LiveQuery
=============================================================================
