-------------------------- MODULE MCSharedStreams --------------------------
(* Instances of SharedStreams small enough to check.                        *)
EXTENDS SharedStreams
=============================================================================
