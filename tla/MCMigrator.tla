----------------------------- MODULE MCMigrator -----------------------------
(* Two migrators: on two hosts, the second not deployed to yet; in two     *)
(* processes of one host; in one process with two directories, one of them *)
(* not there.                                                              *)
EXTENDS Migrator, TLC

CONSTANTS m1, m2

Site(p, d) == [process |-> p, directory |-> d]

MCSites ==
  { (m1 :> Site("p1", "new")) @@ (m2 :> Site("p2", "old")),
    (m1 :> Site("p1", "new")) @@ (m2 :> Site("p2", "new")),
    (m1 :> Site("p1", "new")) @@ (m2 :> Site("p1", "none")) }

MCFiles == [new |-> {1, 2, 3}, old |-> {1, 2}, none |-> {}]
=============================================================================
