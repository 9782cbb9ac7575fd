--------------------------- MODULE MCPersistence ---------------------------
(***************************************************************************)
(* Two blocks besides genesis, whose commands set and delete one key, and  *)
(* a donor with a snapshot and one commit after it.                        *)
(***************************************************************************)
EXTENDS Persistence

MCCommandOf == (1 :> Set("k", "v")) @@ (2 :> Del("k"))

MCDonor ==
  [snap |-> [tree |-> (0 :> NoOp) @@ (1 :> Set("k", "v")), log |-> <<0>>,
             view |-> 0],
   wal |-> [EmptyWal EXCEPT !.blocks = {2},
                            !.commits = <<[hash |-> 1, index |-> 1]>>]]
=============================================================================
