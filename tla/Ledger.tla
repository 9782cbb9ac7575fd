------------------------------- MODULE Ledger -------------------------------
(***************************************************************************)
(* What the cluster promises its users: one ledger of executed blocks that *)
(* only grows, of which every replica holds a prefix.  A replica that      *)
(* crashes forgets its copy; its copy never shrinks otherwise, and nothing *)
(* enters the ledger twice.                                                *)
(***************************************************************************)
EXTENDS Naturals, Sequences, SequencesExt

CONSTANTS
  Replicas,    \* the replicas
  Ids          \* what identifies a block

VARIABLES
  agreed,      \* the ledger
  copies       \* the copy each replica holds in memory

Init ==
  /\ agreed = <<>>
  /\ copies = [r \in Replicas |-> <<>>]

\* The copies after a step in which no replica but those in lost forgets.
Follow(lost) ==
  /\ copies' \in [Replicas -> Seq(Ids)]
  /\ \A r \in Replicas :
       /\ IsPrefix(copies'[r], agreed')
       /\ r \notin lost => IsPrefix(copies[r], copies'[r])
       /\ r \in lost => copies'[r] = <<>>

\* Blocks are agreed on and executed, and some replicas may crash.
Extend ==
  /\ agreed' \in Seq(Ids)
  /\ IsPrefix(agreed, agreed')
  /\ IsInjective(agreed')
  /\ \E lost \in SUBSET Replicas : Follow(lost)

Spec == Init /\ [][Extend]_<<agreed, copies>>
=============================================================================
