----------------------------- MODULE MCReplica -----------------------------
(***************************************************************************)
(* Replica 0 of five validators, f = 1 and a quorum of three.  The peers'  *)
(* blocks are a chain 1 <- 2 <- 3 <- 4 of epoch 0 whose first one removes  *)
(* validator 4 and whose second one lets 5 join, a fork 5 next to block 2, *)
(* and a block 6 of epoch 1; block 7 is the replica's own.  One vote for   *)
(* block 2 names another view than the rest.                               *)
(*                                                                         *)
(* For the run of a join: replica 0 of four validators, and a chain whose  *)
(* first block lets 4 join.                                                *)
(***************************************************************************)
EXTENDS Replica

\* Certificates by three of the five validators.
Cert(block, view, epoch, signers) ==
  [block |-> block, view |-> view, epoch |-> epoch,
   sigs |-> {[block |-> block, signer |-> s, view |-> view, epoch |-> epoch] :
              s \in signers}]

Peer(hash, parent, view, epoch, proposer, qc, cmd) ==
  [hash |-> hash, parent |-> parent, view |-> view, epoch |-> epoch,
   proposer |-> proposer, qc |-> qc, cmd |-> cmd]

C1 == Cert(1, 1, 0, {0, 2, 3})
C2 == Cert(2, 2, 0, {0, 3, 4})
C3 == Cert(3, 3, 0, {0, 1, 2})

Chain == {Peer(1, 0, 1, 0, 1, None, RemoveValidator(4)),
          Peer(2, 1, 2, 0, 2, C1, JoinValidator(5, TRUE)),
          Peer(3, 2, 3, 0, 3, C2, NoOp),
          Peer(4, 3, 4, 0, 4, C3, NoOp)}
Fork == Peer(5, 1, 4, 0, 4, C1, NoOp)
NextEpoch == Peer(6, 3, 5, 1, 1, None, NoOp)

MCBlocks == Chain \cup {Fork, NextEpoch}
MCVotes == {[block |-> 2, view |-> 2, epoch |-> 0, signer |-> s] :
              s \in {1, 2, 3, 4}} \cup
           {[block |-> 2, view |-> 1, epoch |-> 0, signer |-> 3]} \cup
           {[block |-> 6, view |-> 5, epoch |-> 1, signer |-> s] :
              s \in {1, 2, 3}} \cup
           {[block |-> 7, view |-> 0, epoch |-> 0, signer |-> s] :
              s \in {1, 2, 4}}
MCQCs == {C1, C3}
MCCommands == {NoOp}

JoinBlocks == {Peer(1, 0, 1, 0, 1, None, JoinValidator(4, TRUE)),
               Peer(2, 1, 2, 0, 2, C1, NoOp),
               Peer(3, 2, 3, 0, 3, Cert(2, 2, 0, {0, 1, 3}), NoOp)}
=============================================================================
