------------------------------ MODULE MCRandpa ------------------------------
(***************************************************************************)
(* Block producers k1..k4 and the full node f1 over a chain that starts   *)
(* at block 2, the last block of round 0 (a cfg takes the blocks and keys  *)
(* it needs):                                                              *)
(*   g(2) <- b3(3) <- b4(4) <- b5(5) <- b6(6) <- b7(7) <- b8(8)             *)
(*                              round 1: b3 starts it, b4 ends its prevote *)
(*      \<- c3(3) <- c4(4) <- c5(5) <- c6(6)                               *)
(*                              a fork by k2; round 2: c5 starts, c6 ends  *)
(*                              its prevote                                *)
(***************************************************************************)
EXTENDS Randpa

CONSTANTS k1, k2, k3, k4, f1, g, b3, b4, b5, b6, b7, b8, c3, c4, c5, c6

AllParentOf == (b3 :> g) @@ (b4 :> b3) @@ (b5 :> b4) @@ (b6 :> b5) @@ (b7 :> b6) @@ (b8 :> b7) @@ (c3 :> g) @@ (c4 :> c3) @@ (c5 :> c4) @@ (c6 :> c5)
AllBlockNum == (g :> 2) @@ (b3 :> 3) @@ (b4 :> 4) @@ (b5 :> 5) @@ (b6 :> 6) @@ (b7 :> 7) @@ (b8 :> 8) @@ (c3 :> 3) @@ (c4 :> 4) @@ (c5 :> 5) @@ (c6 :> 6)
AllCreator == (g :> k1) @@ (b3 :> k1) @@ (b4 :> k1) @@ (b5 :> k1) @@ (b6 :> k1) @@ (b7 :> k1) @@ (b8 :> k1) @@ (c3 :> k2) @@ (c4 :> k2) @@ (c5 :> k2) @@ (c6 :> k2)

\* The blocks a run uses (the cfg gives Blocks) and their attributes.
MCParentOf == [b \in Blocks \ {Genesis} |-> AllParentOf[b]]
MCBlockNum == [b \in Blocks |-> AllBlockNum[b]]
MCCreator == [b \in Blocks |-> AllCreator[b]]
MCActiveKeys == [b \in Blocks |-> Keys]

\* Remote producers that sign nothing.
MCNoBallots == [k \in Remote |-> {}]

\* Every remote producer may sign any vote of round 1 for b3 or c3.
MCRoundBallots == [k \in Remote |-> {"prevote", "precommit"} \X {1} \X {b3, c3}]

\* Remote producers that follow the protocol across a fork switch: k4
\* completes round 1 on b3 with the precommits of k2, k3 and k4, and leaves
\* the c fork (its _lib is b3).  k2 and k3 precommit b3 in round 1 but never
\* complete it (k4's precommit is lost to them), and in round 2 they vote
\* for the head c5 of the chain the host switched to.  The round-1
\* prevotes that led them to precommit are left out: the modelled node
\* never counts them, as it sees round 1 start on c3.
MCForkBallots ==
    LET both == {<<"precommit", 1, b3>>} \cup ({"prevote", "precommit"} \X {2} \X {c5})
    IN  (k2 :> both) @@ (k3 :> both) @@ (k4 :> {<<"precommit", 1, b3>>})

\* Two rounds on one chain: round 1 votes for b3; round 2 votes for b5, or
\* again for b3, the block round 1 finalizes (votes the wire format
\* allows, though a producer following the protocol prevotes the primary's
\* last block).
MCTwoRoundBallots ==
    [k \in Remote |-> ({"prevote", "precommit"} \X {1} \X {b3})
                      \cup ({"prevote", "precommit"} \X {2} \X {b3, b5})]

\* Three rounds on one chain, every remote producer voting for the block
\* that starts each: b3 in round 1, b5 in round 2, b7 in round 3.
MCThreeRoundBallots ==
    [k \in Remote |-> ({"prevote", "precommit"} \X {1} \X {b3})
                      \cup ({"prevote", "precommit"} \X {2} \X {b5})
                      \cup ({"prevote", "precommit"} \X {3} \X {b7})]

\* Every remote producer prevotes and precommits b3 in round 1.
MCHonestBallots == [k \in Remote |-> {"prevote", "precommit"} \X {1} \X {b3}]

\* Every modelled producer opens a session to every other one.
MCSessions == {<<n, m>> \in Nodes \X Nodes : n # m}

\* Exchanging two modelled producers that create none of the blocks, or two
\* such remote ones, maps behaviours to behaviours; a full node is not a
\* producer and is never exchanged with one.
Creators == {MCCreator[b] : b \in Blocks}
MCSymmetry == {p @@ q : p \in Permutations((Nodes \cap Keys) \ Creators), q \in Permutations(Remote \ Creators)}

=============================================================================
