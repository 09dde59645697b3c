---------------------------- MODULE RandpaRound ----------------------------
(***************************************************************************)
(* One RANDPA round (class randpa_round, src/unnamed/part_000), as pure    *)
(* operators over a round record and the tree the round borrows.  The      *)
(* engine (Randpa.tla) holds the record and calls these operators from its *)
(* handlers; each returns the new round, the new tree, the messages the    *)
(* round hands to its broadcast callbacks (out) and whether it invoked its *)
(* completion callback (done), which the engine then runs as finish_round. *)
(*                                                                         *)
(* Every node holds one signature provider, so a round's own messages      *)
(* carry one signature and the loops over signatures run once; a message  *)
(* is a record with the key recovered from its signature.                  *)
(***************************************************************************)
EXTENDS PrefixTree

\* A signed prevote: prevote_type {round_num, base_block, blocks} and its key.
Prevote(round, base, blocks, key) ==
    [type |-> "prevote", round |-> round, base |-> base, blocks |-> blocks, key |-> key]

\* A signed precommit: precommit_type {round_num, block_id} and its key.
Precommit(round, block, key) ==
    [type |-> "precommit", round |-> round, block |-> block, key |-> key]

RoundStates == {"init", "prevote", "ready_to_precommit", "precommit", "done", "fail"}

\* A default-constructed proof_type: round 0, the zero block id, no votes.
EmptyProof == [round |-> 0, best |-> NoBlock, prevotes |-> {}, precommits |-> {}]

\* The engine's null round pointer, as a record no round ever equals.
NoRound == [num |-> 0, primary |-> NoKey, state |-> "none", best |-> NoBlock,
            prevoted |-> {}, precommited |-> {}, proof |-> EmptyProof]

\* is_prevote_threshold_reached(node): 2 * size / 3 in integer arithmetic.
PrevoteThresholdReached(t, node) ==
    ConfirmationNumber(t, node) > (2 * Cardinality(NodeActiveKeys(t, node))) \div 3

\* is_precommit_threshold_reached()
PrecommitThresholdReached(r, t) ==
    Cardinality(r.proof.precommits) > (2 * Cardinality(NodeActiveKeys(t, r.best))) \div 3

\* add_prevote(msg): record the confirmation in the tree, remember the key,
\* and test the threshold at the node the confirmation landed on.
AddPrevote(r, t, pv) ==
    LET res  == AddConfirmations(t, pv.base, pv.blocks, pv.key, pv)
        node == res.node
        r1   == [r EXCEPT !.prevoted = @ \cup {pv.key}]
        hit  == r.state # "ready_to_precommit" /\ PrevoteThresholdReached(res.tree, node)
    IN  [round |-> IF hit THEN [r1 EXCEPT !.state = "ready_to_precommit", !.best = node]
                   ELSE r1,
         tree  |-> res.tree]

\* add_precommit(msg): remember the key, append the precommit to the proof,
\* and on reaching the threshold move to done and call done_cb.
AddPrecommit(r, t, pc) ==
    LET r1  == [r EXCEPT !.precommited = @ \cup {pc.key},
                         !.proof.precommits = @ \cup {pc}]
        hit == r.state # "done" /\ PrecommitThresholdReached(r1, t)
    IN  [round |-> IF hit THEN [r1 EXCEPT !.state = "done"] ELSE r1,
         done  |-> hit]

\* The constructor followed by prevote(): sign the branch ending at the
\* primary's last inserted block, add it as an own prevote, broadcast it.
\* Without such a block the round waits in `prevote` and sends nothing.
NewRound(num, primary, t, me) ==
    LET r0   == [num |-> num, primary |-> primary, state |-> "prevote", best |-> NoBlock,
                 prevoted |-> {}, precommited |-> {}, proof |-> EmptyProof]
        last == GetLastInserted(t, primary)
        br   == GetBranch(t, last)
        pv   == Prevote(num, br.base, br.blocks, me)
        res  == AddPrevote(r0, t, pv)
    IN  IF last = NoBlock THEN [round |-> r0, tree |-> t, out |-> {}]
        ELSE [round |-> res.round, tree |-> res.tree, out |-> {pv}]

\* validate_prevote(msg, key)
ValidPrevote(r, t, pv) ==
    LET node == FindLastNode(t, pv.base, pv.blocks)
    IN  /\ r.num = pv.round
        /\ pv.key \notin r.prevoted
        /\ node # NoBlock
        /\ pv.key \in NodeActiveKeys(t, node)

\* Mutant: validate_precommit without the test that the precommit is for
\* the best node.
ValidPrecommitAnyBlock(r, t, pc) ==
    /\ r.num = pc.round
    /\ pc.key \notin r.precommited
    /\ HasConfirmation(t, r.best, pc.key)

\* validate_precommit(msg, key)
ValidPrecommit(r, t, pc) ==
    /\ r.num = pc.round
    /\ pc.key \notin r.precommited
    /\ pc.block = r.best
    /\ HasConfirmation(t, r.best, pc.key)

\* on(prevote_msg): accepted in `prevote` and `ready_to_precommit` only.
OnPrevote(r, t, pv) ==
    IF r.state \in {"prevote", "ready_to_precommit"} /\ ValidPrevote(r, t, pv)
    THEN AddPrevote(r, t, pv)
    ELSE [round |-> r, tree |-> t]

\* on(precommit_msg): accepted in `ready_to_precommit` and `precommit` only.
OnPrecommit(r, t, pc) ==
    IF r.state \in {"ready_to_precommit", "precommit"} /\ ValidPrecommit(r, t, pc)
    THEN AddPrecommit(r, t, pc)
    ELSE [round |-> r, done |-> FALSE]

\* precommit(): the round moves to precommit, adds its own precommit for the
\* best block through add_precommit, without validate_precommit, and
\* broadcasts it.
PrecommitOwn(r, t, me) ==
    LET pc  == Precommit(r.num, r.best, me)
        res == AddPrecommit([r EXCEPT !.state = "precommit"], t, pc)
    IN  [round |-> res.round, done |-> res.done, out |-> {pc}]

\* end_prevote(): a round that is not ready fails; otherwise the proof takes
\* the round number, the best block and the prevotes stored on the best
\* node, and precommit() follows.
EndPrevote(r, t, me) ==
    IF r.state # "ready_to_precommit"
    THEN [round |-> [r EXCEPT !.state = "fail"], done |-> FALSE, out |-> {}]
    ELSE PrecommitOwn([r EXCEPT !.proof.round = r.num, !.proof.best = r.best,
                                !.proof.prevotes = @ \cup t.conf[r.best]], t, me)

\* finish(): a round that is not done fails.
Finish(r) == IF r.state # "done" THEN [r EXCEPT !.state = "fail"] ELSE r

=============================================================================
