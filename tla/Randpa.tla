------------------------------- MODULE Randpa -------------------------------
(***************************************************************************)
(* The RANDPA engine (class randpa, src/plugins/randpa_plugin/include/     *)
(* eosio/randpa_plugin/randpa.hpp) running on every block producer of a    *)
(* small network, with the rounds and trees it owns.                       *)
(*                                                                         *)
(* A node's engine is the record eng[n]; each handler the worker thread    *)
(* runs for an event or a network message is one action, taken whole.     *)
(* The worker handles one queue item at a time and the queue's order is    *)
(* the order items arrive in, so any interleaving of the nodes' handler    *)
(* steps is an execution.  The network is the set msgs of envelopes ever   *)
(* sent: an envelope may be delivered late, never, or many times, which    *)
(* also covers the messages process_net_msg drops as expired.              *)
(*                                                                         *)
(* A node in Keys is a block producer with that one key; a node outside   *)
(* Keys is a full node (_is_block_producer false), which signs with the    *)
(* random key its constructor generates, here its name.  The peer table    *)
(* maps keys to session ids and a node's session id is its name.  The      *)
(* dedup caches hold 10^6 digests and never evict here.                    *)
(***************************************************************************)
EXTENDS RandpaRound

CONSTANTS
    Nodes,              \* the nodes whose engines the model runs
    Ballots,            \* Ballots[k]: <<kind, round, block>> a remote producer may sign
    MaxFinalityLag,     \* _max_finality_lag_blocks, scaled down
    SyncFlags,          \* values the host may give on_accepted_block.sync
    Sessions,           \* <<n, m>>: the transport opens a session from n to m
    Peered,             \* sessions whose handshakes completed before block 3
    TimelyPrevotes,     \* whether a round's prevotes arrive within its prevote phase
    DeliverOnce         \* whether each envelope is handled at most once

\* Producers whose engines are not modelled: their prevotes and precommits
\* are any the wire format allows, at most one of each kind per round.
Remote == Keys \ Nodes

ASSUME /\ Nodes # {}
       /\ Ballots \in [Remote -> SUBSET ({"prevote", "precommit"} \X Nat \X Blocks)]
       /\ MaxFinalityLag \in Nat
       /\ SyncFlags \subseteq BOOLEAN /\ SyncFlags # {}
       /\ Sessions \subseteq {<<n, m>> \in Nodes \X Nodes : n # m}
       /\ Peered \subseteq Sessions
       /\ TimelyPrevotes \in BOOLEAN /\ DeliverOnce \in BOOLEAN

VARIABLES
    eng,        \* eng[n]: the engine state of node n
    msgs,       \* envelopes [from, to, body] sent on the out-net channel
    accepted,   \* accepted[n]: blocks whose on_accepted_block event n got
    consumed    \* consumed[n]: envelopes n's worker has taken (with DeliverOnce)

vars == <<eng, msgs, accepted, consumed>>

\* round_width, prevote_width, _proofs_cache_size
RoundWidth == 2
PrevoteWidth == 1
ProofsCacheSize == 2

\* round_num(block_id) == (get_block_num(block_id) - 1) / round_width in
\* uint32_t: the zero block number wraps to 2^32 - 1.
RoundNum(b) == IF Num(b) = 0 THEN 2147483647 ELSE (Num(b) - 1) \div RoundWidth

\* num_in_round(block_id); the zero block number wraps to 2^32 - 1.
NumInRound(b) == IF Num(b) = 0 THEN 1 ELSE (Num(b) - 1) % RoundWidth

-----------------------------------------------------------------------------
(* Messages.                                                               *)

Notice(round, block, key) == [type |-> "finality_notice", round |-> round, block |-> block, key |-> key]
ReqProof(round, key) == [type |-> "finality_req_proof", round |-> round, key |-> key]
ProofMsg(proof, key) == [type |-> "proof", proof |-> proof, key |-> key]
Handshake(key) == [type |-> "handshake", key |-> key]
HandshakeAns(key) == [type |-> "handshake_ans", key |-> key]

Envelope(from, to, body) == [from |-> from, to |-> to, body |-> body]

\* process_round_msg ignores the session a prevote or precommit came on, so
\* their envelopes record no sender: copies gossiped by different peers are
\* the same delivery.
Sender(n, body) == IF body.type \in {"prevote", "precommit"} THEN NoKey ELSE n

-----------------------------------------------------------------------------
(* Engine helpers.  Each takes node n's engine record s and returns        *)
(* [s |-> new record, out |-> envelopes sent].                            *)

\* bcast(msg): send to every peer unless the digest is in _peer_messages.
Bcast(n, s, body) ==
    IF body \in s.peerMsgs THEN [s |-> s, out |-> {}]
    ELSE [s |-> [s EXCEPT !.peerMsgs = @ \cup {body}],
          out |-> {Envelope(Sender(n, body), p, body) : p \in s.peers}]

\* Broadcast each of a set of messages (the round's callbacks).
BcastAll(n, s, bodies) ==
    [s |-> [s EXCEPT !.peerMsgs = @ \cup bodies],
     out |-> {Envelope(Sender(n, b), p, b) : p \in s.peers, b \in bodies \ s.peerMsgs}]

\* is_active_bp(block_id)
IsActiveBP(n, s, b) == n \in Keys /\ Find(s.tree, b) /\ n \in NodeActiveKeys(s.tree, b)

\* Mutant: _lib moves but the tree keeps its old root.
UpdateLibNoSetRoot(s, b) == [s EXCEPT !.lib = b]

\* update_lib(lib_id)
UpdateLib(s, b) == [s EXCEPT !.tree = SetRoot(@, b), !.lib = b]

\* Mutant: the proof cached with push_back, which on a full buffer
\* overwrites the front.
OnProofGainedPushBack(n, s, p) ==
    LET s1 == [s EXCEPT !.proofs = IF Len(@) < ProofsCacheSize THEN @ \o <<p>> ELSE Tail(@) \o <<p>>,
                        !.lastProoved = Num(p.best),
                        !.finalized = Append(@, p.best)]
    IN  Bcast(n, s1, Notice(p.round, p.best, n))

\* on_proof_gained(proof): cache the proof in the circular buffer, publish
\* the best block on the finality channel and broadcast a finality notice.
OnProofGained(n, s, p) ==
    LET s1 == [s EXCEPT !.proofs = SubSeq(<<p>> \o @, 1, IF Len(@) < ProofsCacheSize
                                                        THEN Len(@) + 1 ELSE ProofsCacheSize),
                        !.lastProoved = Num(p.best),
                        !.finalized = Append(@, p.best)]
    IN  Bcast(n, s1, Notice(p.round, p.best, n))

\* Mutant: finish_round without its comparison with _lib.
FinishRoundNoLibCheck(n, s) ==
    IF s.round = NoRound THEN [s |-> s, out |-> {}]
    ELSE LET r  == Finish(s.round)
             s1 == [s EXCEPT !.round = r]
             p  == r.proof
             g  == OnProofGained(n, s1, p)
         IN  IF r.state # "done"
             THEN [s |-> s1, out |-> {}]
             ELSE [s |-> UpdateLib(g.s, p.best), out |-> g.out]

\* finish_round(): the completion callback of a round.
FinishRound(n, s) ==
    IF s.round = NoRound THEN [s |-> s, out |-> {}]
    ELSE LET r  == Finish(s.round)
             s1 == [s EXCEPT !.round = r]
             p  == r.proof
             g  == OnProofGained(n, s1, p)
         IN  IF r.state # "done" \/ ~(Num(s.lib) < Num(p.best))
             THEN [s |-> s1, out |-> {}]
             ELSE [s |-> UpdateLib(g.s, p.best), out |-> g.out]

\* Run finish_round when the round called done_cb.
AfterDone(n, s, fired) == IF fired THEN FinishRound(n, s) ELSE [s |-> s, out |-> {}]

\* remove_round()
RemoveRound(s) == [s EXCEPT !.peerMsgs = {}, !.selfMsgs = {},
                            !.tree = RemoveConfirmations(@), !.round = NoRound]

\* should_start_round(block_id)
ShouldStartRound(s, b) ==
    /\ Num(b) >= 1
    /\ s.round = NoRound \/ RoundNum(b) > s.round.num

\* should_end_prevote(block_id)
ShouldEndPrevote(s, b) ==
    /\ s.round # NoRound
    /\ RoundNum(b) = s.round.num
    /\ NumInRound(b) = PrevoteWidth

\* new_round(...): the round's constructor runs prevote() and broadcasts.
StartRound(n, s, b) ==
    LET res == NewRound(RoundNum(b), Creator[b], s.tree, n)
    IN  BcastAll(n, [s EXCEPT !.round = res.round, !.tree = res.tree], res.out)

\* A step's result a followed by one with result c: c's state, both outputs.
Joined(a, c) == [s |-> c.s, out |-> a.out \cup c.out]

\* The broadcast of out after a step with result a.
BcastAfter(n, a, out) == Joined(a, BcastAll(n, a.s, out))

\* end_prevote() on the current round, then done_cb and the precommit
\* broadcast, in the order precommit() makes them.
EndPrevoteDone(n, s, res) ==
    BcastAfter(n, AfterDone(n, [s EXCEPT !.round = res.round], res.done), res.out)

DoEndPrevote(n, s) == EndPrevoteDone(n, s, EndPrevote(s.round, s.tree, n))

\* validate_proof(proof): every prevote contains the best block and comes
\* from an active BP, every precommit is for the best block from a key that
\* prevoted, and the precommitting keys exceed two thirds.
ValidateProof(t, p) ==
    LET bp   == NodeActiveKeys(t, p.best)
        pvks == {pv.key : pv \in p.prevotes}
        pcks == {pc.key : pc \in p.precommits}
    IN  /\ Find(t, p.best)
        /\ \A pv \in p.prevotes : /\ pv.base = p.best \/ p.best \in ToSet(pv.blocks)
                                  /\ pv.key \in bp
        /\ \A pc \in p.precommits : /\ pc.key \in pvks
                                    /\ pc.block = p.best
                                    /\ pc.key \in bp
        /\ Cardinality(pcks) > (Cardinality(bp) * 2) \div 3

\* _is_frozen: get_block_num(block) - get_block_num(_lib) in uint32_t
\* exceeds the lag; a negative difference wraps to a huge one.
FrozenAt(b, lib) == LET d == Num(b) - Num(lib) IN d < 0 \/ d > MaxFinalityLag

\* process_round_msg returns at once: the node is syncing or frozen, or the
\* message's digest is in _self_messages.
RoundMsgDropped(s, body) == s.syncing \/ s.frozen \/ body \in s.selfMsgs

\* process_round_msg(ses_id, msg) for a prevote or a precommit.
ProcessRoundMsg(n, s, body) ==
    IF RoundMsgDropped(s, body) THEN [s |-> s, out |-> {}]
    ELSE LET s1 == [s EXCEPT !.selfMsgs = @ \cup {body}]
             g  == IF RoundNum(GetHead(s1.tree)) = body.round THEN Bcast(n, s1, body)
                   ELSE [s |-> s1, out |-> {}]
             s2 == g.s
             pv == OnPrevote(s2.round, s2.tree, body)
             pc == OnPrecommit(s2.round, s2.tree, body)
             a  == AfterDone(n, [s2 EXCEPT !.round = pc.round], pc.done)
         IN  IF s2.round = NoRound THEN g
             ELSE IF body.type = "prevote"
                  THEN [s |-> [s2 EXCEPT !.round = pv.round, !.tree = pv.tree], out |-> g.out]
                  ELSE [s |-> a.s, out |-> g.out \cup a.out]

-----------------------------------------------------------------------------
(* The engine's state and its handlers.                                    *)

InitEngine == [tree |-> InitTree(Genesis), round |-> NoRound, lib |-> Genesis,
               lastProoved |-> 0, proofs |-> <<>>, syncing |-> FALSE, frozen |-> FALSE,
               selfMsgs |-> {}, peerMsgs |-> {}, peers |-> {}, finalized |-> <<>>]

\* The votes producer k outside Nodes can sign: a prevote for the branch
\* from Genesis to a block, or a precommit for a block, as Ballots[k] allows.
RemoteVotes(k) ==
    {IF v[1] = "prevote" THEN Prevote(v[2], Genesis, PathFromRoot(InitTree(Genesis), v[3]), k)
                         ELSE Precommit(v[2], v[3], k) : v \in Ballots[k]}

\* The votes of the producers outside Nodes: when they are sent does not
\* matter, only when they are delivered, so they are on the wire from the
\* start.  A producer signs one prevote and one precommit in each round its
\* ballots name; a vote it never sent is one never delivered.
OneVotePerKind(k) ==
    {S \in SUBSET RemoteVotes(k) :
        \A v \in Ballots[k] : Cardinality({w \in S : w.type = v[1] /\ w.round = v[2]}) = 1}

RemoteVoteSets ==
    {UNION {V[k] : k \in Remote} :
        V \in {V \in [Remote -> UNION {OneVotePerKind(k) : k \in Remote}] :
                 \A k \in Remote : V[k] \in OneVotePerKind(k)}}

\* The nodes have started with the tree rooted at Genesis; the sessions in
\* Peered have already exchanged handshake and handshake_ans.
Init == /\ eng = [n \in Nodes |-> [InitEngine EXCEPT !.peers =
                       {m \in Nodes : <<n, m>> \in Peered \/ <<m, n>> \in Peered}]]
        /\ \E R \in RemoteVoteSets :
              msgs = UNION {{Envelope(p[1], p[2], Handshake(p[1])),
                             Envelope(p[2], p[1], HandshakeAns(p[2]))} : p \in Peered}
                     \cup {Envelope(NoKey, n, v) : n \in Nodes, v \in R}
        /\ accepted = [n \in Nodes |-> {}]
        /\ consumed = [n \in Nodes |-> {e \in msgs : e.to = n /\ e.body.type \in {"handshake", "handshake_ans"}}]

\* Apply a handler's result to node n.
Apply(n, res) == /\ eng' = [eng EXCEPT ![n] = res.s]
                 /\ msgs' = msgs \cup res.out

\* on(on_accepted_block_event), after a successful insert: remove_round,
\* then new_round when this node is an active producer of the block.
StartIfActive(n, s, b) == IF IsActiveBP(n, s, b) THEN StartRound(n, s, b) ELSE [s |-> s, out |-> {}]

StartStep(n, s, b) ==
    IF ShouldStartRound(s, b) THEN StartIfActive(n, RemoveRound(s), b) ELSE [s |-> s, out |-> {}]

\* ... then end_prevote when the block ends the round's prevote phase.
EndStep(n, st, b) ==
    IF ShouldEndPrevote(st.s, b) THEN Joined(st, DoEndPrevote(n, st.s)) ELSE st

\* The handler from _is_syncing and _is_frozen on, s1 the engine after them.
Inserted(n, s1, b) ==
    \/ /\ s1.syncing \/ s1.frozen
       /\ eng' = [eng EXCEPT ![n] = s1]
       /\ UNCHANGED msgs
    \/ /\ ~(s1.syncing \/ s1.frozen)
       /\ Apply(n, EndStep(n, StartStep(n, s1, b), b))

\* on(on_accepted_block_event).  The host reports the blocks of a chain in
\* order, each block once; insertion fails when the parent is not in the
\* tree (it was pruned, or _lib jumped past it).
OnAcceptedBlock(n, b, sync) ==
    LET prev == ParentOf[b]
    IN  /\ b \notin accepted[n]
        /\ prev \in accepted[n] \cup {Genesis}
        /\ accepted' = [accepted EXCEPT ![n] = @ \cup {b}]
        /\ \/ /\ ~Find(eng[n].tree, prev)
              /\ UNCHANGED <<eng, msgs>>
           \/ /\ Find(eng[n].tree, prev)
              /\ Inserted(n, [eng[n] EXCEPT !.tree = Insert(@, prev, b), !.syncing = sync,
                                            !.frozen = FrozenAt(b, eng[n].lib)], b)

\* on(on_irreversible_event): the host chain marks a block irreversible.  The
\* host takes its irreversible blocks from this node's finality channel: a
\* published block or one of its ancestors.  Blocks at or below the root
\* are ignored.
OnIrreversible(n, b) ==
    /\ \E i \in DOMAIN eng[n].finalized :
          b \in {eng[n].finalized[i]} \cup AncestorsOf(eng[n].finalized[i])
    /\ Num(b) > Num(eng[n].tree.root)
    /\ eng' = [eng EXCEPT ![n] = UpdateLib(@, b)]
    /\ UNCHANGED <<msgs, accepted>>

\* on(on_new_peer_event): the transport opened a session with node m (once).
OnNewPeer(n, m) ==
    /\ <<n, m>> \in Sessions
    /\ Envelope(n, m, Handshake(n)) \notin msgs
    /\ msgs' = msgs \cup {Envelope(n, m, Handshake(n))}
    /\ UNCHANGED <<eng, accepted>>

\* on(prevote_msg) and on(precommit_msg)
OnRoundMsg(n, e) ==
    /\ e.body.type \in {"prevote", "precommit"}
    /\ Apply(n, ProcessRoundMsg(n, eng[n], e.body))
    /\ UNCHANGED accepted

\* on(finality_notice_msg) asks for the proof unless this node is an active
\* BP at the block and has already proved that far.
AsksForProof(n, s, d) == ~(IsActiveBP(n, s, d.block) /\ Num(d.block) <= s.lastProoved)

\* on(finality_notice_msg): ask the sender for the proof.
OnNotice(n, e) ==
    LET s == eng[n]
        d == e.body
    IN  /\ d.type = "finality_notice"
        /\ AsksForProof(n, s, d)
        /\ msgs' = msgs \cup {Envelope(n, e.from, ReqProof(d.round, n))}
        /\ UNCHANGED <<eng, accepted>>

\* The loop over _last_proofs: the index of the newest cached proof of
\* round r, 0 when there is none.
CachedProofIndex(s, r) == SelectInSeq(s.proofs, LAMBDA p : p.round = r)

\* on(finality_req_proof_msg): reply with the newest cached proof of the round.
OnReqProof(n, e) ==
    LET s == eng[n]
        i == CachedProofIndex(s, e.body.round)
    IN  /\ e.body.type = "finality_req_proof"
        /\ i # 0
        /\ msgs' = msgs \cup {Envelope(n, e.from, ProofMsg(s.proofs[i], n))}
        /\ UNCHANGED <<eng, accepted>>

\* Mutant: on(proof_msg) refuses a proof whenever a round exists.
ProofAcceptedNoRound(s, p) ==
    /\ ~s.syncing /\ ~s.frozen
    /\ s.lastProoved < Num(p.best)
    /\ Num(s.lib) < Num(p.best)
    /\ s.round = NoRound
    /\ ValidateProof(s.tree, p)

\* The early returns of on(proof_msg): the node is neither syncing nor
\* frozen, the proof is for a block above the last proved block and _lib,
\* the round is not done, and validate_proof passes.
ProofAccepted(s, p) ==
    /\ ~s.syncing /\ ~s.frozen
    /\ s.lastProoved < Num(p.best)
    /\ Num(s.lib) < Num(p.best)
    /\ ~(s.round # NoRound /\ s.round.state = "done")
    /\ ValidateProof(s.tree, p)

\* Mutant: on(proof_msg) leaves the current round as it is.
OnProofNoDone(n, e) ==
    LET s  == eng[n]
        p  == e.body.proof
    IN  /\ e.body.type = "proof"
        /\ ProofAccepted(s, p)
        /\ Apply(n, OnProofGained(n, s, p))
        /\ UNCHANGED accepted

\* on(proof_msg): a valid proof for a block above both the last proved block
\* and _lib, while the round is not done, marks a round of the same number
\* done and is handled as a proof gained.  _lib is not moved.
OnProof(n, e) ==
    LET s  == eng[n]
        p  == e.body.proof
        s1 == IF s.round # NoRound /\ s.round.num = p.round
              THEN [s EXCEPT !.round.state = "done"] ELSE s
    IN  /\ e.body.type = "proof"
        /\ ProofAccepted(s, p)
        /\ Apply(n, OnProofGained(n, s1, p))
        /\ UNCHANGED accepted

\* on(handshake_msg): record the peer's session and answer.
OnHandshake(n, e) ==
    /\ e.body.type = "handshake"
    /\ eng' = [eng EXCEPT ![n].peers = @ \cup {e.body.key}]
    /\ msgs' = msgs \cup {Envelope(n, e.from, HandshakeAns(n))}
    /\ UNCHANGED accepted

\* on(handshake_ans_msg): record the peer's session.
OnHandshakeAns(n, e) ==
    /\ e.body.type = "handshake_ans"
    /\ eng' = [eng EXCEPT ![n].peers = @ \cup {e.body.key}]
    /\ UNCHANGED <<msgs, accepted>>

\* The envelopes addressed to node n.
Inbox(n) == {e \in msgs : e.to = n}

\* The network's timing.  With TimelyPrevotes, every prevote of round
\* RoundNum(b) on the wire to node n has been handled by n before the host
\* reports the block b that ends that round's prevote phase.
InTime(n, b) ==
    \/ ~TimelyPrevotes
    \/ NumInRound(b) # PrevoteWidth
    \/ \A e \in Inbox(n) : e.body.type = "prevote" /\ e.body.round = RoundNum(b)
                            => e.body \in eng[n].selfMsgs

\* The early returns of on(finality_notice_msg), on(finality_req_proof_msg)
\* and on(proof_msg): the envelope is taken and nothing changes.
Ignored(n, e) ==
    LET d == e.body
    IN  \/ d.type = "finality_notice" /\ ~AsksForProof(n, eng[n], d)
        \/ d.type = "finality_req_proof" /\ CachedProofIndex(eng[n], d.round) = 0
        \/ d.type = "proof" /\ ~ProofAccepted(eng[n], d.proof)

\* The network's timing, the other end of the prevote phase: with
\* TimelyPrevotes, a prevote of round r reaches node n only after the host
\* reported a block of round r to n.
InPhase(n, e) ==
    TimelyPrevotes /\ e.body.type = "prevote" => \E b \in accepted[n] : RoundNum(b) = e.body.round

\* The worker takes an envelope addressed to node n from its queue.  With
\* DeliverOnce it takes each envelope once, and a handler's early return is
\* a step; without it an envelope may come again, and an early return is a
\* stutter.
Deliver(n) ==
    \E e \in Inbox(n) :
        /\ ~DeliverOnce \/ e \notin consumed[n]
        /\ InPhase(n, e)
        /\ consumed' = IF DeliverOnce THEN [consumed EXCEPT ![n] = @ \cup {e}] ELSE consumed
        /\ \/ DeliverOnce /\ Ignored(n, e) /\ UNCHANGED <<eng, msgs, accepted>>
           \/ OnRoundMsg(n, e)
           \/ OnNotice(n, e)
           \/ OnReqProof(n, e)
           \/ OnProof(n, e)
           \/ OnHandshake(n, e)
           \/ OnHandshakeAns(n, e)

\* With DeliverOnce, <<Deliver(n)>>_vars is enabled exactly when an envelope
\* addressed to n has not been taken and its timing allows it: every
\* handler or Ignored applies.
Deliverable(n) == \E e \in Inbox(n) \ consumed[n] : InPhase(n, e)

\* The worker takes the next item of node n's queue: an event or an
\* envelope addressed to n.
Next ==
    \E n \in Nodes :
        \/ /\ \/ \E b \in Blocks \ {Genesis}, sync \in SyncFlags : InTime(n, b) /\ OnAcceptedBlock(n, b, sync)
              \/ \E b \in Blocks : OnIrreversible(n, b)
              \/ \E m \in Nodes : OnNewPeer(n, m)
           /\ UNCHANGED consumed
        \/ Deliver(n)

Spec == Init /\ [][Next]_vars

\* The host may report block b to node n: its parent was reported, and the
\* network has kept the round's timing.
HostMayReport(n, b) == b \notin accepted[n] /\ ParentOf[b] \in accepted[n] \cup {Genesis} /\ InTime(n, b)

\* Fairness.  The worker thread takes every item of its queue (loop runs
\* until stop), so delivering to node n is weakly fair; the transport opens
\* the sessions it has; and the host, whose chain keeps growing, reports
\* every block it may report.  FairSpec is meant for DeliverOnce models:
\* the transport delivers every envelope sent once, and loop takes it once.
\* WF_vars(Deliver(n)) is written out with its enabling condition
\* Deliverable(n).  A report of b to n is the only step
\* that falsifies HostMayReport(n, b), which no step makes true again, so
\* weak fairness of reporting b is []<>~HostMayReport(n, b).  The host is
\* never bound to mark a block irreversible.
FairSpec ==
    /\ Spec
    /\ \A n \in Nodes : []<>~Deliverable(n) \/ []<><<Deliver(n)>>_vars
    /\ \A n \in Nodes : WF_vars(\E m \in Nodes : OnNewPeer(n, m) /\ UNCHANGED consumed)
    /\ \A n \in Nodes, b \in Blocks \ {Genesis} : []<>~HostMayReport(n, b)

-----------------------------------------------------------------------------
(* Properties.                                                             *)

TypeOK ==
    /\ \A e \in msgs : e.from \in Nodes \cup {NoKey} /\ e.to \in Nodes /\ e.from # e.to
    /\ \A n \in Nodes :
        /\ eng[n].tree.nodes \subseteq Blocks
        /\ eng[n].lib = eng[n].tree.root
        /\ eng[n].round = NoRound \/ eng[n].round.state \in RoundStates
        /\ Len(eng[n].proofs) <= ProofsCacheSize
        /\ eng[n].peers \subseteq Nodes \ {n}
        /\ accepted[n] \subseteq Blocks \ {Genesis}
        /\ consumed[n] \subseteq Inbox(n)

\* A tree holding every block with its own attributes, to judge a proof's
\* content apart from what one node's tree holds.
FullTree == [InitTree(Genesis) EXCEPT !.nodes = Blocks]

\* The proof round trip (specification, section 8): the proof of a round
\* that reached done on its precommit threshold passes validate_proof.
\* add_precommit reaches done in ready_to_precommit too, before end_prevote
\* has filled the proof that finish_round then reads.
RoundProofValid ==
    \A n \in Nodes :
        LET r == eng[n].round
        IN  r.state = "done" /\ PrecommitThresholdReached(r, eng[n].tree)
                => ValidateProof(eng[n].tree, r.proof)

\* A block published on the finality channel is at or below _lib: the
\* channel emits each time _lib advances, an external proof included
\* (specification, sections 6 and 8, scenario 6).  on(proof_msg) publishes
\* through on_proof_gained and leaves _lib where it was.
PublishedWithinLib ==
    \A n \in Nodes : \A i \in DOMAIN eng[n].finalized :
        Num(eng[n].finalized[i]) <= Num(eng[n].lib)

\* Every proof in _last_proofs passes validate_proof on a node that has the
\* best block.  on(finality_req_proof) sends these proofs as they are, and a
\* peer accepts one only through validate_proof (on(proof_msg)).  end_prevote
\* adds the node's own precommit for the best block without validating it,
\* while the proof keeps only the prevotes that contain the best block.
CachedProofsValid ==
    \A n \in Nodes : \A i \in DOMAIN eng[n].proofs : ValidateProof(FullTree, eng[n].proofs[i])

\* The engine implements the finality gadget's promise (RandpaFinality):
\* the blocks a node emits on its finality channel, from finish_round or
\* from an external proof, extend the last one it emitted and lie on one
\* chain with every block any node emitted; _lib, moved by update_lib from
\* finish_round and on_irreversible, only climbs that chain.
Finality == INSTANCE RandpaFinality
                WITH lib <- [n \in Nodes |-> eng[n].lib],
                     published <- [n \in Nodes |-> eng[n].finalized]

FinalitySpec == Finality!Spec

\* The precommits node n can show a signature for: those on the wire and
\* its own, which stay in its round's proof and in the proofs it cached.
SignedPrecommits(n) ==
    {e.body : e \in {e \in msgs : e.body.type = "precommit"}}
        \cup {pc \in eng[n].round.proof.precommits \cup UNION {p.precommits : p \in ToSet(eng[n].proofs)} :
                 pc.key = n}

\* A block is finalized only on a supermajority of precommits for that very
\* block in one round (specification, sections 1 and 8): every block a node
\* emits, from its own round (validate_precommit, the precommit threshold)
\* or from a peer's proof (validate_proof), was precommitted in some round
\* by more than two thirds of its producers.
PublishedWithQuorum ==
    \A n \in Nodes : \A i \in DOMAIN eng[n].finalized :
        LET b == eng[n].finalized[i]
        IN  \E r \in {pc.round : pc \in SignedPrecommits(n)} :
                Cardinality({pc.key : pc \in {pc \in SignedPrecommits(n) : pc.round = r /\ pc.block = b}})
                    > (2 * Cardinality(ActiveKeys[b])) \div 3

\* Producers whose precommits for block b in round r are on the wire.
PrecommittedBy(r, b) ==
    {e.body.key : e \in {e \in msgs : e.body.type = "precommit" /\ e.body.round = r /\ e.body.block = b}}

\* Finality is byzantine-tolerant (specification, section 1): once more
\* than two thirds of the producers precommit a block in a round, a node
\* that gathers those precommits finalizes it, so no node emits a block off
\* its chain.  Neither new_round nor the prevote rule looks at earlier
\* rounds: a producer that precommitted in a round it never saw done votes
\* in the next round for whatever the primary's branch is.
PublishedAgreesWithQuorums ==
    \A n \in Nodes : \A i \in DOMAIN eng[n].finalized : \A r \in 1..2 : \A b \in Blocks :
        Cardinality(PrecommittedBy(r, b)) > (2 * Cardinality(ActiveKeys[b])) \div 3
            => Finality!OnOneChain(eng[n].finalized[i], b)

\* Finality reaches every producer (specification, section 8: finality
\* notices, proof requests and proofs let lagging peers catch up without
\* re-running the vote): once one node emits a block on its finality
\* channel, every node eventually emits one, from its own round or from
\* the proof it requests after the notice.  on(proof_msg) refuses a proof
\* while the node's own round is done, and on(finality_notice_msg) asks
\* for no proof when the node is an active producer already proved that
\* far.
FinalityReachesPeers ==
    \A n, m \in Nodes : Len(eng[m].finalized) > 0 ~> Len(eng[n].finalized) > 0

\* A round among honest producers finalizes its block (specification,
\* section 1: a block becomes irreversible once supermajority approval is
\* witnessed): when every producer prevotes and precommits the block of a
\* round, and every prevote reaches every node within the prevote phase
\* (TimelyPrevotes), each node eventually emits a block on its finality channel.
\* process_round_msg records a vote in _self_messages before the round
\* looks at it, and the round drops a precommit that comes while it is
\* still in `prevote`; the digest then shuts out every later copy until
\* remove_round.
RoundFinalizes == <>(\A n \in Nodes : Len(eng[n].finalized) > 0)

\* finality_req_proof is answered from the proofs of the blocks the node
\* published last (specification, section 4.3: on_proof_gained pushes into the bounded
\* proof cache, front insert, evict back):
\* _last_proofs holds the proofs of the last _proofs_cache_size blocks on
\* the finality channel, newest first.  on_proof_gained pushes to the front
\* of the circular buffer, which drops the oldest proof once full, and is
\* the only step that publishes; remove_round and update_lib leave the
\* cache.
RecentProofsCached ==
    \A n \in Nodes :
        LET f == eng[n].finalized
            k == Len(eng[n].proofs)
        IN  /\ k = IF Len(f) < ProofsCacheSize THEN Len(f) ELSE ProofsCacheSize
            /\ \A i \in 1..k : eng[n].proofs[i].best = f[Len(f) + 1 - i]

=============================================================================
