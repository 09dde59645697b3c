# RANDPA finality gadget: TLA+ models

TLA+ models of the RANDPA finality gadget of DAObet
(`src/plugins/randpa_plugin/include/eosio/randpa_plugin/randpa.hpp` and the
round class in `src/unnamed/part_000`), checked with TLC.

## The system

RANDPA runs beside block production on every block producer (BP). It
consists of these parts:

| Part | Source | State it keeps |
|---|---|---|
| C1 prefix chain tree | `prefix_chain_tree.hpp` (not among the sources; modelled from spec section 4.1) | nodes with creator and active BP keys, `confirmation_data` per node, the root (= `_lib`), the last inserted block per creator |
| C2 network messages | `network_messages.hpp` (not among the sources) | prevote, precommit, finality_notice, finality_req_proof, proof, handshake, handshake_ans |
| C3 round (`randpa_round`) | `part_000` | `state`, `best_node`, `proof`, `prevoted_keys`, `precommited_keys` |
| C4 engine (`randpa`) | `randpa.hpp` lines 173-885 | `_round`, `_lib`, `_last_prooved_block_num`, `_peers`, the `_peer_messages` and `_self_messages` caches, `_last_proofs` (2 entries), `_is_syncing`, `_is_frozen` |
| C5 message queue and worker (`message_queue`, `loop`, `stop`) | `randpa.hpp` lines 30-107, 266-305, 396-408 | the queue, `_need_notify`, two `_done` flags, the mutex and the condition variable |
| C6 channels (`channel`) | `randpa.hpp` lines 109-125 | subscriber lists |
| launcher | `src/run-node.sh` | none (a docker command) |

### How the parts interact

The transport and the block-event bus push items onto the queue (C5).
A single worker thread pops them and runs the matching engine handler
(C4). Only the worker ever touches the tree, the round or the caches.

- **Accepted block.** The engine inserts the block into the tree (C1) and
  recomputes `_is_syncing` and `_is_frozen`. It may then replace the round
  (`remove_round` clears both caches and all confirmations), and it may
  call `end_prevote`.
- **Prevotes and precommits.** These pass the sync/frozen gate and the
  self-message cache. They are re-broadcast when their round is the head's
  round, and then go to the round (C3). The round records confirmations in
  the tree and reaches its thresholds. At `done` it calls back into
  `finish_round`.
- **Finishing a round.** `finish_round` calls `on_proof_gained`, which
  caches the proof, publishes the block on the finality channel and
  broadcasts a `finality_notice`. It then calls `update_lib`.
- **Catching up.** A peer answers a notice with `finality_req_proof`. The
  answer is a `proof_msg`, which the receiver validates and treats as a
  proof gained.

## Modules

| Module | Models | Correspondence |
|---|---|---|
| `PrefixTree` | C1 | A tree is a record `[nodes, root, bare, conf, last]`. Block ids are model values, and their number, parent, creator and active keys are constant functions. Every tree operation is a pure operator; `ConfirmationNumber` is RECURSIVE. `set_root` of an id not in the tree gives a *bare* root with no keys, as `update_lib` does with `tree_node{lib_id}`. |
| `RandpaRound` | C3 | Operators over a round record and the tree it borrows. Each one returns the new round and tree, the messages handed to the broadcast callbacks, and whether `done_cb` fired. `EndPrevote` fills the proof and calls `PrecommitOwn` (`precommit()`), which adds the round's own precommit without validating it. |
| `Randpa` | C4, C2, C6 | `eng[n]` is node n's engine. `msgs` is the set of envelopes ever sent. `accepted[n]` is the blocks the host has reported. There is one action per handler (`OnAcceptedBlock`, `OnIrreversible`, `OnNewPeer`, `OnRoundMsg`, `OnNotice`, `OnReqProof`, `OnProof`, `OnHandshake`, `OnHandshakeAns`), each taking the whole handler with the round callbacks it triggers. `Deliver(n)` groups the six network handlers, as `net_msg_handler` does. `finalized[n]` is what n published on the finality channel. `consumed[n]` is the envelopes n's worker has taken, kept when `DeliverOnce` holds. `FairSpec` adds the fairness of the liveness runs. |
| `RandpaFinality` | what C4 promises its host | Abstract: `lib[n]` and `published[n]` (the finality channel) only. `Publish`, `Advance` and `PublishAndAdvance` allow a node to emit a block that extends its last emitted block and lies on one chain with every block any node emitted, and to move `_lib` to a block above it (the specification's "monotone lib"). `Randpa` refines it: `Finality == INSTANCE RandpaFinality WITH lib <- [n |-> eng[n].lib], published <- [n |-> eng[n].finalized]`, checked as the property `FinalitySpec`. |
| `MCRandpa` | - | Instantiates `Randpa`. Producers k1..k4 and the full node f1. Blocks `g(2) <- b3(3) <- ... <- b8(8)` by k1, with the fork `g <- c3(3) <- c4(4) <- c5(5) <- c6(6)` by k2. Round 1 starts on a block numbered 3 and ends its prevote on one numbered 4. Round 2 starts on one numbered 5 and ends its prevote on one numbered 6; round 3 starts on b7 and ends its prevote on b8. A cfg picks the blocks it needs. `Ballots` says which votes each remote producer may sign. |
| `MessageQueue` | C5 | Threads with program counters: producers (`Push`), the worker (`CheckNotify`, `Lock`, `Pred`, `Wait`, `Spurious`, `CheckDone`, `GetNextMsg`, `LoopCheck`, `ProcessMsg`) and the stopper (`SetRDone`, `SetQDone`, `Notify`, `Join`). Each step is what the code does under one hold of the mutex, or one access outside it. `msg` is `loop`'s local: the popped message's number, or 0 for the nullptr `get_next_msg_wait` returns after `terminate`. `loop`'s `_done` test (`LoopCheck`) and its `process_msg` call (`ProcessMsg`) are separate steps, since `stop` may run between them. |
| `InboundQueue` | what C5 promises the engine | Abstract: `pushed` and `taken`. `Push` numbers the next message; `Process` hands the oldest unprocessed one to `process_msg`. `MessageQueue` refines it with the identity mapping (`Inbound == INSTANCE InboundQueue`), checked as the property `InboundOrder`. |

### Choices in the engine model

- **The network.** The network is a set that is never emptied. In the
  safety runs (`DeliverOnce = FALSE`) an envelope may therefore be
  delivered late, never, or many times. This covers loss, reordering, and
  messages dropped as expired (`process_net_msg`). The liveness runs set
  `DeliverOnce`. Each envelope is then taken once (`consumed[n]`), as
  the worker takes each queue item once, and a handler's early return
  (`Ignored`) is a step. Prevotes and precommits carry no sender, because
  `process_round_msg` ignores the session; copies gossiped by different
  peers are one envelope.
- **Keys.** A node in `Keys` is a block producer with one key, and the key
  names its session. A node outside `Keys`, such as f1, is a full node:
  `is_active_bp` is false, so it never starts a round and always asks for
  the proof of a notice. It signs with the random key its constructor
  generates, which its name stands for.
- **Remote producers.** Producers in `Keys \ Nodes` run no engine. Their
  votes are on the wire from the start. `Ballots[k]` lists the
  `<<kind, round, block>>` votes producer k may sign. It signs exactly one
  prevote and one precommit for each round its ballots name. A vote never
  sent is the same as one never delivered.
- **Host events.** The host reports each node's blocks in chain order, each
  block once, with `sync` taken from `SyncFlags`. An irreversible event
  names a block the node published on its finality channel, or one of that
  block's ancestors. `on_irreversible` compares block numbers only. If the
  host could name any block it reported, TLC moves `_lib` to a block of the
  other fork with a higher number (the refinement fails in 14 steps). That
  needs the host's own finality to disagree with RANDPA's, which nothing
  in the sources shows, so it is a hazard and not a run.
- **Timing.** The model has no clock. With `TimelyPrevotes` the host
  reports a round's end-prevote block to a node only after the node has
  handled every prevote of that round on the wire to it (`InTime`). This
  is the synchrony the prevote window of one block assumes. The window
  also has a start: a prevote of round r reaches a node only after the
  host reported a block of round r to it (`InPhase`). Without it, a
  round fails whenever the network is slower than the chain, and the
  specification accepts that.
- **Sessions.** `Peered` sessions have completed their handshakes in Init.
  `Sessions` are those the transport may still open.

## Runs

| Run | Config | Result | What it shows |
|---|---|---|---|
| `pair_honest` | `MCRandpaPair.cfg` | pass, 83,554 states, under 3 min | Setup: two producers k1 and k2 on the chain `g, b3, b4, c3`. Sessions open through handshakes, sync events occur, and messages are lost or repeated. Result: `_lib` stays the root of the pruned tree (`TypeOK`), and the engines refine `RandpaFinality` (`FinalitySpec`): each node's finality channel climbs one chain that all nodes share, and `_lib` only climbs it. |
| `premature_done` | `MCRandpaNode.cfg` | violation of `RoundProofValid` | Setup: k1 alone with three remote producers. The remote precommits reach the threshold while k1 is in `ready_to_precommit`. The round goes `done` before `end_prevote` has filled the proof. `finish_round` reads a proof for the zero block, so k1 neither publishes nor moves `_lib`. `end_prevote` then turns the round into `fail`. |
| `own_precommit_unproven` | `MCRandpaOwnPrecommit.cfg` | violation of `CachedProofsValid` | Setup: k1 alone with honest remote producers k2, k3 and k4 (threshold 3 of 4), all voting b3. k1's host reports c3 before b3, so k1's round starts on c3 and k1 prevotes c3. The three prevotes for b3 make b3 the best node. `precommit()` adds k1's own precommit for b3 without `validate_precommit`, while the proof keeps only the prevotes stored on b3. The cached proof, which `on(finality_req_proof)` sends as is, names k1 as a precommitter with no prevote, and `validate_proof` rejects it at `randpa.hpp:556`. With two keys the threshold needs both votes, so this cannot happen, which is why the property is checked on four keys. |
| `two_rounds` | `MCRandpaRounds.cfg` | pass, 25,456 states | Setup: k1 with remote producers k2 and k3 (threshold 3 of 3) over the chain `g .. b6`. Round 1 votes for b3. Round 2 votes for b5, or again for b3, which round 1 finalized. Result: across the round replacement (`remove_round`, the pruned tree rooted at `_lib`) every emitted block has a precommit supermajority (`PublishedWithQuorum`), and the engine still refines `RandpaFinality` (`FinalitySpec`). A round-2 done on the root publishes nothing, because of `finish_round`'s comparison with `_lib`. |
| `proof_keeps_lib` | `MCRandpaProofLib.cfg` | violation of `PublishedWithinLib` | k2 learns finality through a notice, a request and a proof. It publishes b3 but keeps `_lib` at g, because `on(proof_msg)` never calls `update_lib`. The spec (section 6, scenario 6) says `_lib` advances. |
| `proof_cache` | `MCRandpaCache.cfg` | pass, 58,304 states, under 1 min | Setup: k1 with remote producers k2 and k3 on `g .. b8`; the remote producers vote for b3, b5 and b7 in rounds 1 to 3. Result: `_last_proofs`, from which `finality_req_proof` is answered, always holds the proofs of the last two blocks published on the finality channel, newest first (`RecentProofsCached`). This holds also after the third round, when the circular buffer drops round 1's proof. |
| `fork_switch_finality` | `MCRandpaFork.cfg` | violation of `PublishedAgreesWithQuorums` | Setup: k1 alone, with remote producers that follow the protocol. k2, k3 and k4 precommit b3 in round 1, and only k4 gathers the quorum and finalizes b3. The host then switches to the c fork. k2 and k3 never saw round 1 done, and they vote c5 in round 2; so does k1, whose primary's last block is c5. Result: k1 finalizes c5, which is off the chain of b3. `prevote()` and `remove_round` keep nothing of earlier rounds, so no producer has to misbehave for finality to fork. |
| `finality_catch_up` | `MCRandpaCatchUp.cfg` | pass, 5,120 states, under 10 s | Setup: k1 and k2 on `g, b3, b4`, with the sessions opening during the run, under `FairSpec`, `DeliverOnce` and `TimelyPrevotes`. Result: once either node emits a block, the other eventually emits one too (`FinalityReachesPeers`). It gets there through its own round, or through the finality notice, the request and the proof, past all the early returns of `on(proof_msg)`. |
| `early_precommit_stall` | `MCRandpaLive.cfg` | violation of `RoundFinalizes` | Setup: k1 with honest remote producers k2 and k3 (threshold 3 of 3), every prevote on time. k3's precommit arrives after b3 starts the round but before the prevote threshold. `process_round_msg` records its digest in `_self_messages`, and the round drops it. k3 sends it once, and the digest would shut out any copy a peer gossips later, so the round stays in `precommit` with 2 of 3 precommits and never finalizes b3. |
| `full_node_lagging_proof` | `MCRandpaFullNode.cfg` | violation of `FinalityReachesPeers` | Setup: producer k1 with remote producer k2 (threshold 2 of 2), and the full node f1, peered with k1 from the start, on `g, b3, b4`. Delivery is once, and prevotes are on time. k1 finalizes b3 and notifies f1 before f1's host has reported b3. f1 asks for the proof and gets it, but `validate_proof` finds no b3 in f1's tree and the proof is dropped. The request is never repeated, so f1 never publishes b3. The catch-up exchange fails for a node that lags its host, which is exactly the node it is for. |
| `queue_delivery` | `MCQueue.cfg` | pass, 875 states | Setup: up to 4 messages, and a host that either calls `stop` or never does (`StopModes = {FALSE, TRUE}`), racing the worker at every point. Result: each pushed message is eventually handed to `process_msg` unless `stop` has begun (`AllTaken`; `stop` does not drain the queue). `process_msg` never gets the nullptr `get_next_msg_wait` returns after `terminate` (`NoNullDispatch`), because `stop` sets `randpa::_done` before `terminate` sets the queue's flag; a message past `loop`'s test when `stop` begins is still processed, as "in-flight callbacks complete" allows. The queue and worker refine `InboundQueue` (`InboundOrder`): push order, each message exactly once, although `_need_notify` and `_done` are read without the mutex. |
| `queue_stop_hang` | `MCQueueStop.cfg` | violation of `StopReturns` | `terminate()` notifies without the mutex. The worker has evaluated the wait predicate but not yet blocked, so the notification is lost and `join()` never returns. |

Every property of a passing run has a mutant in PROJECT.json that TLC
catches:

- `update_lib` without `set_root`;
- `on(proof_msg)` without marking the current round done: the round later
  finishes and emits the same block a second time (`FinalitySpec`);
- `finish_round` without its comparison with `_lib`: a second round done
  on b3 emits b3 again (`FinalitySpec` in `two_rounds`);
- `validate_precommit` without its test that the precommit is for the best
  node: in `two_rounds` k1 finalizes a block on precommits for another (`PublishedWithQuorum`);
- `on(proof_msg)` refusing a proof whenever a round exists, not only a done
  one: k1, whose round waits for a precommit that never comes, never
  learns b3 (`FinalityReachesPeers`);
- `on_proof_gained` caching with `push_back`: with two proofs cached, the oldest is in front and round 3 evicts round 2's (`RecentProofsCached`);
- `push_message` without its notify (`AllTaken`);
- `loop` without its `_done` test: nullptr reaches `process_msg` (`NoNullDispatch`);
- `get_next_msg` reading `front()` without `pop()`: a message is processed twice (`InboundOrder`).

### Observed while modelling, without a run of their own

- **`_is_syncing` after a failed insert** (`randpa.hpp:690`). Once round 1
  finalizes b3 and `update_lib` prunes g, an accepted-block event for the
  fork block c3 with `sync = true` makes `insert` throw
  `NodeNotFoundError`. The handler returns before assigning `_is_syncing`,
  which keeps the previous event's value. The specification (section 4.3)
  says the flag mirrors the event. A property for this would only restate
  that early return, so none is kept.
- **A notice sent before the session opens** (`randpa.hpp:748`). With
  `MCRandpaFullNode.cfg` and `Peered = {}`, k1 can finish round 1 while its
  peer table is empty, so the notice goes to no one. The handshakes that
  follow carry `_lib`, and both handlers ignore it, so f1 never learns b3.
  This is a second violation of `FinalityReachesPeers`.
  `full_node_lagging_proof` reports the first counterexample TLC finds.

- **`_is_frozen` after `on_irreversible`** (`randpa.hpp:696`). The flag is
  computed only when an accepted block is inserted, so a node frozen on a
  block stays frozen after `update_lib` brings that block back within the
  lag, until the next block arrives. The specification (section 9) lists
  the flag as sticky and calls this case ambiguous, so the project keeps no
  property that would call it a bug.
- **Type invariant of the queue.** `MessageQueue!TypeOK` is not checked:
  no plausible bug of `push_message` or the worker breaks a type, and
  `NoNullDispatch` covers the one value (nullptr) that matters.

### Bounds and why they are enough

- **Chain.** The chain covers one full round: its start block, its
  end-prevote block, and a competing fork block by a different creator.
  That is what the round and proof exchange need: both thresholds,
  `end_prevote`, `finish_round`, the `update_lib` prune (after which `c3`
  fails to insert), and the irreversible event.
- **Thresholds.** With two keys the threshold is 2 of 2. With four keys it
  is 3 of 4.
- **Remote votes.** In `premature_done` they are limited to round 1 and
  `{b3, c3}`. That is enough for precommits to arrive early and for
  prevotes to land on both forks. In `fork_switch_finality` each remote
  producer's ballots are one protocol-following history over two rounds
  (see `MCForkBallots`). Its round-1 prevotes are left out, since they
  only lead to precommits that are already on the wire.
- **Two rounds.** `two_rounds` (on `g .. b6`) and `fork_switch_finality`
  (on the c fork) run one engine over two rounds. Two engines over two
  rounds do not finish in the time bound. `proof_cache` runs one engine
  over three rounds (`g .. b8`), the fewest that make the two-proof buffer
  evict; its remote producers vote only for each round's start block,
  which keeps the run under a minute. In `two_rounds` three keys are
  enough: the threshold is then all of them, so every remote vote
  matters.
- **Full node.** A full node beside two modelled producers is three
  engines, which exceed the time bound. The full-node runs pair f1 with
  one producer k1 whose partner k2 is remote (threshold 2 of 2). That is
  enough for k1 to finalize b3 on its own round and for f1 to depend on
  the notice, the request and the proof alone.
- **Queue.** Six pushes let the queue fill while the worker waits, drain,
  and wait again. The lost wakeup needs only one.
- **Lag.** `MaxFinalityLag` is 3 instead of 3312 (4 on the six-block fork),
  so that with `g` as `_lib` no block in the model freezes a node. The
  uint32 wrap in `_is_frozen` cannot happen: a block inserts only below a
  parent in the tree, and the tree is rooted at `_lib`, so the difference
  is at least 1.

### Fairness and deadlock

- **Queue model.** `MessageQueue` assumes weak fairness on every thread's
  steps: an OS thread that can run eventually runs. Spurious wakeups get no
  fairness, since they may never happen.
- **Engine runs.** The safety runs use `Spec`. The liveness runs use
  `FairSpec` with `DeliverOnce`, which adds three assumptions:
  - Delivery to each node is weakly fair: the transport delivers every
    envelope sent, once, and the worker's `loop` takes every queue item
    until `stop`. A message dropped on arrival is not delivered again,
    which is why `full_node_lagging_proof` fails; with redelivery allowed,
    fairness would have hidden that.
  - The transport opens the sessions it has.
  - The host keeps reporting its chain.

  The host is never required to send an irreversible event. TLC cannot
  compute `ENABLED` of the engine handlers within the time bound: LET
  values are not cached without a next state. So weak fairness of
  `Deliver(n)` is written out as `[]<>~Deliverable(n) \/ []<><<Deliver(n)>>_vars`.
  With `DeliverOnce`, every envelope has a handler or an early return, and
  taking it adds it to `consumed[n]`. So `Deliver(n)` changes the state
  exactly when an envelope to n that timing allows (`InPhase`) has not
  been taken, which is `Deliverable(n)`. TLC confirmed that it equals
  `ENABLED <<Deliver(n)>>_vars` on every state of `MCRandpaCatchUp`,
  `MCRandpaLive` and `MCRandpaFullNode`. Reporting b to n is the only
  step that falsifies `HostMayReport(n, b)`, so its weak fairness is
  `[]<>~HostMayReport(n, b)`.
- **`CHECK_DEADLOCK FALSE`.** Every config turns deadlock checking off,
  because the real system stops in each case. An engine stops once the
  finite chain and its messages are exhausted. The worker legitimately
  blocks on an empty queue.

## Not modelled

- Messages carrying several signatures, and signature recovery failures
  (`check_is_valid_msg`).
- Producers with several keys: a producer node has exactly one.
- LRU eviction of the 10^6-entry dedup caches.
- `SYNC_RANDPA` builds, in which the caller's thread runs the engine.
- The launcher script.
- The expiration timestamp itself, which is covered by message loss.

## Plan for later work

1. **A late requester after eviction** (`randpa.hpp:596`). `proof_cache`
   checks what the cache holds across eviction with one engine. A peer
   whose request for round 1 arrives after round 3 would need a second
   engine over three rounds, which is beyond the time bound.
2. **Catch-up across rounds.** `full_node_lagging_proof` and
   the `Peered = {}` variant noted at hazard `randpa.hpp:629` show that a lost proof or a missed notice is
   never repeated within a round. Whether the next round's notice always
   repairs that needs a full node beside an engine over two rounds.
3. **Two engines over two rounds.** Even with the sessions open from the
   start, the pair on `g .. b6` exceeds the time bound.
