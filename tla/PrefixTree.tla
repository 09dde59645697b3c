----------------------------- MODULE PrefixTree -----------------------------
(***************************************************************************)
(* The prefix-chain confirmation tree that every RANDPA node keeps beside  *)
(* its round (prefix_chain_tree.hpp, which is not among the sources: its   *)
(* operations are modelled from the specification, section 4.1).          *)
(*                                                                         *)
(* Block ids are model values.  The attributes a block carries (its        *)
(* number, its parent, its creator and the active BP keys at it) are fixed *)
(* by the id and given as constant functions; a tree is a record value:    *)
(*   nodes  the block ids present in the tree (the root included),         *)
(*   root   the root, which the engine keeps equal to its _lib,            *)
(*   bare   TRUE when the root was created by set_root for an id that was  *)
(*          not in the tree: such a node has no creator and no BP keys,    *)
(*   conf   confirmation_data of every node: a set of signed prevotes,     *)
(*          at most one per voter key,                                     *)
(*   last   last_inserted_block: creator key -> block id.                  *)
(* The engine owns one tree per node and passes it through these pure      *)
(* operators; the rounds only borrow it.                                   *)
(***************************************************************************)
EXTENDS Integers, FiniteSets, Sequences, FiniteSetsExt, SequencesExt

CONSTANTS
    Keys,           \* public keys of the block producers
    Blocks,         \* block ids the chain may produce
    Genesis,        \* the block the tree is started with (start(): root = _lib)
    ParentOf,       \* prev_block_id of every block but Genesis
    BlockNum,       \* get_block_num: the number embedded in a block id
    Creator,        \* creator_key of every block
    ActiveKeys,     \* active_bp_keys of every block
    NoBlock,        \* the null node pointer / the zero block id
    NoKey           \* the zero public key

ASSUME /\ Genesis \in Blocks
       /\ NoBlock \notin Blocks
       /\ NoKey \notin Keys
       /\ ParentOf \in [Blocks \ {Genesis} -> Blocks]
       /\ BlockNum \in [Blocks -> Nat]
       /\ \A b \in Blocks \ {Genesis} : BlockNum[b] = BlockNum[ParentOf[b]] + 1
       /\ Creator \in [Blocks -> Keys]
       /\ ActiveKeys \in [Blocks -> SUBSET Keys]

\* get_block_num of an id; the zero id (a default-constructed block_id_type)
\* has number 0.
Num(b) == IF b = NoBlock THEN 0 ELSE BlockNum[b]

\* The proper ancestors of a block in the chain the ids describe.
RECURSIVE AncestorsOf(_)
AncestorsOf(b) == IF b = Genesis THEN {} ELSE {ParentOf[b]} \cup AncestorsOf(ParentOf[b])

EmptyConf == [b \in Blocks |-> {}]

\* The tree the engine is started with: a root and nothing else.
InitTree(root) == [nodes |-> {root}, root |-> root, bare |-> FALSE,
                   conf |-> EmptyConf, last |-> [k \in Keys |-> NoBlock]]

\* active_bp_keys / creator_key of a node of tree t.
NodeActiveKeys(t, b) == IF t.bare /\ b = t.root THEN {} ELSE ActiveKeys[b]

\* find(block_id)
Find(t, b) == b \in t.nodes

\* The children of a node (adjacent_nodes).
Children(t, b) == {c \in t.nodes \ {t.root} : ParentOf[c] = b}

\* The node and every node below it.
Subtree(t, b) == {b} \cup {c \in t.nodes : b \in AncestorsOf(c)}

\* Keys that confirmed a node directly (confirmation_data's key set).
ConfKeys(t, b) == {p.key : p \in t.conf[b]}

\* has_confirmation(key)
HasConfirmation(t, b, k) == k \in ConfKeys(t, b)

\* confirmation_number(): the node's own confirmations plus, recursively,
\* those of its children.
RECURSIVE ConfirmationNumber(_, _)
ConfirmationNumber(t, b) ==
    Cardinality(t.conf[b]) + MapThenSumSet(LAMBDA c : ConfirmationNumber(t, c), Children(t, b))

\* insert({prev, [b]}, creator, active_bp_keys); the caller has checked that
\* prev is in the tree (otherwise NodeNotFoundError).  An existing child is
\* left as it is.
Insert(t, prev, b) ==
    IF b \in t.nodes THEN t
    ELSE [t EXCEPT !.nodes = @ \cup {b}, !.last[Creator[b]] = b]

\* find_last_node: the deepest block of `blocks` present in the tree,
\* scanning from the tail; else base_block when present; else null.
FindLastNode(t, base, blocks) ==
    LET i == SelectLastInSeq(blocks, LAMBDA x : x \in t.nodes)
    IN  IF i # 0 THEN blocks[i]
        ELSE IF base \in t.nodes THEN base ELSE NoBlock

\* add_confirmations(chain, key, prevote): the prevote is recorded, first
\* write wins, on the node find_last_node returns, and that node is returned.
AddConfirmations(t, base, blocks, key, pv) ==
    LET node == FindLastNode(t, base, blocks)
    IN  [node |-> node,
         tree |-> IF node = NoBlock \/ HasConfirmation(t, node, key) THEN t
                  ELSE [t EXCEPT !.conf[node] = @ \cup {pv}]]

\* get_branch(block_id): base_block is the root, blocks the path from the
\* root's child down to block_id.
RECURSIVE PathFromRoot(_, _)
PathFromRoot(t, b) == IF b = t.root \/ b = Genesis THEN <<>>
                      ELSE Append(PathFromRoot(t, ParentOf[b]), b)

GetBranch(t, b) == [base |-> t.root, blocks |-> PathFromRoot(t, b)]

\* get_last_inserted_block(creator): the node last inserted by that creator,
\* null when it has left the tree.
GetLastInserted(t, k) == IF t.last[k] \in t.nodes THEN t.last[k] ELSE NoBlock

\* get_head(): the deepest node.  Block numbers are heights, so nodes tied
\* for depth have the same number and the same round number.
GetHead(t) == CHOOSE b \in t.nodes : \A c \in t.nodes : Num(c) <= Num(b)

\* set_root(node): keep the node's subtree and make the node the root; a
\* node absent from the tree becomes a fresh bare root.  Pruned nodes keep
\* their confirmation_data (a round may still hold its best node), but they
\* are no longer reachable from the root.
SetRoot(t, b) ==
    IF b \in t.nodes
    THEN LET kept == Subtree(t, b)
         IN  [t EXCEPT !.nodes = kept, !.root = b,
                       !.bare = (@ /\ b = t.root),
                       !.last = [k \in Keys |-> IF @[k] \in kept THEN @[k] ELSE NoBlock]]
    ELSE [t EXCEPT !.nodes = {b}, !.root = b, !.bare = TRUE,
                   !.conf[b] = {}, !.last = [k \in Keys |-> NoBlock]]

\* remove_confirmations(): clear confirmation_data of every node in the tree.
RemoveConfirmations(t) ==
    [t EXCEPT !.conf = [b \in Blocks |-> IF b \in t.nodes THEN {} ELSE @[b]]]

============================================================================
