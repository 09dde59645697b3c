--------------------------- MODULE RandpaFinality ---------------------------
(***************************************************************************)
(* What the RANDPA finality gadget promises its host, without rounds,     *)
(* votes or messages (specification, sections 1, 6 and 8).  Every node    *)
(* has a last irreversible block and the sequence of blocks it emitted on *)
(* its finality channel.                                                   *)
(*                                                                         *)
(*  - A node emits a block only when it extends the last block it emitted *)
(*    and does not fork from a block any node emitted: the emitted blocks *)
(*    of all nodes lie on one chain, and each node walks up that chain.   *)
(*  - _lib only moves up the chain ("monotone lib"): to a block above it,  *)
(*    whether the node emitted it or the host chain marked it              *)
(*    irreversible.                                                        *)
(* A step may emit and move _lib together, as finish_round does.          *)
(***************************************************************************)
EXTENDS Sequences

CONSTANTS
    Nodes,          \* the block producers
    Blocks,         \* block ids
    Genesis,        \* the block every node starts from as _lib
    ParentOf        \* prev_block_id of every block but Genesis

VARIABLES
    lib,            \* lib[n]: node n's last irreversible block
    published       \* published[n]: the blocks n emitted, oldest first

vars == <<lib, published>>

\* The strict ancestors of a block.
RECURSIVE Below(_)
Below(b) == IF b = Genesis THEN {} ELSE {ParentOf[b]} \cup Below(ParentOf[b])

\* Two blocks that lie on one chain.
OnOneChain(a, b) == a = b \/ a \in Below(b) \/ b \in Below(a)

\* b extends what n emitted and forks from nothing any node emitted.
MayPublish(n, b) ==
    /\ published[n] = <<>> \/ published[n][Len(published[n])] \in Below(b)
    /\ \A m \in Nodes : \A i \in DOMAIN published[m] : OnOneChain(b, published[m][i])

\* b lies above n's _lib.
MayAdvance(n, b) == lib[n] \in Below(b)

Init == /\ lib = [n \in Nodes |-> Genesis]
        /\ published = [n \in Nodes |-> <<>>]

Publish(n, b) ==
    /\ MayPublish(n, b)
    /\ published' = [published EXCEPT ![n] = Append(@, b)]
    /\ UNCHANGED lib

Advance(n, b) ==
    /\ MayAdvance(n, b)
    /\ lib' = [lib EXCEPT ![n] = b]
    /\ UNCHANGED published

PublishAndAdvance(n, b) ==
    /\ MayPublish(n, b)
    /\ MayAdvance(n, b)
    /\ published' = [published EXCEPT ![n] = Append(@, b)]
    /\ lib' = [lib EXCEPT ![n] = b]

Next == \E n \in Nodes, b \in Blocks :
            Publish(n, b) \/ Advance(n, b) \/ PublishAndAdvance(n, b)

Spec == Init /\ [][Next]_vars

=============================================================================
