---------------------------- MODULE InboundQueue ----------------------------
(***************************************************************************)
(* What the engine's inbound queue and worker promise the engine           *)
(* (specification, section 5): a single worker consumes a FIFO queue of    *)
(* net messages and events.  Messages are numbered in push order;          *)
(* process_msg is called with them in that order, each once, and with      *)
(* nothing that was not pushed.                                            *)
(***************************************************************************)
EXTENDS Naturals, Sequences

CONSTANT MaxPush        \* messages pushed in a behaviour

VARIABLES
    pushed,             \* messages pushed so far
    taken               \* messages handed to process_msg, in order

vars == <<pushed, taken>>

Init == pushed = 0 /\ taken = <<>>

\* A producer thread enqueues the next message.
Push == /\ pushed < MaxPush
        /\ pushed' = pushed + 1
        /\ UNCHANGED taken

\* The worker hands the oldest message not yet processed to process_msg.
Process == /\ Len(taken) < pushed
           /\ taken' = Append(taken, Len(taken) + 1)
           /\ UNCHANGED pushed

Spec == Init /\ [][Push \/ Process]_vars

=============================================================================
