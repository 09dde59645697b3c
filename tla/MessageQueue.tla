---------------------------- MODULE MessageQueue ----------------------------
(***************************************************************************)
(* The engine's inbound queue (class message_queue, randpa.hpp) with the   *)
(* threads that use it: the producers that push network messages and      *)
(* events (randpa::subscribe), the worker running randpa::loop over        *)
(* get_next_msg_wait, and the thread that calls randpa::stop.             *)
(*                                                                         *)
(* push_message and get_next_msg run whole under _message_queue_mutex, so  *)
(* each is one step.  get_next_msg_wait reads the atomic _need_notify      *)
(* without the mutex, then waits on the condition variable:               *)
(* cv.wait(lk, pred) evaluates pred under the lock and, when it is false,  *)
(* releases the lock and blocks in one step; a notify_one reaches the      *)
(* worker only while it is blocked.  terminate() writes _done and notifies *)
(* without taking the mutex.  Messages are numbered in push order.        *)
(***************************************************************************)
EXTENDS Naturals, Sequences

CONSTANTS
    MaxPush,        \* messages the producers push in a behaviour
    StopModes       \* whether the host calls randpa::stop: a subset of BOOLEAN

ASSUME MaxPush \in Nat /\ StopModes \subseteq BOOLEAN /\ StopModes # {}

VARIABLES
    queue,          \* _message_queue: numbers of the messages in it
    needNotify,     \* message_queue::_need_notify
    qdone,          \* message_queue::_done
    rdone,          \* randpa::_done
    holder,         \* the thread holding _message_queue_mutex, or "none"
    wpc,            \* the worker's position in loop / get_next_msg_wait
    spc,            \* the stopping thread's position in stop / terminate
    pushed,         \* messages pushed so far
    taken,          \* messages process_msg has been called with, in order
    msg             \* loop's local msg: a message number, or 0 for nullptr

vars == <<queue, needNotify, qdone, rdone, holder, wpc, spc, pushed, taken, msg>>

Init == /\ queue = <<>>
        /\ needNotify = TRUE
        /\ qdone = FALSE
        /\ rdone = FALSE
        /\ holder = "none"
        /\ wpc = "check_notify"
        /\ spc \in {IF s THEN "set_rdone" ELSE "idle" : s \in StopModes}
        /\ pushed = 0
        /\ taken = <<>>
        /\ msg = 0

\* notify_one: wakes the worker when it is blocked on the condition variable.
Wake(pc) == IF pc = "blocked" THEN "relock" ELSE pc

\* Mutant: messages numbered from 0.
PushFromZero ==
    /\ pushed < MaxPush
    /\ holder = "none"
    /\ queue' = Append(queue, pushed)
    /\ pushed' = pushed + 1
    /\ wpc' = IF needNotify THEN Wake(wpc) ELSE wpc
    /\ UNCHANGED <<needNotify, qdone, rdone, holder, spc, taken, msg>>

\* Mutant: push_message without the notify.
PushNoNotify ==
    /\ pushed < MaxPush
    /\ holder = "none"
    /\ queue' = Append(queue, pushed + 1)
    /\ pushed' = pushed + 1
    /\ UNCHANGED <<needNotify, qdone, rdone, holder, wpc, spc, taken, msg>>

\* push_message: under the mutex, enqueue and notify when _need_notify.
Push ==
    /\ pushed < MaxPush
    /\ holder = "none"
    /\ queue' = Append(queue, pushed + 1)
    /\ pushed' = pushed + 1
    /\ wpc' = IF needNotify THEN Wake(wpc) ELSE wpc
    /\ UNCHANGED <<needNotify, qdone, rdone, holder, spc, taken, msg>>

\* get_next_msg_wait: the loop head reads _need_notify without the mutex.
CheckNotify ==
    /\ wpc = "check_notify"
    /\ wpc' = IF needNotify THEN "lock" ELSE "check_done"
    /\ UNCHANGED <<queue, needNotify, qdone, rdone, holder, spc, pushed, taken, msg>>

\* std::unique_lock lk(_message_queue_mutex), or the re-lock after a wakeup.
Lock ==
    /\ wpc \in {"lock", "relock"}
    /\ holder = "none"
    /\ holder' = "worker"
    /\ wpc' = "pred"
    /\ UNCHANGED <<queue, needNotify, qdone, rdone, spc, pushed, taken, msg>>

\* The wait predicate, evaluated under the lock: a true predicate leaves
\* wait() and releases lk at the end of the if block.
Pred ==
    /\ wpc = "pred"
    /\ IF queue # <<>> \/ qdone
       THEN /\ wpc' = "check_done" /\ holder' = "none"
       ELSE /\ wpc' = "wait" /\ UNCHANGED holder
    /\ UNCHANGED <<queue, needNotify, qdone, rdone, spc, pushed, taken, msg>>

\* wait(lk): release the mutex and block, in one step.
Wait ==
    /\ wpc = "wait"
    /\ wpc' = "blocked"
    /\ holder' = "none"
    /\ UNCHANGED <<queue, needNotify, qdone, rdone, spc, pushed, taken, msg>>

\* A spurious wakeup of the blocked worker.
Spurious ==
    /\ wpc = "blocked"
    /\ wpc' = "relock"
    /\ UNCHANGED <<queue, needNotify, qdone, rdone, holder, spc, pushed, taken, msg>>

\* if (_done) return nullptr;  read without the mutex.
CheckDone ==
    /\ wpc = "check_done"
    /\ \/ /\ qdone
          /\ wpc' = "loop_check"
          /\ msg' = 0
       \/ /\ ~qdone
          /\ wpc' = "get"
          /\ UNCHANGED msg
    /\ UNCHANGED <<queue, needNotify, qdone, rdone, holder, spc, pushed, taken>>

\* Mutant: get_next_msg reads front() but forgets pop().
GetNextMsgNoPop ==
    /\ wpc = "get"
    /\ holder = "none"
    /\ IF queue = <<>>
       THEN /\ needNotify' = TRUE
            /\ wpc' = "check_notify"
            /\ UNCHANGED <<queue, msg>>
       ELSE /\ needNotify' = FALSE
            /\ msg' = Head(queue)
            /\ wpc' = "loop_check"
            /\ UNCHANGED queue
    /\ UNCHANGED <<qdone, rdone, holder, spc, pushed, taken>>

\* get_next_msg(), under the mutex: an empty queue sets _need_notify and
\* yields null, so the wait loop repeats; otherwise the front is popped.
GetNextMsg ==
    /\ wpc = "get"
    /\ holder = "none"
    /\ IF queue = <<>>
       THEN /\ needNotify' = TRUE
            /\ wpc' = "check_notify"
            /\ UNCHANGED <<queue, msg>>
       ELSE /\ needNotify' = FALSE
            /\ msg' = Head(queue)
            /\ queue' = Tail(queue)
            /\ wpc' = "loop_check"
    /\ UNCHANGED <<qdone, rdone, holder, spc, pushed, taken>>

\* Mutant: randpa::loop without its check of randpa::_done.
LoopCheckNoStopCheck ==
    /\ wpc = "loop_check"
    /\ wpc' = "process"
    /\ UNCHANGED <<queue, needNotify, qdone, rdone, holder, spc, pushed, taken, msg>>

\* randpa::loop: if (_done) break;  read after get_next_msg_wait returned.
LoopCheck ==
    /\ wpc = "loop_check"
    /\ wpc' = IF rdone THEN "exited" ELSE "process"
    /\ UNCHANGED <<queue, needNotify, qdone, rdone, holder, spc, pushed, taken, msg>>

\* randpa::loop: process_msg(msg), then the next iteration.
ProcessMsg ==
    /\ wpc = "process"
    /\ taken' = Append(taken, msg)
    /\ wpc' = "check_notify"
    /\ UNCHANGED <<queue, needNotify, qdone, rdone, holder, spc, pushed, msg>>

\* randpa::stop: _done = true, then message_queue::terminate, which sets its
\* own _done and calls notify_one without the mutex, then joins the worker.
SetRDone ==
    /\ spc = "set_rdone"
    /\ rdone' = TRUE
    /\ spc' = "set_qdone"
    /\ UNCHANGED <<queue, needNotify, qdone, holder, wpc, pushed, taken, msg>>

SetQDone ==
    /\ spc = "set_qdone"
    /\ qdone' = TRUE
    /\ spc' = "notify"
    /\ UNCHANGED <<queue, needNotify, rdone, holder, wpc, pushed, taken, msg>>

Notify ==
    /\ spc = "notify"
    /\ wpc' = Wake(wpc)
    /\ spc' = "join"
    /\ UNCHANGED <<queue, needNotify, qdone, rdone, holder, pushed, taken, msg>>

\* _thread_ptr->join() returns once the worker has left loop().
Join ==
    /\ spc = "join"
    /\ wpc = "exited"
    /\ spc' = "stopped"
    /\ UNCHANGED <<queue, needNotify, qdone, rdone, holder, wpc, pushed, taken, msg>>

WorkerStep == CheckNotify \/ Lock \/ Pred \/ Wait \/ CheckDone \/ GetNextMsg \/ LoopCheck \/ ProcessMsg

Next == Push \/ WorkerStep \/ Spurious \/ SetRDone \/ SetQDone \/ Notify \/ Join

\* The scheduler runs every runnable thread; a spurious wakeup may never
\* happen.
Spec == /\ Init /\ [][Next]_vars
        /\ WF_vars(Push) /\ WF_vars(WorkerStep)
        /\ WF_vars(SetRDone) /\ WF_vars(SetQDone) /\ WF_vars(Notify) /\ WF_vars(Join)

-----------------------------------------------------------------------------

TypeOK ==
    /\ queue \in Seq(1..MaxPush)
    /\ needNotify \in BOOLEAN /\ qdone \in BOOLEAN /\ rdone \in BOOLEAN
    /\ holder \in {"none", "worker"}
    /\ wpc \in {"check_notify", "lock", "relock", "pred", "wait", "blocked", "check_done", "get",
                "loop_check", "process", "exited"}
    /\ spc \in {"idle", "set_rdone", "set_qdone", "notify", "join", "stopped"}
    /\ pushed \in 0..MaxPush
    /\ taken \in Seq(0..MaxPush)
    /\ msg \in 0..MaxPush

\* Every message pushed is eventually handed to process_msg unless
\* randpa::stop has begun (stop does not drain the queue): push_message's
\* notify, gated by _need_notify which the worker reads without the mutex,
\* never leaves the worker blocked on a non-empty queue.
AllTaken == \A i \in 1..MaxPush : pushed >= i ~> (Len(taken) >= i \/ rdone)

\* process_msg is never called with the nullptr get_next_msg_wait returns
\* once message_queue::_done is set: randpa::stop sets randpa::_done before
\* terminate sets the queue's flag, so a worker that saw the queue's flag
\* finds randpa::_done set at loop's check and leaves.  A message already
\* past that check is still processed (in-flight callbacks complete).
NoNullDispatch == \A i \in DOMAIN taken : taken[i] # 0

\* The queue and loop implement the FIFO promise (InboundQueue): the
\* numbers popped by get_next_msg reach process_msg in push order, each
\* once, though the worker reads _need_notify and _done outside the mutex.
Inbound == INSTANCE InboundQueue

InboundOrder == Inbound!Spec

\* randpa::stop returns: terminate's notify wakes the worker, which leaves
\* loop() so that join() completes.
StopReturns == spc = "set_rdone" ~> spc = "stopped"

=============================================================================
