----------------------------- MODULE TaskQueue -----------------------------
(***************************************************************************)
(* What threadpool<Task> promises to the thread that appends tasks to it   *)
(* (threadpool.h, the comment of lines 31-32): a task is accepted unless   *)
(* the bound is reached, accepted tasks are handed to the workers in the   *)
(* order they were accepted, each of them to one worker and once.  Every   *)
(* operation is one step here; ThreadPool.tla has the locks.               *)
(***************************************************************************)
EXTENDS Naturals, Sequences

CONSTANTS
    Tasks,      \* the tasks given to append(), one element per call
    Capacity    \* the largest number of tasks waiting

VARIABLES
    pending,    \* the tasks waiting, oldest first
    running,    \* the tasks a worker holds
    done,       \* the tasks the pool has finished with
    refused     \* the tasks append() answered false to

vars == <<pending, running, done, refused>>

Waiting == {pending[i] : i \in DOMAIN pending}

Fresh == Tasks \ (Waiting \union running \union done \union refused)

Init ==
    /\ pending = <<>>
    /\ running = {}
    /\ done = {}
    /\ refused = {}

Accept(t) ==
    /\ t \in Fresh
    /\ Len(pending) < Capacity
    /\ pending' = Append(pending, t)
    /\ UNCHANGED <<running, done, refused>>

Refuse(t) ==
    /\ t \in Fresh
    /\ Len(pending) = Capacity
    /\ refused' = refused \union {t}
    /\ UNCHANGED <<pending, running, done>>

Start ==
    /\ pending # <<>>
    /\ running' = running \union {Head(pending)}
    /\ pending' = Tail(pending)
    /\ UNCHANGED <<done, refused>>

(* process() returns, or the task was null and process() is not called *)
Finish(t) ==
    /\ t \in running
    /\ running' = running \ {t}
    /\ done' = done \union {t}
    /\ UNCHANGED <<pending, refused>>

Next == Start \/ \E t \in Tasks : Accept(t) \/ Refuse(t) \/ Finish(t)

Spec == Init /\ [][Next]_vars
=============================================================================
