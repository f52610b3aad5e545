----------------------------- MODULE ThreadPool -----------------------------
(***************************************************************************)
(* The worker pool of the HTTP server: threadpool.h, over the Sem and      *)
(* Locker of synchronize.h.  The threads that call append() and the        *)
(* detached workers in run() interleave between any two calls they make.   *)
(*                                                                         *)
(* An element of Tasks stands for the argument of one append() call, so    *)
(* the same connection appended twice is two elements.                     *)
(*                                                                         *)
(* The destructor only sets m_stop here: main.cpp leaves with exit() right *)
(* after `delete pool', and what the workers then read of the freed object *)
(* is taken to be its last contents.                                       *)
(***************************************************************************)
EXTENDS Naturals, Sequences, FiniteSets

CONSTANTS
    Producers,      \* threads that call append() (main() in the server)
    Workers,        \* the m_nthread threads in run()
    Tasks,          \* arguments of append(), one per call
    NullTasks,      \* those of them that are null pointers
    MaxTask,        \* m_max_ntask
    NoThread, NoTask,
    Interruptible   \* a handler without SA_RESTART may interrupt sem_wait

ASSUME ThreadsAssumption ==
    /\ Producers \intersect Workers = {}
    /\ NoThread \notin Producers \union Workers
    /\ IsFiniteSet(Producers)
    /\ IsFiniteSet(Workers)

ASSUME TasksAssumption == NoTask \notin Tasks /\ NullTasks \subseteq Tasks

ASSUME BoundAssumption == MaxTask \in Nat \ {0} /\ Interruptible \in BOOLEAN

Threads == Producers \union Workers

VARIABLES
    workqueue,  \* m_workqueue
    locker,     \* who holds m_queuelocker
    queuestat,  \* the value of m_queuestat
    stop,       \* m_stop
    pc,         \* the next step of each thread
    task,       \* append()'s argument, run()'s local variable
    submitted,  \* history: tasks append() was called with
    refused,    \* history: tasks append() answered false to
    pushed,     \* history: tasks in the order they were pushed
    taken,      \* history: tasks in the order they were popped
    processed   \* history: how often process() was called on each task

vars == <<workqueue, locker, queuestat, stop, pc, task,
          submitted, refused, pushed, taken, processed>>

history == <<submitted, refused, pushed, taken, processed>>

ProducerPC == {"idle", "a_lock", "a_size", "a_full", "a_push", "a_unlock", "a_post"}

WorkerPC == {"test", "wait", "w_lock", "w_empty", "w_skip", "w_front", "w_pop",
             "w_unlock", "w_null", "process", "exited"}

Goto(th, from, to) == pc[th] = from /\ pc' = [pc EXCEPT ![th] = to]

-----------------------------------------------------------------------------
(* synchronize.h *)

Lock(th) == locker = NoThread /\ locker' = th

Unlock == locker' = NoThread

(* Slip: the token is posted only when the queue was empty *)
PostWhenEmpty == queuestat' = IF Len(workqueue) > 1 THEN queuestat ELSE queuestat + 1

Post == queuestat' = queuestat + 1

(* Slip: taking a token that is not there *)
WaitWithoutToken == queuestat' = queuestat - 1

(* sem_wait; run() ignores the result, so an interrupted wait goes on too *)
Wait ==
    \/ queuestat > 0 /\ queuestat' = queuestat - 1
    \/ Interruptible /\ UNCHANGED queuestat

-----------------------------------------------------------------------------
(* append() *)

Call(p, t) ==
    /\ ~stop
    /\ t \notin submitted
    /\ Goto(p, "idle", "a_lock")
    /\ task' = [task EXCEPT ![p] = t]
    /\ submitted' = submitted \union {t}
    /\ UNCHANGED <<workqueue, locker, queuestat, stop, refused, pushed, taken, processed>>

(* Slip: append() without the lock *)
AppendNoLock(p) ==
    /\ Goto(p, "a_lock", "a_size")
    /\ UNCHANGED <<workqueue, locker, queuestat, stop, task, history>>

AppendLock(p) ==
    /\ Goto(p, "a_lock", "a_size")
    /\ Lock(p)
    /\ UNCHANGED <<workqueue, queuestat, stop, task, history>>

AppendFull(p) ==
    /\ Goto(p, "a_size", "a_full")
    /\ Len(workqueue) >= MaxTask
    /\ refused' = refused \union {task[p]}
    /\ UNCHANGED <<workqueue, locker, queuestat, stop, task, submitted, pushed, taken, processed>>

AppendRoom(p) ==
    /\ Goto(p, "a_size", "a_push")
    /\ Len(workqueue) < MaxTask
    /\ UNCHANGED <<workqueue, locker, queuestat, stop, task, history>>

(* Slip: return false forgotten, so a refused append() posts *)
AppendFallsThrough(p) ==
    /\ Goto(p, "a_full", "a_post")
    /\ Unlock
    /\ UNCHANGED <<workqueue, queuestat, stop, task, history>>

(* Slip: return false with the lock held *)
AppendReturnLocked(p) ==
    /\ Goto(p, "a_full", "idle")
    /\ UNCHANGED <<workqueue, locker, queuestat, stop, task, history>>

AppendReturnFalse(p) ==
    /\ Goto(p, "a_full", "idle")
    /\ Unlock
    /\ UNCHANGED <<workqueue, queuestat, stop, task, history>>

(* Slip: the queue used as a stack *)
AppendPushFront(p) ==
    /\ Goto(p, "a_push", "a_unlock")
    /\ workqueue' = <<task[p]>> \o workqueue
    /\ pushed' = Append(pushed, task[p])
    /\ UNCHANGED <<locker, queuestat, stop, task, submitted, refused, taken, processed>>

AppendPush(p) ==
    /\ Goto(p, "a_push", "a_unlock")
    /\ workqueue' = Append(workqueue, task[p])
    /\ pushed' = Append(pushed, task[p])
    /\ UNCHANGED <<locker, queuestat, stop, task, submitted, refused, taken, processed>>

AppendUnlock(p) ==
    /\ Goto(p, "a_unlock", "a_post")
    /\ Unlock
    /\ UNCHANGED <<workqueue, queuestat, stop, task, history>>

AppendPost(p) ==
    /\ Goto(p, "a_post", "idle")
    /\ Post
    /\ UNCHANGED <<workqueue, locker, stop, task, history>>

(* ~threadpool(), called by the thread that appends: no append() is running *)
Destroy ==
    /\ \A p \in Producers : pc[p] = "idle"
    /\ stop' = TRUE
    /\ UNCHANGED <<workqueue, locker, queuestat, pc, task, history>>

-----------------------------------------------------------------------------
(* run() *)

RunTest(w) ==
    /\ Goto(w, "test", IF stop THEN "exited" ELSE "wait")
    /\ UNCHANGED <<workqueue, locker, queuestat, stop, task, history>>

RunWait(w) ==
    /\ Goto(w, "wait", "w_lock")
    /\ Wait
    /\ UNCHANGED <<workqueue, locker, stop, task, history>>

(* Slip: run() without the lock *)
RunNoLock(w) ==
    /\ Goto(w, "w_lock", "w_empty")
    /\ UNCHANGED <<workqueue, locker, queuestat, stop, task, history>>

RunLock(w) ==
    /\ Goto(w, "w_lock", "w_empty")
    /\ Lock(w)
    /\ UNCHANGED <<workqueue, queuestat, stop, task, history>>

(* Slip: size() <= 1 for empty() *)
RunEmptyOne(w) ==
    /\ Goto(w, "w_empty", IF Len(workqueue) <= 1 THEN "w_skip" ELSE "w_front")
    /\ UNCHANGED <<workqueue, locker, queuestat, stop, task, history>>

RunEmpty(w) ==
    /\ Goto(w, "w_empty", IF workqueue = <<>> THEN "w_skip" ELSE "w_front")
    /\ UNCHANGED <<workqueue, locker, queuestat, stop, task, history>>

RunSkip(w) ==
    /\ Goto(w, "w_skip", "test")
    /\ Unlock
    /\ UNCHANGED <<workqueue, queuestat, stop, task, history>>

(* Slip: the lock released between front() and pop() *)
RunFrontUnlock(w) ==
    /\ Goto(w, "w_front", "w_pop")
    /\ workqueue # <<>>
    /\ task' = [task EXCEPT ![w] = Head(workqueue)]
    /\ Unlock
    /\ UNCHANGED <<workqueue, queuestat, stop, history>>

RunFront(w) ==
    /\ Goto(w, "w_front", "w_pop")
    /\ workqueue # <<>>
    /\ task' = [task EXCEPT ![w] = Head(workqueue)]
    /\ UNCHANGED <<workqueue, locker, queuestat, stop, history>>

RunPop(w) ==
    /\ Goto(w, "w_pop", "w_unlock")
    /\ workqueue # <<>>
    /\ workqueue' = Tail(workqueue)
    /\ taken' = Append(taken, task[w])
    /\ UNCHANGED <<locker, queuestat, stop, task, submitted, refused, pushed, processed>>

RunUnlock(w) ==
    /\ Goto(w, "w_unlock", "w_null")
    /\ Unlock
    /\ UNCHANGED <<workqueue, queuestat, stop, task, history>>

RunNull(w) ==
    /\ Goto(w, "w_null", IF task[w] \in NullTasks THEN "test" ELSE "process")
    /\ UNCHANGED <<workqueue, locker, queuestat, stop, task, history>>

(* task->process() as the pool sees it: it returns *)
RunProcess(w) ==
    /\ Goto(w, "process", "test")
    /\ processed' = [processed EXCEPT ![task[w]] = @ + 1]
    /\ UNCHANGED <<workqueue, locker, queuestat, stop, task, submitted, refused, pushed, taken>>

-----------------------------------------------------------------------------
Init ==
    /\ workqueue = <<>>
    /\ locker = NoThread
    /\ queuestat = 0
    /\ stop = FALSE
    /\ pc = [th \in Threads |-> IF th \in Producers THEN "idle" ELSE "test"]
    /\ task = [th \in Threads |-> NoTask]
    /\ submitted = {}
    /\ refused = {}
    /\ pushed = <<>>
    /\ taken = <<>>
    /\ processed = [t \in Tasks |-> 0]

AppendStep(p) ==
    \/ AppendLock(p) \/ AppendFull(p) \/ AppendRoom(p) \/ AppendReturnFalse(p)
    \/ AppendPush(p) \/ AppendUnlock(p) \/ AppendPost(p)

RunStep(w) ==
    \/ RunTest(w) \/ RunWait(w) \/ RunLock(w) \/ RunEmpty(w) \/ RunSkip(w)
    \/ RunFront(w) \/ RunPop(w) \/ RunUnlock(w) \/ RunNull(w) \/ RunProcess(w)

Next ==
    \/ \E p \in Producers : AppendStep(p) \/ \E t \in Tasks : Call(p, t)
    \/ \E w \in Workers : RunStep(w)
    \/ Destroy

Spec == Init /\ [][Next]_vars

(* Every thread keeps running while it can: the kernel schedules runnable  *)
(* threads.  Nothing forces an append() call or the destructor.            *)
Fairness ==
    /\ \A p \in Producers : WF_vars(AppendStep(p))
    /\ \A w \in Workers : WF_vars(RunStep(w))

FairSpec == Spec /\ Fairness

-----------------------------------------------------------------------------
(* Types; a thread in the middle of append(), or past front(), has a task. *)
TypeOK ==
    /\ workqueue \in Seq(Tasks)
    /\ locker \in Threads \union {NoThread}
    /\ queuestat \in Nat
    /\ stop \in BOOLEAN
    /\ pc \in [Threads -> ProducerPC \union WorkerPC]
    /\ \A p \in Producers : pc[p] \in ProducerPC
    /\ \A w \in Workers : pc[w] \in WorkerPC
    /\ task \in [Threads -> Tasks \union {NoTask}]
    /\ \A th \in Threads :
          pc[th] \in {"a_lock", "a_size", "a_push", "w_pop", "w_unlock", "w_null", "process"}
             => task[th] \in Tasks
    /\ submitted \subseteq Tasks
    /\ refused \subseteq Tasks
    /\ pushed \in Seq(Tasks)
    /\ taken \in Seq(Tasks)
    /\ processed \in [Tasks -> Nat]

At(labels) == {th \in Threads : pc[th] \in labels}

(* A task that was pushed has a token: the semaphore's value, or a worker  *)
(* that already consumed one and has not popped, or an append() that has   *)
(* not posted yet.  Otherwise workers sleep while a task waits.            *)
NoLostTask ==
    Len(workqueue) <= queuestat
                      + Cardinality(At({"w_lock", "w_empty", "w_front", "w_pop"}))
                      + Cardinality(At({"a_unlock", "a_post"}))

(* Without interrupted waits the count is exact, so the test of line 76    *)
(* never finds the queue empty.                                            *)
ExactTokens == ~Interruptible => At({"w_skip"}) = {}

(* The tasks popped, then those that wait, are the tasks pushed, in order: *)
(* no worker takes a task another took, and none is popped unread.         *)
Fifo == pushed = taken \o workqueue

(* m_max_ntask bounds the queue though size() and push() are two calls. *)
Bounded == Len(workqueue) <= MaxTask

(* process() runs at most once per accepted task, and never on a refused   *)
(* or null one; two workers never hold the same task.                      *)
Holders == At({"w_unlock", "w_null", "process"})
ExactlyOneOwner ==
    /\ \A t \in Tasks : processed[t] <= 1
    /\ \A t \in refused \union NullTasks : processed[t] = 0
    /\ \A v, w \in Holders : task[v] = task[w] => v = w
    /\ \A w \in Holders : processed[task[w]] = 0

(* An accepted task is processed unless it is null or the pool is being    *)
(* destroyed.                                                              *)
AcceptedIsProcessed ==
    \A t \in Tasks \ NullTasks :
        (\E i \in DOMAIN pushed : pushed[i] = t) ~> (processed[t] = 1 \/ stop)

(* append() returns to main()'s event loop. *)
AppendReturns == \A p \in Producers : pc[p] = "a_lock" ~> pc[p] = "idle"

-----------------------------------------------------------------------------
(* The tasks the pool is done with: processed, or null and thrown away. *)
Held == {task[w] : w \in Holders}
Popped == {taken[i] : i \in DOMAIN taken}
Finished == {t \in Tasks : processed[t] > 0} \union ((NullTasks \intersect Popped) \ Held)

TQ == INSTANCE TaskQueue WITH
        Capacity <- MaxTask,
        pending <- workqueue,
        running <- Held,
        done <- Finished

(* The pool implements the queue of TaskQueue.tla: with all its locks and   *)
(* semaphore steps, append() and run() behave as single atomic operations. *)
ImplementsTaskQueue == TQ!Spec
=============================================================================
