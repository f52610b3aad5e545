-------------------------- MODULE ThreadPoolProofs --------------------------
(***************************************************************************)
(* Proofs about threadpool.h as ThreadPool.tla models it, for any number   *)
(* of producers, workers and tasks and any bound.                          *)
(***************************************************************************)
EXTENDS ThreadPool, FiniteSetTheorems, TLAPS

(* Every step of the pool keeps every variable in its type. *)
LEMMA TypeStep == TypeOK /\ [Next]_vars => TypeOK'
<1> SUFFICES ASSUME TypeOK, [Next]_vars PROVE TypeOK'
  OBVIOUS
<1> USE ThreadsAssumption, BoundAssumption DEF TypeOK, Threads, ProducerPC, WorkerPC,
      Goto, Lock, Unlock, Post, history
<1>1. ASSUME NEW p \in Producers, NEW t \in Tasks, Call(p, t) PROVE TypeOK'
  BY <1>1 DEF Call
<1>2. ASSUME NEW p \in Producers, AppendStep(p) PROVE TypeOK'
  <2>1. CASE AppendLock(p)
    BY <2>1 DEF AppendLock
  <2>2. CASE AppendFull(p)
    BY <2>2 DEF AppendFull
  <2>3. CASE AppendRoom(p)
    BY <2>3 DEF AppendRoom
  <2>4. CASE AppendReturnFalse(p)
    BY <2>4 DEF AppendReturnFalse
  <2>5. CASE AppendPush(p)
    BY <2>5 DEF AppendPush
  <2>6. CASE AppendUnlock(p)
    BY <2>6 DEF AppendUnlock
  <2>7. CASE AppendPost(p)
    BY <2>7 DEF AppendPost
  <2> QED
    BY <1>2, <2>1, <2>2, <2>3, <2>4, <2>5, <2>6, <2>7 DEF AppendStep
<1>3. ASSUME NEW w \in Workers, RunStep(w) PROVE TypeOK'
  <2>1. CASE RunTest(w)
    BY <2>1 DEF RunTest
  <2>2. CASE RunWait(w)
    BY <2>2 DEF RunWait, Wait
  <2>3. CASE RunLock(w)
    BY <2>3 DEF RunLock
  <2>4. CASE RunEmpty(w)
    BY <2>4 DEF RunEmpty
  <2>5. CASE RunSkip(w)
    BY <2>5 DEF RunSkip
  <2>6. CASE RunFront(w)
    BY <2>6 DEF RunFront
  <2>7. CASE RunPop(w)
    BY <2>7 DEF RunPop
  <2>8. CASE RunUnlock(w)
    BY <2>8 DEF RunUnlock
  <2>9. CASE RunNull(w)
    BY <2>9 DEF RunNull
  <2>10. CASE RunProcess(w)
    BY <2>10 DEF RunProcess
  <2> QED
    BY <1>3, <2>1, <2>2, <2>3, <2>4, <2>5, <2>6, <2>7, <2>8, <2>9, <2>10 DEF RunStep
<1>4. CASE Destroy
  BY <1>4 DEF Destroy
<1>5. CASE UNCHANGED vars
  BY <1>5 DEF vars
<1> QED
  BY <1>1, <1>2, <1>3, <1>4, <1>5 DEF Next

(* The constructor and the workers' start establish the types. *)
LEMMA TypeInit == Init => TypeOK
<1> SUFFICES ASSUME Init PROVE TypeOK
  OBVIOUS
<1>1. /\ pc \in [Threads -> ProducerPC \union WorkerPC]
      /\ \A p \in Producers : pc[p] \in ProducerPC
      /\ \A w \in Workers : pc[w] \in WorkerPC
      /\ \A th \in Threads : pc[th] \in {"idle", "test"}
  BY ThreadsAssumption DEF Init, Threads, ProducerPC, WorkerPC
<1>2. /\ locker \in Threads \union {NoThread}
      /\ workqueue \in Seq(Tasks)
      /\ pushed \in Seq(Tasks)
      /\ taken \in Seq(Tasks)
  BY DEF Init
<1>3. /\ processed \in [Tasks -> Nat]
      /\ task \in [Threads -> Tasks \union {NoTask}]
  BY DEF Init
<1> QED
  BY <1>1, <1>2, <1>3 DEF Init, TypeOK

(* The pool's variables keep their types (threadpool.h:50-58). *)
THEOREM TypeCorrect == Spec => []TypeOK
<1> QED
  BY TypeInit, TypeStep, PTL DEF Spec
-----------------------------------------------------------------------------
(* The inductive invariant, in named parts. *)

(* The steps between lock() and unlock(). *)
Critical == {"a_size", "a_full", "a_push", "a_unlock",
             "w_empty", "w_skip", "w_front", "w_pop", "w_unlock"}

(* A thread between lock() and unlock() holds the mutex. *)
Mutex == \A th \in Threads : pc[th] \in Critical => locker = th

(* What was read under the lock is still true when it is used. *)
Fresh ==
    /\ \A p \in Producers : pc[p] = "a_push" => Len(workqueue) < MaxTask
    /\ \A w \in Workers : pc[w] \in {"w_front", "w_pop"} => workqueue # <<>>
    /\ \A w \in Workers : pc[w] = "w_pop" => task[w] = Head(workqueue)

IsPushed(t) == \E i \in DOMAIN pushed : pushed[i] = t
IsTaken(t) == \E i \in DOMAIN taken : taken[i] = t

(* Every task was submitted once, and is on one side only. *)
Distinct ==
    /\ \A i, j \in DOMAIN pushed : pushed[i] = pushed[j] => i = j
    /\ \A i \in DOMAIN pushed : pushed[i] \in submitted \ refused
    /\ refused \subseteq submitted

Arriving == {"a_lock", "a_size", "a_push"}

(* A task an append() carries is in nobody else's hands. *)
Carried ==
    /\ \A p \in Producers : pc[p] \in Arriving =>
          task[p] \in submitted \ refused /\ ~IsPushed(task[p])
    /\ \A p, q \in Producers :
          pc[p] \in Arriving /\ pc[q] \in Arriving /\ task[p] = task[q] => p = q

Holding == {"w_unlock", "w_null", "process"}

(* A task a worker holds was taken and not processed yet. *)
Owned ==
    /\ \A w \in Workers : pc[w] \in Holding => IsTaken(task[w]) /\ processed[task[w]] = 0
    /\ \A v, w \in Workers :
          pc[v] \in Holding /\ pc[w] \in Holding /\ task[v] = task[w] => v = w
    /\ \A w \in Workers : pc[w] = "process" => task[w] \notin NullTasks
    /\ \A t \in Tasks : processed[t] > 0 => processed[t] = 1 /\ IsTaken(t) /\ t \notin NullTasks

IInv == TypeOK /\ Mutex /\ Fresh /\ Fifo /\ Distinct /\ Carried /\ Owned

(* The lock excludes: a lock() succeeds only when nobody is inside. *)
LEMMA MutexStep == TypeOK /\ Mutex /\ [Next]_vars => Mutex'
<1> SUFFICES ASSUME TypeOK, Mutex, [Next]_vars PROVE Mutex'
  OBVIOUS
<1> USE ThreadsAssumption DEF Threads, Goto, Lock, Unlock, Post, history, TypeOK, Mutex, Critical
<1>1. ASSUME NEW p \in Producers, NEW t \in Tasks, Call(p, t) PROVE Mutex'
  BY <1>1 DEF Call
<1>2. ASSUME NEW p \in Producers, AppendStep(p) PROVE Mutex'
  <2>1. CASE AppendLock(p)
    BY <2>1 DEF AppendLock
  <2>2. CASE AppendFull(p)
    BY <2>2 DEF AppendFull
  <2>3. CASE AppendRoom(p)
    BY <2>3 DEF AppendRoom
  <2>4. CASE AppendReturnFalse(p)
    BY <2>4 DEF AppendReturnFalse
  <2>5. CASE AppendPush(p)
    BY <2>5 DEF AppendPush
  <2>6. CASE AppendUnlock(p)
    BY <2>6 DEF AppendUnlock
  <2>7. CASE AppendPost(p)
    BY <2>7 DEF AppendPost
  <2> QED
    BY <1>2, <2>1, <2>2, <2>3, <2>4, <2>5, <2>6, <2>7 DEF AppendStep
<1>3. ASSUME NEW w \in Workers, RunStep(w) PROVE Mutex'
  <2>1. CASE RunTest(w)
    BY <2>1 DEF RunTest
  <2>2. CASE RunWait(w)
    BY <2>2 DEF RunWait, Wait
  <2>3. CASE RunLock(w)
    BY <2>3 DEF RunLock
  <2>4. CASE RunEmpty(w)
    BY <2>4 DEF RunEmpty
  <2>5. CASE RunSkip(w)
    BY <2>5 DEF RunSkip
  <2>6. CASE RunFront(w)
    BY <2>6 DEF RunFront
  <2>7. CASE RunPop(w)
    BY <2>7 DEF RunPop
  <2>8. CASE RunUnlock(w)
    BY <2>8 DEF RunUnlock
  <2>9. CASE RunNull(w)
    BY <2>9 DEF RunNull
  <2>10. CASE RunProcess(w)
    BY <2>10 DEF RunProcess
  <2> QED
    BY <1>3, <2>1, <2>2, <2>3, <2>4, <2>5, <2>6, <2>7, <2>8, <2>9, <2>10 DEF RunStep
<1>4. CASE Destroy
  BY <1>4 DEF Destroy
<1>5. CASE UNCHANGED vars
  BY <1>5 DEF vars
<1> QED
  BY <1>1, <1>2, <1>3, <1>4, <1>5 DEF Next

(* Only the holder of the mutex changes the queue, so what it tested stays true. *)
LEMMA FreshStep == TypeOK /\ Mutex /\ Fresh /\ [Next]_vars => Fresh'
<1> SUFFICES ASSUME TypeOK, Mutex, Fresh, [Next]_vars PROVE Fresh'
  OBVIOUS
<1> USE ThreadsAssumption DEF Threads, Goto, Lock, Unlock, Post, history, TypeOK, Mutex, Critical, Fresh
<1>1. ASSUME NEW p \in Producers, NEW t \in Tasks, Call(p, t) PROVE Fresh'
  BY <1>1 DEF Call
<1>2. ASSUME NEW p \in Producers, AppendStep(p) PROVE Fresh'
  <2>1. CASE AppendLock(p)
    BY <2>1 DEF AppendLock
  <2>2. CASE AppendFull(p)
    BY <2>2 DEF AppendFull
  <2>3. CASE AppendRoom(p)
    BY <2>3 DEF AppendRoom
  <2>4. CASE AppendReturnFalse(p)
    BY <2>4 DEF AppendReturnFalse
  <2>5. CASE AppendPush(p)
    BY <2>5 DEF AppendPush
  <2>6. CASE AppendUnlock(p)
    BY <2>6 DEF AppendUnlock
  <2>7. CASE AppendPost(p)
    BY <2>7 DEF AppendPost
  <2> QED
    BY <1>2, <2>1, <2>2, <2>3, <2>4, <2>5, <2>6, <2>7 DEF AppendStep
<1>3. ASSUME NEW w \in Workers, RunStep(w) PROVE Fresh'
  <2>1. CASE RunTest(w)
    BY <2>1 DEF RunTest
  <2>2. CASE RunWait(w)
    BY <2>2 DEF RunWait, Wait
  <2>3. CASE RunLock(w)
    BY <2>3 DEF RunLock
  <2>4. CASE RunEmpty(w)
    BY <2>4 DEF RunEmpty
  <2>5. CASE RunSkip(w)
    BY <2>5 DEF RunSkip
  <2>6. CASE RunFront(w)
    BY <2>6 DEF RunFront
  <2>7. CASE RunPop(w)
    BY <2>7 DEF RunPop
  <2>8. CASE RunUnlock(w)
    BY <2>8 DEF RunUnlock
  <2>9. CASE RunNull(w)
    BY <2>9 DEF RunNull
  <2>10. CASE RunProcess(w)
    BY <2>10 DEF RunProcess
  <2> QED
    BY <1>3, <2>1, <2>2, <2>3, <2>4, <2>5, <2>6, <2>7, <2>8, <2>9, <2>10 DEF RunStep
<1>4. CASE Destroy
  BY <1>4 DEF Destroy
<1>5. CASE UNCHANGED vars
  BY <1>5 DEF vars
<1> QED
  BY <1>1, <1>2, <1>3, <1>4, <1>5 DEF Next

(* Only push() and pop() change the queue and the history of its contents. *)
LEMMA QueueSteps ==
    ASSUME [Next]_vars
    PROVE  \/ UNCHANGED <<workqueue, pushed, taken>>
           \/ \E p \in Producers : AppendPush(p)
           \/ \E w \in Workers : RunPop(w)
<1> USE DEF history
<1>1. ASSUME NEW p \in Producers, NEW t \in Tasks, Call(p, t)
      PROVE  UNCHANGED <<workqueue, pushed, taken>>
  BY <1>1 DEF Call
<1>2. ASSUME NEW p \in Producers, AppendStep(p)
      PROVE  UNCHANGED <<workqueue, pushed, taken>> \/ AppendPush(p)
  BY <1>2 DEF AppendStep, AppendLock, AppendFull, AppendRoom, AppendReturnFalse,
       AppendUnlock, AppendPost
<1>3. ASSUME NEW w \in Workers, RunStep(w)
      PROVE  UNCHANGED <<workqueue, pushed, taken>> \/ RunPop(w)
  BY <1>3 DEF RunStep, RunTest, RunWait, RunLock, RunEmpty, RunSkip, RunFront,
       RunUnlock, RunNull, RunProcess
<1> QED
  BY <1>1, <1>2, <1>3 DEF Next, Destroy, vars

(* Moving the head of one sequence to the end of the one before it. *)
LEMMA MoveHead ==
    ASSUME NEW S, NEW a \in Seq(S), NEW b \in Seq(S), b # <<>>
    PROVE  Append(a, Head(b)) \o Tail(b) = a \o b
<1>1. Head(b) \in S /\ Tail(b) \in Seq(S) /\ Len(b) > 0 /\ Len(Tail(b)) = Len(b) - 1
  OBVIOUS
<1> DEFINE l == Append(a, Head(b)) \o Tail(b)
           r == a \o b
<1>2. l \in Seq(S) /\ r \in Seq(S)
  BY <1>1
<1>3. Len(l) = Len(r)
  BY <1>1
<1>4. \A i \in 1 .. Len(r) : l[i] = r[i]
  BY <1>1
<1> QED
  BY <1>2, <1>3, <1>4

(* The queue is the part of what was pushed that nobody popped. *)
LEMMA FifoStep == TypeOK /\ Fresh /\ Fifo /\ [Next]_vars => Fifo'
<1> SUFFICES ASSUME TypeOK, Fresh, Fifo, [Next]_vars PROVE Fifo'
  OBVIOUS
<1>1. CASE UNCHANGED <<workqueue, pushed, taken>>
  BY <1>1 DEF Fifo
<1>2. ASSUME NEW p \in Producers, AppendPush(p) PROVE Fifo'
  <2>1. task[p] \in Tasks
    BY <1>2 DEF AppendPush, Goto, TypeOK, Threads
  <2>2. pushed' = Append(taken \o workqueue, task[p])
    BY <1>2 DEF AppendPush, Fifo
  <2>3. taken \in Seq(Tasks) /\ workqueue \in Seq(Tasks)
    BY DEF TypeOK
  <2>4. Append(taken \o workqueue, task[p]) = taken \o Append(workqueue, task[p])
    BY <2>1, <2>3
  <2> QED
    BY <1>2, <2>2, <2>4 DEF AppendPush, Fifo
<1>3. ASSUME NEW w \in Workers, RunPop(w) PROVE Fifo'
  <2>1. workqueue # <<>> /\ task[w] = Head(workqueue)
    BY <1>3 DEF RunPop, Goto, Fresh
  <2> QED
    BY <1>3, <2>1, MoveHead DEF RunPop, Fifo, TypeOK
<1> QED
  BY <1>1, <1>2, <1>3, QueueSteps

(* A task is submitted once, then pushed or refused, never both. *)
LEMMA DistinctStep == TypeOK /\ Distinct /\ Carried /\ [Next]_vars => Distinct'
<1> SUFFICES ASSUME TypeOK, Distinct, Carried, [Next]_vars PROVE Distinct'
  OBVIOUS
<1> USE DEF history
<1>0. ASSUME UNCHANGED <<submitted, refused, pushed>> PROVE Distinct'
  BY <1>0 DEF Distinct
<1>1. ASSUME NEW p \in Producers, NEW t \in Tasks, Call(p, t) PROVE Distinct'
  <2>1. submitted \subseteq submitted' /\ refused' = refused /\ pushed' = pushed
    BY <1>1 DEF Call
  <2> QED
    BY <2>1 DEF Distinct
<1>2. ASSUME NEW p \in Producers, AppendStep(p) PROVE Distinct'
  <2>1. CASE AppendFull(p)
    <3>1. /\ refused' = refused \union {task[p]}
          /\ submitted' = submitted /\ pushed' = pushed
          /\ pc[p] = "a_size"
      BY <2>1 DEF AppendFull, Goto
    <3>2. task[p] \in submitted /\ ~IsPushed(task[p])
      BY <3>1 DEF Carried, Arriving
    <3> QED
      BY <3>1, <3>2 DEF Distinct, IsPushed
  <2>2. CASE AppendPush(p)
    <3>1. /\ pushed' = Append(pushed, task[p])
          /\ submitted' = submitted /\ refused' = refused
          /\ pc[p] = "a_push"
      BY <2>2 DEF AppendPush, Goto
    <3>2. task[p] \in submitted \ refused /\ ~IsPushed(task[p])
      BY <3>1 DEF Carried, Arriving
    <3>3. pushed \in Seq(Tasks)
      BY DEF TypeOK
    <3>4. /\ DOMAIN pushed = 1 .. Len(pushed) /\ Len(pushed) \in Nat
          /\ DOMAIN pushed' = 1 .. Len(pushed) + 1
          /\ \A i \in DOMAIN pushed : pushed'[i] = pushed[i]
          /\ pushed'[Len(pushed) + 1] = task[p]
      BY <3>1, <3>3
    <3>5. \A i \in DOMAIN pushed' : i \in DOMAIN pushed \/ i = Len(pushed) + 1
      BY <3>4
    <3>6. \A i, j \in DOMAIN pushed' : pushed'[i] = pushed'[j] => i = j
      BY <3>2, <3>4, <3>5 DEF Distinct, IsPushed
    <3>7. \A i \in DOMAIN pushed' : pushed'[i] \in submitted \ refused
      BY <3>2, <3>4, <3>5 DEF Distinct
    <3> QED
      BY <3>1, <3>6, <3>7 DEF Distinct
  <2>3. CASE ~AppendFull(p) /\ ~AppendPush(p)
    BY <1>0, <1>2, <2>3 DEF AppendStep, AppendLock, AppendRoom, AppendReturnFalse,
         AppendUnlock, AppendPost
  <2> QED
    BY <2>1, <2>2, <2>3
<1>3. ASSUME NEW w \in Workers, RunStep(w) PROVE Distinct'
  BY <1>0, <1>3 DEF RunStep, RunTest, RunWait, RunLock, RunEmpty, RunSkip, RunFront,
       RunPop, RunUnlock, RunNull, RunProcess
<1>4. CASE Destroy
  BY <1>0, <1>4 DEF Destroy
<1>5. CASE UNCHANGED vars
  BY <1>0, <1>5 DEF vars
<1> QED
  BY <1>1, <1>2, <1>3, <1>4, <1>5 DEF Next

(* A task in the hands of one append() stays out of everybody else's. *)
LEMMA CarriedStep == TypeOK /\ Distinct /\ Carried /\ [Next]_vars => Carried'
<1> SUFFICES ASSUME TypeOK, Distinct, Carried, [Next]_vars PROVE Carried'
  OBVIOUS
<1> USE ThreadsAssumption DEF Threads, Goto, Lock, Unlock, Post, history, TypeOK, Distinct, Carried, Arriving, IsPushed
<1>1. ASSUME NEW p \in Producers, NEW t \in Tasks, Call(p, t) PROVE Carried'
  BY <1>1 DEF Call
<1>2. ASSUME NEW p \in Producers, AppendStep(p) PROVE Carried'
  <2>1. CASE AppendLock(p)
    BY <2>1 DEF AppendLock
  <2>2. CASE AppendFull(p)
    BY <2>2 DEF AppendFull
  <2>3. CASE AppendRoom(p)
    BY <2>3 DEF AppendRoom
  <2>4. CASE AppendReturnFalse(p)
    BY <2>4 DEF AppendReturnFalse
  <2>5. CASE AppendPush(p)
    BY <2>5 DEF AppendPush
  <2>6. CASE AppendUnlock(p)
    BY <2>6 DEF AppendUnlock
  <2>7. CASE AppendPost(p)
    BY <2>7 DEF AppendPost
  <2> QED
    BY <1>2, <2>1, <2>2, <2>3, <2>4, <2>5, <2>6, <2>7 DEF AppendStep
<1>3. ASSUME NEW w \in Workers, RunStep(w) PROVE Carried'
  <2>1. CASE RunTest(w)
    BY <2>1 DEF RunTest
  <2>2. CASE RunWait(w)
    BY <2>2 DEF RunWait, Wait
  <2>3. CASE RunLock(w)
    BY <2>3 DEF RunLock
  <2>4. CASE RunEmpty(w)
    BY <2>4 DEF RunEmpty
  <2>5. CASE RunSkip(w)
    BY <2>5 DEF RunSkip
  <2>6. CASE RunFront(w)
    BY <2>6 DEF RunFront
  <2>7. CASE RunPop(w)
    BY <2>7 DEF RunPop
  <2>8. CASE RunUnlock(w)
    BY <2>8 DEF RunUnlock
  <2>9. CASE RunNull(w)
    BY <2>9 DEF RunNull
  <2>10. CASE RunProcess(w)
    BY <2>10 DEF RunProcess
  <2> QED
    BY <1>3, <2>1, <2>2, <2>3, <2>4, <2>5, <2>6, <2>7, <2>8, <2>9, <2>10 DEF RunStep
<1>4. CASE Destroy
  BY <1>4 DEF Destroy
<1>5. CASE UNCHANGED vars
  BY <1>5 DEF vars
<1> QED
  BY <1>1, <1>2, <1>3, <1>4, <1>5 DEF Next

(* The oldest waiting task was not popped before. *)
LEMMA HeadNotTaken ==
    ASSUME TypeOK, Fifo, Distinct, workqueue # <<>>
    PROVE  ~IsTaken(Head(workqueue))
<1> SUFFICES ASSUME NEW i \in DOMAIN taken, taken[i] = Head(workqueue) PROVE FALSE
  BY DEF IsTaken
<1> DEFINE k == Len(taken) + 1
<1>1. taken \in Seq(Tasks) /\ workqueue \in Seq(Tasks) /\ pushed = taken \o workqueue
  BY DEF TypeOK, Fifo
<1>2. i \in 1 .. Len(taken) /\ i # k
  BY <1>1
<1>3. k \in DOMAIN pushed /\ pushed[k] = Head(workqueue)
  BY <1>1
<1>4. i \in DOMAIN pushed /\ pushed[i] = taken[i]
  BY <1>1
<1> QED
  BY <1>2, <1>3, <1>4 DEF Distinct

(* A popped task belongs to one worker until its process() has returned. *)
LEMMA OwnedStep ==
    TypeOK /\ Fresh /\ Fifo /\ Distinct /\ Owned /\ [Next]_vars => Owned'
<1> SUFFICES ASSUME TypeOK, Fresh, Fifo, Distinct, Owned, [Next]_vars PROVE Owned'
  OBVIOUS
<1> USE ThreadsAssumption DEF Threads, Goto, Lock, Unlock, Post, history, TypeOK
<1>1. ASSUME NEW p \in Producers, NEW t \in Tasks, Call(p, t) PROVE Owned'
  BY <1>1 DEF Call, Owned, Holding, IsTaken
<1>2. ASSUME NEW p \in Producers, AppendStep(p) PROVE Owned'
  <2>1. CASE AppendLock(p)
    BY <2>1 DEF AppendLock, Owned, Holding, IsTaken
  <2>2. CASE AppendFull(p)
    BY <2>2 DEF AppendFull, Owned, Holding, IsTaken
  <2>3. CASE AppendRoom(p)
    BY <2>3 DEF AppendRoom, Owned, Holding, IsTaken
  <2>4. CASE AppendReturnFalse(p)
    BY <2>4 DEF AppendReturnFalse, Owned, Holding, IsTaken
  <2>5. CASE AppendPush(p)
    BY <2>5 DEF AppendPush, Owned, Holding, IsTaken
  <2>6. CASE AppendUnlock(p)
    BY <2>6 DEF AppendUnlock, Owned, Holding, IsTaken
  <2>7. CASE AppendPost(p)
    BY <2>7 DEF AppendPost, Owned, Holding, IsTaken
  <2> QED
    BY <1>2, <2>1, <2>2, <2>3, <2>4, <2>5, <2>6, <2>7 DEF AppendStep
<1>3. ASSUME NEW w \in Workers, RunStep(w) PROVE Owned'
  <2>1. CASE RunTest(w)
    BY <2>1 DEF RunTest, Owned, Holding, IsTaken
  <2>2. CASE RunWait(w)
    BY <2>2 DEF RunWait, Wait, Owned, Holding, IsTaken
  <2>3. CASE RunLock(w)
    BY <2>3 DEF RunLock, Owned, Holding, IsTaken
  <2>4. CASE RunEmpty(w)
    BY <2>4 DEF RunEmpty, Owned, Holding, IsTaken
  <2>5. CASE RunSkip(w)
    BY <2>5 DEF RunSkip, Owned, Holding, IsTaken
  <2>6. CASE RunFront(w)
    BY <2>6 DEF RunFront, Owned, Holding, IsTaken
  <2>7. CASE RunPop(w)
    <3>1. ~IsTaken(task[w])
      BY <2>7, HeadNotTaken DEF RunPop, Fresh
    <3>2. \A t : IsTaken(t)' <=> IsTaken(t) \/ t = task[w]
      <4>1. taken \in Seq(Tasks) /\ task[w] \in Tasks /\ taken' = Append(taken, task[w])
        BY <2>7 DEF RunPop, Owned, Holding, IsTaken
      <4>2. /\ DOMAIN taken' = DOMAIN taken \union {Len(taken) + 1}
            /\ taken'[Len(taken) + 1] = task[w]
            /\ \A i \in DOMAIN taken : taken'[i] = taken[i]
        BY <4>1
      <4> QED
        BY <4>2 DEF IsTaken
    <3>3. task[w] \in Tasks /\ processed[task[w]] = 0
      BY <2>7, <3>1 DEF RunPop, Owned
    <3> QED
      BY <2>7, <3>1, <3>2, <3>3 DEF RunPop, Owned, Holding
  <2>8. CASE RunUnlock(w)
    BY <2>8 DEF RunUnlock, Owned, Holding, IsTaken
  <2>9. CASE RunNull(w)
    BY <2>9 DEF RunNull, Owned, Holding, IsTaken
  <2>10. CASE RunProcess(w)
    BY <2>10 DEF RunProcess, Owned, Holding, IsTaken
  <2> QED
    BY <1>3, <2>1, <2>2, <2>3, <2>4, <2>5, <2>6, <2>7, <2>8, <2>9, <2>10 DEF RunStep
<1>4. CASE Destroy
  BY <1>4 DEF Destroy, Owned, Holding, IsTaken
<1>5. CASE UNCHANGED vars
  BY <1>5 DEF vars, Owned, Holding, IsTaken
<1> QED
  BY <1>1, <1>2, <1>3, <1>4, <1>5 DEF Next

(* The size test still holds when push() runs. *)
LEMMA BoundedStep == TypeOK /\ Fresh /\ Bounded /\ [Next]_vars => Bounded'
<1> SUFFICES ASSUME TypeOK, Fresh, Bounded, [Next]_vars PROVE Bounded'
  OBVIOUS
<1> USE BoundAssumption DEF TypeOK, Bounded
<1>1. CASE UNCHANGED <<workqueue, pushed, taken>>
  BY <1>1
<1>2. ASSUME NEW p \in Producers, AppendPush(p) PROVE Bounded'
  <2>1. Len(workqueue) < MaxTask /\ workqueue' = Append(workqueue, task[p])
    BY <1>2 DEF AppendPush, Goto, Fresh
  <2> QED
    BY <2>1
<1>3. ASSUME NEW w \in Workers, RunPop(w) PROVE Bounded'
  BY <1>3 DEF RunPop
<1> QED
  BY <1>1, <1>2, <1>3, QueueSteps

Safe == IInv /\ Bounded

(* A pool whose workers just started satisfies all of it. *)
LEMMA InitSafe == Init => Safe
<1> SUFFICES ASSUME Init PROVE Safe
  OBVIOUS
<1> USE ThreadsAssumption, BoundAssumption DEF Init
<1>1. \A th \in Threads : pc[th] \in {"idle", "test"}
  BY DEF Threads
<1>2. TypeOK
  BY TypeInit
<1>3. Mutex /\ Fresh /\ Carried /\ Owned
  BY <1>1 DEF Mutex, Critical, Fresh, Carried, Arriving, Owned, Holding, Threads
<1>4. Fifo /\ Distinct /\ Bounded
  BY DEF Fifo, Distinct, Bounded
<1> QED
  BY <1>2, <1>3, <1>4 DEF Safe, IInv

(* The invariant is inductive and holds in every state. *)
THEOREM Invariance == Spec => []Safe
<1>1. Safe /\ [Next]_vars => Safe'
  BY TypeStep, MutexStep, FreshStep, FifoStep, DistinctStep, CarriedStep, OwnedStep,
     BoundedStep DEF Safe, IInv
<1> QED
  BY <1>1, InitSafe, PTL DEF Spec

(* Tasks leave the queue in the order they entered it and none is lost,    *)
(* skipped or taken twice (threadpool.h:39 and 80-81, under m_queuelocker). *)
THEOREM FifoOrder == Spec => []Fifo
<1>1. Safe => Fifo
  BY DEF Safe, IInv
<1> QED
  BY <1>1, Invariance, PTL

(* The queue never exceeds m_max_ntask (threadpool.h:35-39). *)
THEOREM QueueBound == Spec => []Bounded
<1>1. Safe => Bounded
  BY DEF Safe
<1> QED
  BY <1>1, Invariance, PTL

(* Two workers never run the same appended task, none is run twice, and a  *)
(* refused one never (threadpool.h:70-88).                                 *)
THEOREM OneOwner == Spec => []ExactlyOneOwner
<1>1. ASSUME Safe PROVE ExactlyOneOwner
  <2> USE <1>1 DEF Safe, IInv
  <2>1. \A t \in Tasks : IsTaken(t) => IsPushed(t)
    <3>1. taken \in Seq(Tasks) /\ workqueue \in Seq(Tasks) /\ pushed = taken \o workqueue
      BY DEF TypeOK, Fifo
    <3>2. \A i \in DOMAIN taken : i \in DOMAIN pushed /\ pushed[i] = taken[i]
      BY <3>1
    <3> QED
      BY <3>2 DEF IsTaken, IsPushed
  <2>2. \A t \in refused : ~IsPushed(t)
    BY DEF Distinct, IsPushed
  <2>3. \A th \in Holders : th \in Workers /\ pc[th] \in Holding
    <3>1. \A th \in Holders : th \in Threads /\ pc[th] \in Holding
      BY Zenon DEF Holders, At, Holding
    <3>2. \A p \in Producers : pc[p] \notin Holding
      BY DEF TypeOK, ProducerPC, Holding
    <3> QED
      BY <3>1, <3>2 DEF Threads
  <2>4. \A t \in Tasks : processed[t] \in Nat
    BY DEF TypeOK
  <2>5. \A t \in refused \union NullTasks : t \in Tasks
    BY TasksAssumption DEF TypeOK
  <2>6. \A t \in Tasks : processed[t] <= 1
    BY <2>4 DEF Owned
  <2>7. \A t \in refused \union NullTasks : processed[t] = 0
    BY <2>1, <2>2, <2>4, <2>5 DEF Owned
  <2> QED
    BY <2>3, <2>6, <2>7 DEF ExactlyOneOwner, Owned
<1> QED
  BY <1>1, Invariance, PTL

-----------------------------------------------------------------------------
(* The semaphore's accounting. *)

ClaimedPC == {"w_lock", "w_empty", "w_front", "w_pop"}
OwedPC == {"a_unlock", "a_post"}

(* How one step of a thread changes the number of threads at some labels. *)
LEMMA Move ==
    ASSUME TypeOK, NEW th \in Threads, NEW from, NEW to, Goto(th, from, to), NEW L
    PROVE  /\ Cardinality(At(L)) \in Nat
           /\ Cardinality(At(L)') \in Nat
           /\ from \in L => Cardinality(At(L)) > 0
           /\ from \in L /\ to \in L => Cardinality(At(L)') = Cardinality(At(L))
           /\ from \notin L /\ to \notin L => Cardinality(At(L)') = Cardinality(At(L))
           /\ from \in L /\ to \notin L => Cardinality(At(L)') = Cardinality(At(L)) - 1
           /\ from \notin L /\ to \in L => Cardinality(At(L)') = Cardinality(At(L)) + 1
<1>1. IsFiniteSet(Threads)
  BY ThreadsAssumption, FS_Union DEF Threads
<1>2. At(L) \in SUBSET Threads /\ At(L)' \in SUBSET Threads
  BY DEF At
<1>3. IsFiniteSet(At(L)) /\ IsFiniteSet(At(L)')
  BY <1>1, <1>2, FS_Subset
<1>4. Cardinality(At(L)) \in Nat /\ Cardinality(At(L)') \in Nat
  BY <1>3, FS_CardinalityType
<1>5. th \in At(L) <=> from \in L
  BY DEF At, Goto
<1>6. At(L)' = IF to \in L THEN At(L) \union {th} ELSE At(L) \ {th}
  BY DEF At, Goto, TypeOK
<1>7. Cardinality(At(L) \union {th}) =
        IF th \in At(L) THEN Cardinality(At(L)) ELSE Cardinality(At(L)) + 1
  BY <1>3, FS_AddElement
<1>8. Cardinality(At(L) \ {th}) =
        IF th \in At(L) THEN Cardinality(At(L)) - 1 ELSE Cardinality(At(L))
  BY <1>3, FS_RemoveElement
<1>9. th \in At(L) => Cardinality(At(L)) > 0
  BY <1>3, <1>4, FS_EmptySet
<1> QED
  BY <1>4, <1>5, <1>6, <1>7, <1>8, <1>9

Tokens == queuestat + Cardinality(At(ClaimedPC)) + Cardinality(At(OwedPC))

(* Every queued task has a token; without interrupted waits there is no    *)
(* other token, and a worker that claimed one finds a task.                *)
Accounting ==
    /\ Len(workqueue) <= Tokens
    /\ ~Interruptible => Len(workqueue) = Tokens
    /\ ~Interruptible => \A w \in Workers : pc[w] # "w_skip"

(* A step that keeps its thread on the same side of both counts changes    *)
(* nothing of the accounting.                                              *)
LEMMA Balanced ==
    ASSUME TypeOK, Accounting, NEW th \in Threads, NEW from, NEW to, Goto(th, from, to),
           UNCHANGED <<workqueue, queuestat>>,
           from \in ClaimedPC <=> to \in ClaimedPC,
           from \in OwedPC <=> to \in OwedPC,
           to # "w_skip"
    PROVE  Accounting'
<1>1. Cardinality(At(ClaimedPC)') = Cardinality(At(ClaimedPC))
  BY Move
<1>2. Cardinality(At(OwedPC)') = Cardinality(At(OwedPC))
  BY Move
<1>3. Tokens' = Tokens
  BY <1>1, <1>2 DEF Tokens, At
<1>4. \A v \in Workers : pc[v] # "w_skip" => pc'[v] # "w_skip"
  BY DEF Goto, TypeOK, Threads
<1> QED
  BY <1>3, <1>4 DEF Accounting

(* post() and wait() keep the tokens in step with push() and pop(). *)
LEMMA AccountingStep == TypeOK /\ Fresh /\ Accounting /\ [Next]_vars => Accounting'
<1> SUFFICES ASSUME TypeOK, Fresh, Accounting, [Next]_vars PROVE Accounting'
  OBVIOUS
<1> DEFINE c == Cardinality(At(ClaimedPC))
           o == Cardinality(At(OwedPC))
<1>0. /\ workqueue \in Seq(Tasks) /\ queuestat \in Nat
      /\ Len(workqueue) \in Nat
      /\ Interruptible \in BOOLEAN
  BY BoundAssumption DEF TypeOK
<1>1. ASSUME NEW p \in Producers, NEW t \in Tasks, Call(p, t) PROVE Accounting'
  <2>1. Goto(p, "idle", "a_lock") /\ UNCHANGED <<workqueue, queuestat>>
    BY <1>1 DEF Call
  <2> QED
    BY <2>1, Balanced DEF ClaimedPC, OwedPC, Threads
<1>2. ASSUME NEW p \in Producers, AppendStep(p) PROVE Accounting'
  <2>1. CASE AppendLock(p)
    <3>1. Goto(p, "a_lock", "a_size") /\ UNCHANGED <<workqueue, queuestat>>
      BY <2>1 DEF AppendLock, history
    <3> QED
      BY <3>1, Balanced DEF ClaimedPC, OwedPC, Threads
  <2>2. CASE AppendFull(p)
    <3>1. Goto(p, "a_size", "a_full") /\ UNCHANGED <<workqueue, queuestat>>
      BY <2>2 DEF AppendFull, history
    <3> QED
      BY <3>1, Balanced DEF ClaimedPC, OwedPC, Threads
  <2>3. CASE AppendRoom(p)
    <3>1. Goto(p, "a_size", "a_push") /\ UNCHANGED <<workqueue, queuestat>>
      BY <2>3 DEF AppendRoom, history
    <3> QED
      BY <3>1, Balanced DEF ClaimedPC, OwedPC, Threads
  <2>4. CASE AppendReturnFalse(p)
    <3>1. Goto(p, "a_full", "idle") /\ UNCHANGED <<workqueue, queuestat>>
      BY <2>4 DEF AppendReturnFalse, history
    <3> QED
      BY <3>1, Balanced DEF ClaimedPC, OwedPC, Threads
  <2>5. CASE AppendPush(p)
    <3>1. Goto(p, "a_push", "a_unlock")
      BY <2>5 DEF AppendPush
    <3>2. p \in Threads
      BY DEF Threads
    <3>3. c \in Nat /\ c' \in Nat /\ c' = c
      BY <3>1, <3>2, Move DEF ClaimedPC
    <3>4. o \in Nat /\ o' \in Nat /\ o' = o + 1
      BY <3>1, <3>2, Move DEF OwedPC
    <3>5. workqueue' = Append(workqueue, task[p]) /\ task[p] \in Tasks
      BY <3>1, <2>5 DEF AppendPush, Goto, TypeOK, Threads
    <3>6. Len(workqueue') = Len(workqueue) + 1
      BY <1>0, <3>5
    <3>7. queuestat' = queuestat
      BY <2>5 DEF AppendPush, Post
    <3>8. \A u \in Workers : pc[u] # "w_skip" => pc'[u] # "w_skip"
      BY <3>1 DEF Goto, TypeOK, Threads
    <3> HIDE DEF c, o
    <3>9. Len(workqueue) <= queuestat + c + o
          /\ (~Interruptible => Len(workqueue) = queuestat + c + o)
      BY DEF Accounting, Tokens, c, o
    <3>10. Len(workqueue') <= queuestat' + c' + o'
          /\ (~Interruptible => Len(workqueue') = queuestat' + c' + o')
      BY <1>0, <3>3, <3>4, <3>6, <3>7, <3>9
    <3> QED
      BY <3>8, <3>10 DEF Accounting, Tokens, c, o
  <2>6. CASE AppendUnlock(p)
    <3>1. Goto(p, "a_unlock", "a_post") /\ UNCHANGED <<workqueue, queuestat>>
      BY <2>6 DEF AppendUnlock, history
    <3> QED
      BY <3>1, Balanced DEF ClaimedPC, OwedPC, Threads
  <2>7. CASE AppendPost(p)
    <3>1. Goto(p, "a_post", "idle")
      BY <2>7 DEF AppendPost
    <3>2. p \in Threads
      BY DEF Threads
    <3>3. c \in Nat /\ c' \in Nat /\ c' = c
      BY <3>1, <3>2, Move DEF ClaimedPC
    <3>4. o \in Nat /\ o' \in Nat /\ o' = o - 1
      BY <3>1, <3>2, Move DEF OwedPC
    <3>5. workqueue' = workqueue
      BY <3>1, <2>7 DEF AppendPost, Goto
    <3>6. Len(workqueue') = Len(workqueue)
      BY <1>0, <3>5
    <3>7. queuestat' = queuestat + 1
      BY <2>7 DEF AppendPost, Post
    <3>8. \A u \in Workers : pc[u] # "w_skip" => pc'[u] # "w_skip"
      BY <3>1 DEF Goto, TypeOK, Threads
    <3> HIDE DEF c, o
    <3>9. Len(workqueue) <= queuestat + c + o
          /\ (~Interruptible => Len(workqueue) = queuestat + c + o)
      BY DEF Accounting, Tokens, c, o
    <3>10. Len(workqueue') <= queuestat' + c' + o'
          /\ (~Interruptible => Len(workqueue') = queuestat' + c' + o')
      BY <1>0, <3>3, <3>4, <3>6, <3>7, <3>9
    <3> QED
      BY <3>8, <3>10 DEF Accounting, Tokens, c, o
  <2> QED
    BY <1>2, <2>1, <2>2, <2>3, <2>4, <2>5, <2>6, <2>7 DEF AppendStep
<1>3. ASSUME NEW w \in Workers, RunStep(w) PROVE Accounting'
  <2>1. CASE RunTest(w)
    <3>1. \/ Goto(w, "test", "wait")
          \/ Goto(w, "test", "exited")
      BY <2>1 DEF RunTest
    <3>2. UNCHANGED <<workqueue, queuestat>>
      BY <2>1 DEF RunTest
    <3> QED
      BY <3>1, <3>2, Balanced DEF ClaimedPC, OwedPC, Threads
  <2>2. CASE RunWait(w)
    <3>1. Goto(w, "wait", "w_lock")
      BY <2>2 DEF RunWait
    <3>2. w \in Threads
      BY DEF Threads
    <3>3. c \in Nat /\ c' \in Nat /\ c' = c + 1
      BY <3>1, <3>2, Move DEF ClaimedPC
    <3>4. o \in Nat /\ o' \in Nat /\ o' = o
      BY <3>1, <3>2, Move DEF OwedPC
    <3>5. workqueue' = workqueue
      BY <3>1, <2>2 DEF RunWait, Goto
    <3>6. Len(workqueue') = Len(workqueue)
      BY <1>0, <3>5
    <3>7. queuestat' = queuestat - 1 \/ (Interruptible /\ queuestat' = queuestat)
      BY <2>2 DEF RunWait, Wait
    <3>8. \A u \in Workers : pc[u] # "w_skip" => pc'[u] # "w_skip"
      BY <3>1 DEF Goto, TypeOK, Threads
    <3> HIDE DEF c, o
    <3>9. Len(workqueue) <= queuestat + c + o
          /\ (~Interruptible => Len(workqueue) = queuestat + c + o)
      BY DEF Accounting, Tokens, c, o
    <3>10. Len(workqueue') <= queuestat' + c' + o'
          /\ (~Interruptible => Len(workqueue') = queuestat' + c' + o')
      BY <1>0, <3>3, <3>4, <3>6, <3>7, <3>9
    <3> QED
      BY <3>8, <3>10 DEF Accounting, Tokens, c, o
  <2>3. CASE RunLock(w)
    <3>1. Goto(w, "w_lock", "w_empty") /\ UNCHANGED <<workqueue, queuestat>>
      BY <2>3 DEF RunLock, history
    <3> QED
      BY <3>1, Balanced DEF ClaimedPC, OwedPC, Threads
  <2>4. CASE RunEmpty(w)
    <3>1. CASE workqueue = <<>>
      <4>1. Goto(w, "w_empty", "w_skip") /\ UNCHANGED <<workqueue, queuestat>>
        BY <2>4, <3>1 DEF RunEmpty
      <4>2. c \in Nat /\ c' \in Nat /\ o \in Nat /\ c > 0 /\ o' = o
        BY <4>1, Move DEF ClaimedPC, OwedPC, Threads
      <4>3. Interruptible
        BY <1>0, <3>1, <4>2 DEF Accounting, Tokens
      <4> QED
        BY <1>0, <3>1, <4>1, <4>2, <4>3 DEF Accounting, Tokens
    <3>2. CASE workqueue # <<>>
      <4>1. Goto(w, "w_empty", "w_front") /\ UNCHANGED <<workqueue, queuestat>>
        BY <2>4, <3>2 DEF RunEmpty
      <4> QED
        BY <4>1, Balanced DEF ClaimedPC, OwedPC, Threads
    <3> QED
      BY <3>1, <3>2
  <2>5. CASE RunSkip(w)
    <3>1. Goto(w, "w_skip", "test") /\ UNCHANGED <<workqueue, queuestat>>
      BY <2>5 DEF RunSkip, history
    <3> QED
      BY <3>1, Balanced DEF ClaimedPC, OwedPC, Threads
  <2>6. CASE RunFront(w)
    <3>1. Goto(w, "w_front", "w_pop") /\ UNCHANGED <<workqueue, queuestat>>
      BY <2>6 DEF RunFront, history
    <3> QED
      BY <3>1, Balanced DEF ClaimedPC, OwedPC, Threads
  <2>7. CASE RunPop(w)
    <3>1. Goto(w, "w_pop", "w_unlock")
      BY <2>7 DEF RunPop
    <3>2. w \in Threads
      BY DEF Threads
    <3>3. c \in Nat /\ c' \in Nat /\ c' = c - 1
      BY <3>1, <3>2, Move DEF ClaimedPC
    <3>4. o \in Nat /\ o' \in Nat /\ o' = o
      BY <3>1, <3>2, Move DEF OwedPC
    <3>5. workqueue # <<>> /\ workqueue' = Tail(workqueue)
      BY <3>1, <2>7 DEF RunPop, Goto
    <3>6. Len(workqueue') = Len(workqueue) - 1
      BY <1>0, <3>5
    <3>7. queuestat' = queuestat
      BY <2>7 DEF RunPop
    <3>8. \A u \in Workers : pc[u] # "w_skip" => pc'[u] # "w_skip"
      BY <3>1 DEF Goto, TypeOK, Threads
    <3> HIDE DEF c, o
    <3>9. Len(workqueue) <= queuestat + c + o
          /\ (~Interruptible => Len(workqueue) = queuestat + c + o)
      BY DEF Accounting, Tokens, c, o
    <3>10. Len(workqueue') <= queuestat' + c' + o'
          /\ (~Interruptible => Len(workqueue') = queuestat' + c' + o')
      BY <1>0, <3>3, <3>4, <3>6, <3>7, <3>9
    <3> QED
      BY <3>8, <3>10 DEF Accounting, Tokens, c, o
  <2>8. CASE RunUnlock(w)
    <3>1. Goto(w, "w_unlock", "w_null") /\ UNCHANGED <<workqueue, queuestat>>
      BY <2>8 DEF RunUnlock, history
    <3> QED
      BY <3>1, Balanced DEF ClaimedPC, OwedPC, Threads
  <2>9. CASE RunNull(w)
    <3>1. \/ Goto(w, "w_null", "test")
          \/ Goto(w, "w_null", "process")
      BY <2>9 DEF RunNull
    <3>2. UNCHANGED <<workqueue, queuestat>>
      BY <2>9 DEF RunNull
    <3> QED
      BY <3>1, <3>2, Balanced DEF ClaimedPC, OwedPC, Threads
  <2>10. CASE RunProcess(w)
    <3>1. Goto(w, "process", "test") /\ UNCHANGED <<workqueue, queuestat>>
      BY <2>10 DEF RunProcess, history
    <3> QED
      BY <3>1, Balanced DEF ClaimedPC, OwedPC, Threads
  <2> QED
    BY <1>3, <2>1, <2>2, <2>3, <2>4, <2>5, <2>6, <2>7, <2>8, <2>9, <2>10 DEF RunStep
<1>4. CASE Destroy
  BY <1>4 DEF Destroy, Accounting, Tokens, At, history
<1>5. CASE UNCHANGED vars
  BY <1>5 DEF vars, Accounting, Tokens, At
<1> QED
  BY <1>1, <1>2, <1>3, <1>4, <1>5 DEF Next

(* At the start there is no task and no token. *)
LEMMA AccountingInit == Init => Accounting
<1> SUFFICES ASSUME Init PROVE Accounting
  OBVIOUS
<1>1. \A th \in Threads : pc[th] \in {"idle", "test"}
  BY DEF Init, Threads
<1>2. At(ClaimedPC) = {} /\ At(OwedPC) = {}
  BY <1>1 DEF At, ClaimedPC, OwedPC
<1>3. Tokens = 0
  BY <1>2, FS_EmptySet DEF Tokens, Init
<1> QED
  BY <1>1, <1>3 DEF Accounting, Init, Threads

(* The accounting holds in every state (threadpool.h:39-41 and 74-82). *)
LEMMA AccountingInvariance == Spec => []Accounting
<1>1. Safe /\ Accounting /\ [Next]_vars => Accounting'
  BY AccountingStep DEF Safe, IInv
<1> QED
  BY <1>1, AccountingInit, Invariance, PTL DEF Spec

(* No queued task is left without a wake-up, whoever interrupts the waits  *)
(* (post() comes after unlock() in append(), wait() before lock() in run()). *)
THEOREM NoTaskStranded == Spec => []NoLostTask
<1>1. Accounting => NoLostTask
  BY DEF Accounting, Tokens, NoLostTask, ClaimedPC, OwedPC
<1> QED
  BY <1>1, AccountingInvariance, PTL

(* When no signal interrupts sem_wait, a woken worker finds a task: the    *)
(* empty() test of threadpool.h:76 is never true.                          *)
THEOREM WokenFindsTask == Spec => []ExactTokens
<1>1. TypeOK /\ Accounting => ExactTokens
  <2> SUFFICES ASSUME TypeOK, Accounting, ~Interruptible, NEW th \in Threads, pc[th] = "w_skip"
               PROVE  FALSE
    BY DEF ExactTokens, At
  <2>1. th \in Workers
    BY DEF TypeOK, ProducerPC, Threads
  <2> QED
    BY <2>1 DEF Accounting
<1> QED
  BY <1>1, AccountingInvariance, TypeCorrect, PTL

-----------------------------------------------------------------------------
(* The refinement: every step of the threads is a step of TaskQueue or a   *)
(* stutter of it.                                                          *)

(* Held and Popped, member by member. *)
Members ==
    /\ \A x : x \in Held <=> \E w \in Workers : pc[w] \in Holding /\ x = task[w]
    /\ \A t \in Tasks : t \in Popped <=> IsTaken(t)

(* The mapped sets, member by member. *)
LEMMA HeldMembers == TypeOK => Members
<1> SUFFICES ASSUME TypeOK PROVE Members
  OBVIOUS
<1>1. \A th : th \in Holders <=> th \in Workers /\ pc[th] \in Holding
  <2>1. \A th : th \in Holders <=> th \in Threads /\ pc[th] \in Holding
    BY Zenon DEF Holders, At, Holding
  <2>2. \A p \in Producers : pc[p] \notin Holding
    BY DEF TypeOK, ProducerPC, Holding
  <2> QED
    BY <2>1, <2>2 DEF Threads
<1>2. \A x : x \in Held <=> \E w \in Workers : pc[w] \in Holding /\ x = task[w]
  BY <1>1 DEF Held
<1>3. \A t \in Tasks : t \in Popped <=> IsTaken(t)
  BY DEF Popped, IsTaken
<1> QED
  BY <1>2, <1>3 DEF Members

(* A step of one thread that keeps its task, if it holds one, and stays    *)
(* on the same side of pop() is invisible to TaskQueue.                    *)
LEMMA Invisible ==
    ASSUME TypeOK, TypeOK', NEW th \in Threads, NEW from, NEW to, Goto(th, from, to),
           UNCHANGED <<workqueue, refused, taken, processed>>,
           from \in Holding <=> to \in Holding,
           \A x \in Threads : pc[x] \in Holding => task'[x] = task[x]
    PROVE  UNCHANGED <<workqueue, Held, Finished, refused>>
<1>1. \A x \in Threads : pc'[x] \in Holding <=> pc[x] \in Holding
  BY DEF Goto, TypeOK
<1>2. Members /\ Members'
  BY HeldMembers, PTL
<1>3. \A x : x \in Held' <=> x \in Held
  BY <1>1, <1>2 DEF Members, Threads
<1>4. Held' = Held
  BY <1>3
<1>5. Popped' = Popped
  BY DEF Popped
<1> QED
  BY <1>4, <1>5 DEF Finished

(* A task the pool knows is waiting, held, finished with or refused.       *)
LEMMA Known ==
    ASSUME Safe, NEW t \in Tasks, ~IsPushed(t), t \notin refused
    PROVE  t \in TQ!Fresh
<1> USE DEF Safe, IInv
<1>1. taken \in Seq(Tasks) /\ workqueue \in Seq(Tasks) /\ pushed = taken \o workqueue
  BY DEF TypeOK, Fifo
<1>2. ~IsTaken(t)
  <2>1. \A i \in DOMAIN taken : i \in DOMAIN pushed /\ pushed[i] = taken[i]
    BY <1>1
  <2> QED
    BY <2>1 DEF IsTaken, IsPushed
<1>3. \A i \in DOMAIN workqueue : workqueue[i] # t
  <2>1. \A i \in DOMAIN workqueue :
          Len(taken) + i \in DOMAIN pushed /\ pushed[Len(taken) + i] = workqueue[i]
    BY <1>1
  <2> QED
    BY <2>1 DEF IsPushed
<1>4. t \notin Held /\ t \notin Popped
  BY <1>2, HeldMembers DEF Members, Owned
<1>5. t \notin Finished
  BY <1>2, <1>4 DEF Finished, Owned
<1> QED
  BY <1>3, <1>4, <1>5 DEF TQ!Fresh, TQ!Waiting

(* What process() returning, or a null task, does to the mapped state. *)
LEMMA Released ==
    ASSUME Safe, TypeOK', NEW w \in Workers, pc[w] \in Holding,
           pc' = [pc EXCEPT ![w] = "test"], UNCHANGED <<task, taken>>
    PROVE  /\ task[w] \in Held
           /\ Held' = Held \ {task[w]}
           /\ Popped' = Popped
           /\ task[w] \in Popped
<1> USE DEF Safe, IInv
<1>1. Members /\ Members'
  BY HeldMembers, PTL
<1>2. task[w] \in Tasks
  BY DEF TypeOK, Holding, Threads
<1>3. \A v \in Workers : pc'[v] \in Holding <=> pc[v] \in Holding /\ v # w
  BY DEF TypeOK, Threads, Holding
<1>4. \A x : x \in Held' <=> x \in Held /\ x # task[w]
  BY <1>1, <1>3 DEF Members, Owned
<1> QED
  BY <1>1, <1>2, <1>4 DEF Members, Owned, Popped

TQStep == TQ!Next \/ UNCHANGED <<workqueue, Held, Finished, refused>>

(* Every step of the pool is a step of TaskQueue, or changes nothing it sees. *)
LEMMA StepRefines == Safe /\ Safe' /\ [Next]_vars => TQStep
<1> SUFFICES ASSUME Safe, Safe', [Next]_vars PROVE TQStep
  OBVIOUS
<1> USE BoundAssumption, ThreadsAssumption DEF history
<1>0. TypeOK /\ TypeOK'
  BY DEF Safe, IInv
<1>1. ASSUME NEW p \in Producers, NEW t \in Tasks, Call(p, t) PROVE TQStep
  <2>1. /\ Goto(p, "idle", "a_lock") /\ task' = [task EXCEPT ![p] = t]
        /\ UNCHANGED <<workqueue, refused, taken, processed>>
    BY <1>1 DEF Call
  <2>2. \A x \in Threads : pc[x] \in Holding => task'[x] = task[x]
    BY <1>0, <2>1 DEF Goto, Holding, TypeOK
  <2> QED
    BY <1>0, <2>1, <2>2, Invisible DEF TQStep, Threads, Holding
<1>2. ASSUME NEW p \in Producers, AppendStep(p) PROVE TQStep
  <2>1. CASE AppendLock(p)
    BY <1>0, <2>1, Invisible DEF AppendLock, TQStep, Threads, Holding
  <2>2. CASE AppendRoom(p)
    BY <1>0, <2>2, Invisible DEF AppendRoom, TQStep, Threads, Holding
  <2>3. CASE AppendReturnFalse(p)
    BY <1>0, <2>3, Invisible DEF AppendReturnFalse, TQStep, Threads, Holding
  <2>4. CASE AppendUnlock(p)
    BY <1>0, <2>4, Invisible DEF AppendUnlock, TQStep, Threads, Holding
  <2>5. CASE AppendPost(p)
    BY <1>0, <2>5, Invisible DEF AppendPost, TQStep, Threads, Holding
  <2>6. CASE AppendFull(p)
    <3>1. /\ Goto(p, "a_size", "a_full") /\ Len(workqueue) >= MaxTask
          /\ refused' = refused \union {task[p]}
          /\ UNCHANGED <<workqueue, task, taken, processed>>
      BY <2>6 DEF AppendFull
    <3>2. task[p] \in TQ!Fresh /\ task[p] \in Tasks
      BY <3>1, Known DEF Goto, Safe, IInv, Carried, Arriving, TypeOK, Threads
    <3>3. Len(workqueue) = MaxTask
      BY <3>1 DEF Safe, Bounded, IInv, TypeOK
    <3>4. \A th \in Threads : pc'[th] \in Holding <=> pc[th] \in Holding
      BY <1>0, <3>1 DEF Goto, Holding, TypeOK
    <3>5. Members /\ Members'
      BY <1>0, HeldMembers, PTL
    <3>6. Held' = Held
      <4>1. \A x : x \in Held' <=> x \in Held
        BY <3>1, <3>4, <3>5 DEF Members, Threads
      <4> QED
        BY <4>1
    <3>7. Finished' = Finished
      BY <3>1, <3>6 DEF Finished, Popped
    <3>8. TQ!Refuse(task[p])
      BY <3>1, <3>2, <3>3, <3>6, <3>7 DEF TQ!Refuse
    <3> QED
      BY <3>2, <3>8 DEF TQStep, TQ!Next
  <2>7. CASE AppendPush(p)
    <3>1. /\ Goto(p, "a_push", "a_unlock")
          /\ workqueue' = Append(workqueue, task[p])
          /\ UNCHANGED <<refused, task, taken, processed>>
      BY <2>7 DEF AppendPush
    <3>2. task[p] \in TQ!Fresh /\ task[p] \in Tasks
      BY <3>1, Known DEF Goto, Safe, IInv, Carried, Arriving, TypeOK, Threads
    <3>3. Len(workqueue) < MaxTask
      BY <3>1 DEF Goto, Safe, IInv, Fresh
    <3>4. \A th \in Threads : pc'[th] \in Holding <=> pc[th] \in Holding
      BY <1>0, <3>1 DEF Goto, Holding, TypeOK
    <3>5. Members /\ Members'
      BY <1>0, HeldMembers, PTL
    <3>6. Held' = Held
      <4>1. \A x : x \in Held' <=> x \in Held
        BY <3>1, <3>4, <3>5 DEF Members, Threads
      <4> QED
        BY <4>1
    <3>7. Finished' = Finished
      BY <3>1, <3>6 DEF Finished, Popped
    <3>8. TQ!Accept(task[p])
      BY <3>1, <3>2, <3>3, <3>6, <3>7 DEF TQ!Accept
    <3> QED
      BY <3>2, <3>8 DEF TQStep, TQ!Next
  <2> QED
    BY <1>2, <2>1, <2>2, <2>3, <2>4, <2>5, <2>6, <2>7 DEF AppendStep
<1>3. ASSUME NEW w \in Workers, RunStep(w) PROVE TQStep
  <2>1. CASE RunWait(w)
    BY <1>0, <2>1, Invisible DEF RunWait, TQStep, Threads, Holding
  <2>2. CASE RunLock(w)
    BY <1>0, <2>2, Invisible DEF RunLock, TQStep, Threads, Holding
  <2>3. CASE RunSkip(w)
    BY <1>0, <2>3, Invisible DEF RunSkip, TQStep, Threads, Holding
  <2>4. CASE RunFront(w)
    <3>1. /\ Goto(w, "w_front", "w_pop") /\ task' = [task EXCEPT ![w] = Head(workqueue)]
          /\ UNCHANGED <<workqueue, refused, taken, processed>>
      BY <2>4 DEF RunFront
    <3>2. \A x \in Threads : pc[x] \in Holding => task'[x] = task[x]
      BY <1>0, <3>1 DEF Goto, Holding, TypeOK
    <3> QED
      BY <1>0, <3>1, <3>2, Invisible DEF TQStep, Threads, Holding
  <2>5. CASE RunUnlock(w)
    BY <1>0, <2>5, Invisible DEF RunUnlock, TQStep, Threads, Holding
  <2>6. CASE RunTest(w)
    BY <1>0, <2>6, Invisible DEF RunTest, TQStep, Threads, Holding
  <2>7. CASE RunEmpty(w)
    BY <1>0, <2>7, Invisible DEF RunEmpty, TQStep, Threads, Holding
  <2>8. CASE RunPop(w)
    <3>1. /\ Goto(w, "w_pop", "w_unlock") /\ workqueue # <<>>
          /\ workqueue' = Tail(workqueue) /\ taken' = Append(taken, task[w])
          /\ UNCHANGED <<refused, task, processed>>
      BY <2>8 DEF RunPop
    <3>2. task[w] = Head(workqueue) /\ task[w] \in Tasks
      BY <1>0, <3>1 DEF Goto, Safe, IInv, Fresh, TypeOK, Threads
    <3>3. \A th \in Threads : pc'[th] \in Holding <=> pc[th] \in Holding \/ th = w
      BY <1>0, <3>1 DEF Goto, Holding, TypeOK, Threads
    <3>4. Members /\ Members'
      BY <1>0, HeldMembers, PTL
    <3>5. Held' = Held \union {task[w]}
      <4>1. \A x : x \in Held' <=> x \in Held \/ x = task[w]
        BY <3>1, <3>3, <3>4 DEF Members, Threads
      <4> QED
        BY <4>1
    <3>6. Popped' = Popped \union {task[w]} /\ task[w] \notin Popped
      <4>1. taken \in Seq(Tasks) /\ ~IsTaken(task[w])
        BY <1>0, <3>1, <3>2, HeadNotTaken DEF TypeOK, Safe, IInv
      <4>2. /\ DOMAIN taken' = DOMAIN taken \union {Len(taken) + 1}
            /\ taken'[Len(taken) + 1] = task[w]
            /\ \A i \in DOMAIN taken : taken'[i] = taken[i]
        BY <3>1, <3>2, <4>1
      <4> QED
        BY <4>1, <4>2 DEF Popped, IsTaken
    <3>7. Finished' = Finished
      BY <3>1, <3>5, <3>6 DEF Finished
    <3>8. TQ!Start
      BY <3>1, <3>2, <3>5, <3>7 DEF TQ!Start
    <3> QED
      BY <3>8 DEF TQStep, TQ!Next
  <2>9. CASE RunNull(w)
    <3>1. CASE task[w] \notin NullTasks
      <4>1. Goto(w, "w_null", "process") /\ UNCHANGED <<workqueue, task, refused, taken, processed>>
        BY <2>9, <3>1 DEF RunNull
      <4> QED
        BY <1>0, <4>1, Invisible DEF TQStep, Threads, Holding
    <3>2. CASE task[w] \in NullTasks
      <4>1. Goto(w, "w_null", "test") /\ UNCHANGED <<workqueue, task, refused, taken, processed>>
        BY <2>9, <3>2 DEF RunNull
      <4>2. /\ task[w] \in Held /\ Held' = Held \ {task[w]}
            /\ Popped' = Popped /\ task[w] \in Popped
        BY <1>0, <4>1, Released DEF Goto, Holding
      <4>3. Finished' = Finished \union {task[w]}
        BY <3>2, <4>1, <4>2 DEF Finished
      <4>4. TQ!Finish(task[w]) /\ task[w] \in Tasks
        BY <3>2, <4>1, <4>2, <4>3, TasksAssumption DEF TQ!Finish
      <4> QED
        BY <4>4 DEF TQStep, TQ!Next
    <3> QED
      BY <3>1, <3>2
  <2>10. CASE RunProcess(w)
    <3>1. /\ Goto(w, "process", "test")
          /\ processed' = [processed EXCEPT ![task[w]] = @ + 1]
          /\ UNCHANGED <<workqueue, task, refused, taken>>
      BY <2>10 DEF RunProcess
    <3>2. /\ task[w] \in Held /\ Held' = Held \ {task[w]}
          /\ Popped' = Popped /\ task[w] \in Popped
      BY <1>0, <3>1, Released DEF Goto, Holding
    <3>3. task[w] \in Tasks /\ task[w] \notin NullTasks /\ processed[task[w]] = 0
      BY <1>0, <3>1 DEF Goto, Safe, IInv, Owned, Holding, TypeOK, Threads
    <3>4. \A t \in Tasks : processed'[t] > 0 <=> processed[t] > 0 \/ t = task[w]
      BY <1>0, <3>1, <3>3 DEF TypeOK
    <3>5. Finished' = Finished \union {task[w]}
      BY <3>2, <3>3, <3>4 DEF Finished
    <3>6. TQ!Finish(task[w])
      BY <3>1, <3>2, <3>5 DEF TQ!Finish
    <3> QED
      BY <3>3, <3>6 DEF TQStep, TQ!Next
  <2> QED
    BY <1>3, <2>1, <2>2, <2>3, <2>4, <2>5, <2>6, <2>7, <2>8, <2>9, <2>10 DEF RunStep
<1>4. CASE Destroy
  BY <1>4 DEF Destroy, TQStep, Held, Holders, At, Finished, Popped
<1>5. CASE UNCHANGED vars
  BY <1>5 DEF vars, TQStep, Held, Holders, At, Finished, Popped
<1> QED
  BY <1>1, <1>2, <1>3, <1>4, <1>5 DEF Next

(* append() and run() with their locks, semaphore and signals are an atomic *)
(* bounded FIFO queue with one owner per task.                              *)
THEOREM Refinement == Spec => ImplementsTaskQueue
<1>1. Init => TQ!Init
  <2> SUFFICES ASSUME Init PROVE TQ!Init
    OBVIOUS
  <2>1. \A th \in Threads : pc[th] \notin Holding
    BY DEF Init, Threads, Holding
  <2>2. Held = {} /\ Popped = {}
    <3>1. Members
      BY InitSafe, HeldMembers DEF Safe, IInv
    <3>2. Held = {}
      BY <2>1, <3>1 DEF Members, Threads
    <3> QED
      BY <3>2 DEF Popped, Init
  <2>3. Finished = {}
    BY <2>2 DEF Finished, Init
  <2> QED
    BY <2>2, <2>3 DEF TQ!Init, Init
<1>2. Safe /\ Safe' /\ [Next]_vars => [TQ!Next]_(TQ!vars)
  BY StepRefines DEF TQStep, TQ!vars
<1> QED
  BY <1>1, <1>2, Invariance, PTL DEF Spec, ImplementsTaskQueue, TQ!Spec
=============================================================================
