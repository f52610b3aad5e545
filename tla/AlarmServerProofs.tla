------------------------- MODULE AlarmServerProofs -------------------------
(***************************************************************************)
(* Proofs about the server that closes idle connections on SIGALRM, as     *)
(* AlarmServer.tla models it, for any descriptors, any number of Timer     *)
(* objects, any TIMESLOT and any time: what the timer list holds, whose    *)
(* the timers are, that none that had expired is left by a tick, that the  *)
(* alarms go on, and that the server does what IdleTimers.tla says.        *)
(***************************************************************************)
EXTENDS AlarmServer, TimerListProofs

Signals == {"ALRM", "TERM"}
Sources == Fds \union {"listen", "pipe"}

(* The types of what the server keeps, and of what it is told.             *)
AlarmTypes ==
    /\ now \in Nat /\ alarmAt \in Nat
    /\ open \subseteq Fds /\ data \subseteq open /\ fin \subseteq open
    /\ pipe \in Seq(Signals)
    /\ ready \subseteq Sources /\ batch \subseteq Sources /\ nret \in Nat
    /\ expire \in [Timers -> Nat]
    /\ owner \in [Timers -> Fds \union {Null}]
    /\ allocated \subseteq Timers
    /\ timer \in [Fds -> Timers \union {Null}]
    /\ timeout \in BOOLEAN /\ stop \in BOOLEAN

(* An open connection's timer is allocated and its own, and an allocated   *)
(* timer is that of its connection, which is open.                         *)
OwnTimers ==
    /\ \A f \in open : timer[f] \in allocated /\ owner[timer[f]] = f
    /\ \A t \in allocated : owner[t] \in open /\ timer[owner[t]] = t

(* No timer expires later than one that is set now would: so a timer that  *)
(* is added never goes before head, and one that is adjusted only back.    *)
NoneBeyond == \A t \in allocated : expire[t] <= now + 3 * Slot

(* The next tick is at most one slot away. *)
Alarm == alarmAt <= now + Slot

(* A batch is handled before the next one is waited for, and when there is *)
(* an event epoll_wait has returned at least one.                          *)
Batch ==
    /\ pc = "wait" => batch = {}
    /\ batch # {} => nret >= 1

AlarmInv ==
    /\ AlarmTypes /\ Holds(timerLst, expire, allocated)
    /\ OwnTimers /\ NoneBeyond /\ Alarm /\ Batch
    /\ NotLate /\ AlarmsGoOn

-----------------------------------------------------------------------------
(* What the assumptions on TIMESLOT and on the names give to arithmetic    *)
(* and to the cases.                                                       *)
LEMMA SlotFacts ==
    /\ Slot \in Nat /\ Slot >= 1 /\ 3 * Slot \in Nat /\ 3 * Slot >= Slot + 1
    /\ "pipe" \notin Fds /\ "listen" \notin Fds /\ Null \notin Fds /\ Null \notin Nat
    /\ Null \notin Timers
BY AlarmAssumption, TimersAssumption

(* Members, of a pipe with a byte more. *)
LEMMA OneByteMore ==
    ASSUME NEW s \in Seq(Signals), NEW b \in Signals
    PROVE  /\ Append(s, b) \in Seq(Signals)
           /\ b \in Members(Append(s, b)) /\ Members(s) \subseteq Members(Append(s, b))
<1>1. /\ Append(s, b) \in Seq(Signals) /\ Len(Append(s, b)) = Len(s) + 1 /\ Len(s) \in Nat
      /\ \A i \in 1 .. Len(s) : Append(s, b)[i] = s[i]
      /\ Append(s, b)[Len(s) + 1] = b
  BY AppendProperties, LenProperties
<1>2. DOMAIN s = 1 .. Len(s) /\ DOMAIN Append(s, b) = 1 .. Len(s) + 1
  BY <1>1, LenProperties
<1>3. b \in Members(Append(s, b))
  BY <1>1, <1>2 DEF Members
<1>4. \A i \in 1 .. Len(s) : i \in 1 .. Len(s) + 1
  BY <1>1
<1> QED
  BY <1>1, <1>2, <1>3, <1>4 DEF Members

(* The server as it starts. *)
LEMMA AlarmInit == Init => AlarmInv
<1> SUFFICES ASSUME Init PROVE AlarmInv
  OBVIOUS
<1>1. AlarmTypes
  BY SlotFacts, EmptySeq DEF Init, AlarmTypes, Signals, Sources
<1>2. Holds(timerLst, expire, allocated)
  BY EmptyHolds DEF Init
<1>3. OwnTimers /\ NoneBeyond /\ Batch /\ NotLate
  BY DEF Init, OwnTimers, NoneBeyond, Batch, NotLate
<1>4. Alarm /\ AlarmsGoOn
  BY SlotFacts DEF Init, Alarm, AlarmsGoOn
<1> QED
  BY <1>1, <1>2, <1>3, <1>4 DEF AlarmInv

(* A step that leaves the list, the timers and their connections alone.    *)
LEMMA TimersStay ==
    ASSUME AlarmInv, UNCHANGED <<timerLst, expire, owner, allocated, timer, open>>, now' \in Nat, now <= now'
    PROVE  /\ Holds(timerLst', expire', allocated') /\ OwnTimers' /\ NoneBeyond'
           /\ alarmAt' \in {0, alarmAt} => NotLate'
<1>1. Holds(timerLst', expire', allocated') /\ OwnTimers'
  BY DEF AlarmInv, OwnTimers
<1>2. NoneBeyond'
  <2>1. SUFFICES ASSUME NEW t \in allocated PROVE expire[t] <= now' + 3 * Slot
    BY DEF NoneBeyond
  <2>2. expire[t] \in Nat /\ now \in Nat /\ expire[t] <= now + 3 * Slot
    BY <2>1 DEF AlarmInv, AlarmTypes, NoneBeyond
  <2> QED
    BY <2>2, SlotFacts
<1>3. alarmAt' \in {0, alarmAt} => NotLate'
  BY DEF AlarmInv, NotLate
<1> QED
  BY <1>1, <1>2, <1>3

(* Time, signals and clients: what they change is read later. *)
LEMMA OutsideStep ==
    ASSUME AlarmInv, Advance \/ SigAlrm \/ SigTerm \/ Connect \/ \E f \in Fds : Send(f) \/ HangUp(f)
    PROVE  AlarmInv'
<1>t. AlarmTypes
  BY DEF AlarmInv
<1>1. /\ UNCHANGED <<timerLst, expire, owner, allocated, timer, open, batch, nret, timeout, stop, pc>>
      /\ now' = now \/ now' = now + 1
      /\ alarmAt' \in {0, alarmAt}
      /\ data' \subseteq open /\ fin' \subseteq open
      /\ ready \subseteq ready' /\ ready' \subseteq Sources
  BY <1>t DEF Advance, SigAlrm, SigTerm, Connect, Send, HangUp, Input, Edge, clients, timers, flags,
     AlarmTypes, Sources
<1>2. now' \in Nat /\ now <= now' /\ alarmAt' \in Nat
  BY <1>t, <1>1 DEF AlarmTypes
<1>3. \/ pipe' = pipe /\ alarmAt' = alarmAt
      \/ \E b \in Signals : /\ pipe' = Append(pipe, b) /\ "pipe" \in ready'
                            /\ alarmAt' # alarmAt => b = "ALRM"
  BY DEF Advance, SigAlrm, SigTerm, Connect, Send, HangUp, Edge, clients, Signals
<1>4. /\ pipe' \in Seq(Signals) /\ Members(pipe) \subseteq Members(pipe')
      /\ alarmAt' # alarmAt => "ALRM" \in Members(pipe') /\ "pipe" \in ready'
  <2>1. CASE pipe' = pipe /\ alarmAt' = alarmAt
    BY <1>t, <2>1 DEF AlarmTypes
  <2>2. CASE \E b \in Signals : /\ pipe' = Append(pipe, b) /\ "pipe" \in ready'
                                /\ alarmAt' # alarmAt => b = "ALRM"
    <3>1. PICK b \in Signals : /\ pipe' = Append(pipe, b) /\ "pipe" \in ready'
                               /\ alarmAt' # alarmAt => b = "ALRM"
      BY <2>2
    <3>2. /\ Append(pipe, b) \in Seq(Signals) /\ b \in Members(Append(pipe, b))
          /\ Members(pipe) \subseteq Members(Append(pipe, b))
      BY <1>t, OneByteMore DEF AlarmTypes
    <3> QED
      BY <3>1, <3>2
  <2> QED
    BY <1>3, <2>1, <2>2
<1>5. AlarmTypes'
  BY <1>t, <1>1, <1>2, <1>4 DEF AlarmTypes
<1>6. Holds(timerLst', expire', allocated') /\ OwnTimers' /\ NoneBeyond' /\ NotLate'
  BY <1>1, <1>2, TimersStay
<1>7. Alarm' /\ Batch'
  <2>1. alarmAt <= now + Slot /\ Batch
    BY DEF AlarmInv, Alarm
  <2>2. alarmAt' <= now' + Slot
    <3>1. now \in Nat /\ alarmAt \in Nat /\ Slot \in Nat /\ (alarmAt' = 0 \/ alarmAt' = alarmAt)
      BY <1>t, <1>1, SlotFacts DEF AlarmTypes
    <3>2. now' \in Nat /\ now <= now' /\ alarmAt <= now + Slot
      BY <1>2, <2>1
    <3>3. \A a, b, d, e \in Nat : a <= b + d /\ b <= e => a <= e + d /\ 0 <= e + d
      OBVIOUS
    <3> QED
      BY <3>1, <3>2, <3>3
  <2> QED
    BY <1>1, <2>1, <2>2 DEF Alarm, Batch
<1>8. AlarmsGoOn'
  <2>1. AlarmsGoOn
    BY DEF AlarmInv
  <2> QED
    BY <1>1, <1>4, <2>1 DEF AlarmsGoOn, Alive
<1> QED
  BY <1>5, <1>6, <1>7, <1>8 DEF AlarmInv

(* A set with an element in it has at least one. *)
LEMMA NotNone ==
    ASSUME NEW S, IsFiniteSet(S), S # {}
    PROVE  Cardinality(S) \in Nat /\ Cardinality(S) >= 1
<1>1. Cardinality(S) \in Nat /\ Cardinality(S) # 0
  BY FS_CardinalityType, FS_EmptySet
<1> QED
  BY <1>1

(* epoll_wait and the end of a batch: an alarm that epoll knows of is among *)
(* the events.                                                             *)
LEMMA WaitStep ==
    ASSUME AlarmInv, EpollWait \/ EndOfBatch
    PROVE  AlarmInv'
<1>t. AlarmTypes /\ Batch /\ AlarmsGoOn /\ alarmAt <= now + Slot
  BY DEF AlarmInv, Alarm
<1>1. UNCHANGED <<timerLst, expire, owner, allocated, timer, open, now, alarmAt, pipe, timeout, stop, data, fin>>
  BY DEF EpollWait, EndOfBatch, clients, timers, flags
<1>2. Holds(timerLst', expire', allocated') /\ OwnTimers' /\ NoneBeyond' /\ NotLate'
  <2>1. now' \in Nat /\ now <= now'
    BY <1>t, <1>1 DEF AlarmTypes
  <2> QED
    BY <1>1, <2>1, TimersStay
<1>3. CASE EpollWait
  <2>1. /\ pc = "wait" /\ pc' = "events" /\ ready' = {}
        /\ batch' = {x \in ready : Readable(x)} /\ batch' # {} /\ nret' = Cardinality(batch')
    BY <1>3 DEF EpollWait
  <2>2. batch' \subseteq Sources
    BY <1>t, <2>1 DEF AlarmTypes
  <2>3. IsFiniteSet(Sources)
    <3>1. IsFiniteSet({"listen", "pipe"})
      <4>1. {"listen", "pipe"} = {} \union {"listen"} \union {"pipe"}
        OBVIOUS
      <4> QED
        BY <4>1, FS_EmptySet, FS_AddElement
    <3> QED
      BY <3>1, AlarmAssumption, FS_Union DEF Sources
  <2>4. nret' \in Nat /\ nret' >= 1
    BY <2>1, <2>2, <2>3, FS_Subset, NotNone
  <2>5. AlarmTypes'
    BY <1>t, <1>1, <2>1, <2>2, <2>4 DEF AlarmTypes
  <2>6. Batch' /\ Alarm'
    BY <1>t, <1>1, <2>1, <2>4 DEF Batch, Alarm
  <2>7. "ALRM" \in Members(pipe) => pipe # <<>>
    BY DEF Members
  <2>8. AlarmsGoOn'
    BY <1>t, <1>1, <2>1, <2>7 DEF AlarmsGoOn, Alive, Batch, Readable
  <2> QED
    BY <1>2, <2>5, <2>6, <2>8 DEF AlarmInv
<1>4. CASE EndOfBatch
  <2>1. /\ pc = "events" /\ batch = {} /\ pc' \in {"wait", "exited"}
        /\ UNCHANGED <<ready, batch, nret>>
    BY <1>4 DEF EndOfBatch
  <2>2. AlarmTypes' /\ Batch' /\ Alarm'
    BY <1>t, <1>1, <2>1 DEF AlarmTypes, Batch, Alarm
  <2>3. AlarmsGoOn'
    BY <1>t, <1>1, <2>1 DEF AlarmsGoOn, Alive
  <2> QED
    BY <1>2, <2>2, <2>3 DEF AlarmInv
<1> QED
  BY <1>3, <1>4

(* The first byte of the pipe is always seen: with an alarm's among them   *)
(* the tick is next, or the server stops.                                  *)
LEMMA SignalsStep ==
    ASSUME AlarmInv, NEW stale \in SUBSET Signals, ReadSignals(stale)
    PROVE  AlarmInv'
<1> DEFINE seen == {pipe[i] : i \in {j \in DOMAIN pipe : j <= nret}}
                     \union (IF nret > Len(pipe) THEN stale ELSE {})
<1>t. AlarmTypes /\ Batch /\ AlarmsGoOn /\ alarmAt <= now + Slot
  BY DEF AlarmInv, Alarm
<1>1. /\ "pipe" \in batch /\ batch' = batch \ {"pipe"} /\ ~timeout
      /\ pipe' = <<>>
      /\ timeout' = ("ALRM" \in seen)
      /\ stop' = (stop \/ "TERM" \in seen)
      /\ UNCHANGED <<timerLst, expire, owner, allocated, timer, open, now, alarmAt, ready, nret, pc, data, fin>>
  BY DEF ReadSignals, At, clients, timers
<1>2. Holds(timerLst', expire', allocated') /\ OwnTimers' /\ NoneBeyond' /\ NotLate'
  <2>1. now' \in Nat /\ now <= now'
    BY <1>t, <1>1 DEF AlarmTypes
  <2> QED
    BY <1>1, <2>1, TimersStay
<1>3. AlarmTypes'
  <2>1. pipe' \in Seq(Signals)
    BY <1>1, EmptySeq
  <2>2. timeout' \in BOOLEAN /\ stop' \in BOOLEAN
    BY <1>t, <1>1 DEF AlarmTypes
  <2> HIDE DEF seen
  <2> QED
    BY <1>t, <1>1, <2>1, <2>2 DEF AlarmTypes
<1>4. Batch' /\ Alarm'
  BY <1>t, <1>1 DEF Batch, Alarm
<1>5. "ALRM" \in Members(pipe) => "ALRM" \in seen \/ "TERM" \in seen
  <2>1. SUFFICES ASSUME "ALRM" \in Members(pipe) PROVE "ALRM" \in seen \/ "TERM" \in seen
    OBVIOUS
  <2>2. Len(pipe) \in Nat /\ DOMAIN pipe = 1 .. Len(pipe) /\ \A i \in 1 .. Len(pipe) : pipe[i] \in Signals
    BY <1>t, LenProperties, ElementOfSeq DEF AlarmTypes
  <2>3. 1 \in DOMAIN pipe
    BY <2>1, <2>2 DEF Members
  <2>4. 1 <= nret
    BY <1>t, <1>1 DEF Batch, AlarmTypes
  <2>5. pipe[1] \in seen
    BY <2>3, <2>4
  <2>6. pipe[1] \in Signals
    BY <2>2, <2>3
  <2> QED
    BY <2>5, <2>6 DEF Signals
<1>6. AlarmsGoOn'
  BY <1>t, <1>1, <1>5 DEF AlarmsGoOn, Alive
<1> QED
  BY <1>2, <1>3, <1>4, <1>6 DEF AlarmInv

(* A connection is accepted: its timer is new, and expires last of all.    *)
LEMMA AcceptStep ==
    ASSUME AlarmInv, NEW f \in Fds, NEW t \in Timers, Accept(f, t)
    PROVE  AlarmInv'
<1>t. AlarmTypes /\ Batch /\ AlarmsGoOn /\ OwnTimers /\ NoneBeyond /\ NotLate /\ Alarm
  BY DEF AlarmInv
<1>1. /\ f \notin open /\ t \notin allocated
      /\ open' = open \union {f} /\ allocated' = allocated \union {t}
      /\ owner' = [owner EXCEPT ![t] = f]
      /\ expire' = [expire EXCEPT ![t] = now + 3 * Slot]
      /\ timer' = [timer EXCEPT ![f] = t]
      /\ timerLst' = AddTimer(NewTimer(timerLst, t), expire', t)
      /\ batch' = batch \ {"listen"}
      /\ UNCHANGED <<now, alarmAt, data, fin, pipe, ready, nret, timeout, stop, pc>>
  BY DEF Accept, At, flags
<1>2. /\ expire' \in [Timers -> Nat] /\ expire'[t] = now + 3 * Slot
      /\ \A u \in allocated : u # t /\ expire'[u] = expire[u] /\ owner'[u] = owner[u]
      /\ owner'[t] = f /\ timer'[f] = t /\ \A g \in open : g # f /\ timer'[g] = timer[g]
  BY <1>t, <1>1, SlotFacts DEF AlarmTypes
<1>3. AlarmTypes'
  BY <1>t, <1>1, <1>2 DEF AlarmTypes
<1>4. Holds(timerLst', expire', allocated')
  <2>1. Holds(timerLst, expire, allocated)
    BY DEF AlarmInv
  <2>2. timerLst.head # Null => timerLst.head \in allocated
    BY <2>1, HeadOfList
  <2>3. timerLst.head # Null => expire'[timerLst.head] <= expire'[t]
    BY <1>t, <1>2, <2>2 DEF NoneBeyond
  <2>4. Holds(AddTimer(NewTimer(timerLst, t), expire', t), expire', allocated \union {t})
    BY <1>t, <1>1, <1>2, <2>1, <2>3, AddKeepsList DEF AlarmTypes
  <2> QED
    BY <1>1, <2>4
<1>5. OwnTimers'
  BY <1>t, <1>1, <1>2 DEF OwnTimers
<1>6. NoneBeyond' /\ NotLate'
  <2>1. now + 3 * Slot > alarmAt - Slot
    BY <1>t, SlotFacts DEF AlarmTypes, Alarm
  <2>2. now + 3 * Slot <= now + 3 * Slot
    BY <1>t, SlotFacts DEF AlarmTypes
  <2> QED
    BY <1>t, <1>1, <1>2, <2>1, <2>2 DEF NoneBeyond, NotLate
<1>7. Batch' /\ Alarm' /\ AlarmsGoOn'
  BY <1>t, <1>1 DEF Batch, Alarm, AlarmsGoOn, Alive
<1> QED
  BY <1>3, <1>4, <1>5, <1>6, <1>7 DEF AlarmInv

(* Bytes of a connection: the list with its timer put off.                 *)
LEMMA PutOff ==
    ASSUME AlarmInv, NEW f \in open, NEW ex, ex = [expire EXCEPT ![timer[f]] = now + 3 * Slot]
    PROVE  /\ ex \in [Timers -> Nat] /\ timer[f] \in allocated
           /\ ex[timer[f]] = now + 3 * Slot
           /\ \A u \in allocated \ {timer[f]} : ex[u] = expire[u]
           /\ Holds(AdjustTimer(timerLst, ex, timer[f]), ex, allocated)
           /\ \A u \in allocated : ex[u] <= now + 3 * Slot
           /\ alarmAt # 0 => \A u \in allocated : ex[u] > alarmAt - Slot
<1>t. AlarmTypes /\ OwnTimers /\ NoneBeyond /\ NotLate /\ Alarm
  BY DEF AlarmInv
<1>1. timer[f] \in allocated /\ timer[f] \in Timers
  BY <1>t DEF OwnTimers, AlarmTypes
<1>2. now + 3 * Slot \in Nat /\ now + 3 * Slot > alarmAt - Slot
  BY <1>t, SlotFacts DEF AlarmTypes, Alarm
<1>3. /\ ex \in [Timers -> Nat] /\ ex[timer[f]] = now + 3 * Slot
      /\ \A u \in allocated \ {timer[f]} : ex[u] = expire[u]
  BY <1>t, <1>1, <1>2 DEF AlarmTypes
<1>4. expire[timer[f]] <= ex[timer[f]]
  BY <1>t, <1>1, <1>3 DEF NoneBeyond
<1>5. Holds(AdjustTimer(timerLst, ex, timer[f]), ex, allocated)
  <2>1. Holds(timerLst, expire, allocated) /\ expire \in [Timers -> Nat]
    BY <1>t DEF AlarmInv, AlarmTypes
  <2> QED
    BY <1>1, <1>3, <1>4, <2>1, AdjustKeepsList
<1>6. \A u \in allocated : ex[u] <= now + 3 * Slot
  <2>1. now + 3 * Slot <= now + 3 * Slot
    BY <1>2
  <2> QED
    BY <1>t, <1>3, <2>1 DEF NoneBeyond
<1>7. alarmAt # 0 => \A u \in allocated : ex[u] > alarmAt - Slot
  BY <1>t, <1>2, <1>3 DEF NotLate
<1> QED
  BY <1>1, <1>3, <1>5, <1>6, <1>7

(* recv() has bytes: the timer of the connection is put off. *)
LEMMA DataStep ==
    ASSUME AlarmInv, NEW f \in Fds, ReadData(f)
    PROVE  AlarmInv'
<1>t. AlarmTypes /\ Batch /\ AlarmsGoOn /\ OwnTimers /\ NoneBeyond /\ NotLate /\ Alarm
  BY DEF AlarmInv
<1>1. /\ f \in open /\ data' = data \ {f} /\ batch' = batch \ {f}
      /\ UNCHANGED <<owner, allocated, timer, open, now, alarmAt, fin, pipe, ready, nret, timeout, stop, pc>>
  BY DEF ReadData, At, flags
<1>2. OwnTimers' /\ Batch' /\ Alarm' /\ AlarmsGoOn'
  BY <1>t, <1>1, SlotFacts DEF OwnTimers, Batch, Alarm, AlarmsGoOn, Alive
<1>3. expire' \in [Timers -> Nat] /\ Holds(timerLst', expire', allocated') /\ NoneBeyond' /\ NotLate'
  <2>1. CASE f \in data
    <3>1. /\ expire' = [expire EXCEPT ![timer[f]] = now + 3 * Slot]
          /\ timerLst' = AdjustTimer(timerLst, expire', timer[f])
      BY <2>1 DEF ReadData
    <3> QED
      BY <1>1, <3>1, PutOff DEF NoneBeyond, NotLate
  <2>2. CASE f \notin data
    <3>1. UNCHANGED <<expire, timerLst>>
      BY <2>2 DEF ReadData
    <3>2. now' \in Nat /\ now <= now'
      BY <1>t, <1>1 DEF AlarmTypes
    <3> QED
      BY <1>t, <1>1, <3>1, <3>2, TimersStay DEF AlarmTypes
  <2> QED
    BY <2>1, <2>2
<1>4. AlarmTypes'
  BY <1>t, <1>1, <1>3 DEF AlarmTypes
<1> QED
  BY <1>2, <1>3, <1>4 DEF AlarmInv

(* A connection that its peer closed: its timer leaves the list.           *)
LEMMA EndStep ==
    ASSUME AlarmInv, NEW f \in Fds, ReadEnd(f)
    PROVE  AlarmInv'
<1>t. AlarmTypes /\ Batch /\ AlarmsGoOn /\ OwnTimers /\ NoneBeyond /\ NotLate /\ Alarm
  BY DEF AlarmInv
<1> DEFINE ex == [expire EXCEPT ![timer[f]] = now + 3 * Slot]
<1>1. /\ f \in open /\ open' = open \ {f} /\ data' = data \ {f} /\ fin' = fin \ {f}
      /\ ready' = ready \ {f} /\ batch' = batch \ {f}
      /\ allocated' = allocated \ {timer[f]}
      /\ UNCHANGED <<owner, timer, now, alarmAt, pipe, nret, timeout, stop, pc>>
  BY DEF ReadEnd, At, Close, flags
<1>2. /\ expire' = IF f \in data THEN ex ELSE expire
      /\ timerLst' = DelTimer(IF f \in data THEN AdjustTimer(timerLst, expire', timer[f]) ELSE timerLst,
                              timer[f])
  BY DEF ReadEnd
<1> HIDE DEF ex
<1>3. \E l : /\ timerLst' = DelTimer(l, timer[f]) /\ Holds(l, expire', allocated)
             /\ expire' \in [Timers -> Nat]
             /\ \A u \in allocated \ {timer[f]} : expire'[u] = expire[u]
  <2>1. CASE f \in data
    <3>1. /\ ex \in [Timers -> Nat] /\ \A u \in allocated \ {timer[f]} : ex[u] = expire[u]
          /\ Holds(AdjustTimer(timerLst, ex, timer[f]), ex, allocated)
      BY <1>1, PutOff DEF ex
    <3>2. expire' = ex /\ timerLst' = DelTimer(AdjustTimer(timerLst, ex, timer[f]), timer[f])
      BY <1>2, <2>1
    <3> QED
      BY <3>1, <3>2
  <2>2. CASE f \notin data
    <3>1. expire' = expire /\ timerLst' = DelTimer(timerLst, timer[f])
      BY <1>2, <2>2
    <3>2. Holds(timerLst, expire, allocated) /\ expire \in [Timers -> Nat]
      BY <1>t DEF AlarmInv, AlarmTypes
    <3> QED
      BY <3>1, <3>2
  <2> QED
    BY <2>1, <2>2
<1>4. timer[f] \in allocated
  BY <1>t, <1>1 DEF OwnTimers
<1>5. Holds(timerLst', expire', allocated')
  BY <1>1, <1>3, <1>4, DelKeepsList
<1>6. \A u \in allocated' : u \in allocated /\ expire'[u] = expire[u]
  BY <1>1, <1>3
<1>7. NoneBeyond' /\ NotLate'
  BY <1>t, <1>1, <1>6 DEF NoneBeyond, NotLate
<1>8. AlarmTypes'
  BY <1>t, <1>1, <1>3 DEF AlarmTypes
<1>9. OwnTimers'
  BY <1>t, <1>1 DEF OwnTimers
<1>10. Batch' /\ Alarm' /\ AlarmsGoOn'
  BY <1>t, <1>1, SlotFacts DEF Batch, Alarm, AlarmsGoOn, Alive
<1> QED
  BY <1>5, <1>7, <1>8, <1>9, <1>10 DEF AlarmInv

(* A tick: the timers that have expired go, with the connections that are  *)
(* theirs; these are open, and the next alarm is set.                      *)
LEMMA TickEffect ==
    ASSUME AlarmInv, Tick
    PROVE  LET fired == {t \in allocated : expire[t] <= now}
               fds == {owner[t] : t \in fired}
           IN  /\ pc = "events" /\ pc' = "events" /\ ~timeout' /\ alarmAt' = now + Slot
               /\ fds \subseteq open
               /\ open' = open \ fds /\ data' = data \ fds /\ fin' = fin \ fds /\ ready' = ready \ fds
               /\ allocated' = allocated \ fired
               /\ Holds(timerLst', expire', allocated')
               /\ UNCHANGED <<expire, owner, timer, now, pipe, batch, nret, stop>>
<1> DEFINE fired == {t \in allocated : expire[t] <= now}
           fds == {owner[t] : t \in fired}
<1>1. Holds(timerLst, expire, allocated) /\ expire \in [Timers -> Nat] /\ now \in Nat /\ OwnTimers
  BY DEF AlarmInv, AlarmTypes
<1>2. Expired(timerLst, expire, now) = fired
  BY <1>1, TickFindsAll
<1>3. Holds(TickList(timerLst, expire, now), expire, allocated \ fired)
  BY <1>1, <1>2, TickKeepsList
<1>4. fds \subseteq open
  BY <1>1 DEF OwnTimers
<1> HIDE DEF fired
<1>5. /\ pc = "events" /\ pc' = (IF fds \subseteq open THEN pc ELSE "died")
      /\ timeout' = FALSE /\ alarmAt' = now + Slot
      /\ open' = open \ fds /\ data' = data \ fds /\ fin' = fin \ fds /\ ready' = ready \ fds
      /\ allocated' = allocated \ fired /\ timerLst' = TickList(timerLst, expire, now)
      /\ UNCHANGED <<expire, owner, timer, now, pipe, batch, nret, stop>>
  BY <1>2 DEF Tick, Close, NextAlarm
<1>6. Holds(timerLst', expire', allocated')
  BY <1>3, <1>5
<1> QED
  BY <1>4, <1>5, <1>6 DEF fired

(* The tick after SIGALRM: the timers that have expired go, with their     *)
(* connections.                                                            *)
LEMMA TickStep == ASSUME AlarmInv, Tick PROVE AlarmInv'
<1> DEFINE fired == {t \in allocated : expire[t] <= now}
           fds == {owner[t] : t \in fired}
<1>t. AlarmTypes /\ Batch /\ OwnTimers /\ NoneBeyond
  BY DEF AlarmInv
<1>1. /\ pc = "events" /\ pc' = "events" /\ ~timeout' /\ alarmAt' = now + Slot
      /\ fds \subseteq open
      /\ open' = open \ fds /\ data' = data \ fds /\ fin' = fin \ fds /\ ready' = ready \ fds
      /\ allocated' = allocated \ fired
      /\ Holds(timerLst', expire', allocated')
      /\ UNCHANGED <<expire, owner, timer, now, pipe, batch, nret, stop>>
  BY TickEffect
<1>2. now \in Nat /\ now + Slot \in Nat /\ now + Slot # 0 /\ (now + Slot) - Slot = now
      /\ timeout' \in BOOLEAN
  <2>1. timeout' = FALSE
    BY DEF Tick
  <2>2. now \in Nat /\ Slot \in Nat /\ Slot >= 1
    BY <1>t, SlotFacts DEF AlarmTypes
  <2>3. now + Slot \in Nat /\ now + Slot # 0 /\ (now + Slot) - Slot = now
    BY <2>2
  <2> QED
    BY <2>1, <2>2, <2>3
<1>3. \A t \in allocated' : t \in allocated /\ expire'[t] = expire[t] /\ expire[t] > now
  <2>1. \A t \in allocated : expire[t] \in Nat
    BY <1>t DEF AlarmTypes
  <2> QED
    BY <1>1, <1>2, <2>1
<1>4. NoneBeyond' /\ NotLate'
  BY <1>t, <1>1, <1>2, <1>3 DEF NoneBeyond, NotLate
<1>5. OwnTimers'
  <2>1. ASSUME NEW f \in open' PROVE timer[f] \in allocated' /\ owner[timer[f]] = f
    <3>1. f \in open /\ f \notin fds /\ timer[f] \in allocated /\ owner[timer[f]] = f
      BY <1>t, <1>1, <2>1 DEF OwnTimers
    <3>2. timer[f] \notin fired
      BY <3>1
    <3> QED
      BY <1>1, <3>1, <3>2
  <2>2. ASSUME NEW t \in allocated' PROVE owner[t] \in open' /\ timer[owner[t]] = t
    <3>1. t \in allocated /\ t \notin fired /\ owner[t] \in open /\ timer[owner[t]] = t
      BY <1>t, <1>1, <2>2 DEF OwnTimers
    <3>2. owner[t] \notin fds
      <4>1. \A u \in fired : timer[owner[u]] = u
        BY <1>t DEF OwnTimers
      <4> QED
        BY <3>1, <4>1
    <3> QED
      BY <1>1, <3>1, <3>2
  <2> QED
    BY <1>1, <2>1, <2>2 DEF OwnTimers
<1> HIDE DEF fds, fired
<1>6. AlarmTypes'
  BY <1>t, <1>1, <1>2 DEF AlarmTypes
<1>7. Batch' /\ Alarm' /\ AlarmsGoOn'
  <2>1. alarmAt' <= now' + Slot
    BY <1>1, <1>2
  <2> QED
    BY <1>t, <1>1, <1>2, <2>1 DEF Batch, Alarm, AlarmsGoOn
<1> QED
  BY <1>1, <1>4, <1>5, <1>6, <1>7 DEF AlarmInv

(* Every step keeps the invariant. *)
LEMMA AlarmStep == AlarmInv /\ [Next]_vars => AlarmInv'
<1> SUFFICES ASSUME AlarmInv, [Next]_vars PROVE AlarmInv'
  OBVIOUS
<1>1. CASE Advance \/ SigAlrm \/ SigTerm \/ Connect \/ \E f \in Fds : Send(f) \/ HangUp(f)
  BY <1>1, OutsideStep
<1>2. CASE EpollWait \/ EndOfBatch
  BY <1>2, WaitStep
<1>3. CASE Tick
  BY <1>3, TickStep
<1>4. CASE \E stale \in SUBSET {"ALRM", "TERM"} : ReadSignals(stale)
  BY <1>4, SignalsStep DEF Signals
<1>5. CASE \E f \in Fds, t \in Timers : Accept(f, t)
  BY <1>5, AcceptStep
<1>6. ASSUME NEW f \in Fds, ReadData(f) \/ ReadEnd(f) PROVE AlarmInv'
  BY <1>6, DataStep, EndStep
<1>7. ASSUME \/ UNCHANGED vars
             \/ \E f \in Fds : ReadClosed(f)
      PROVE  AlarmInv'
  <2>1. /\ UNCHANGED <<timerLst, expire, owner, allocated, timer, open, now, alarmAt, pipe, timeout, stop, data>>
        /\ UNCHANGED <<fin, ready, nret>>
        /\ batch' \subseteq batch /\ pc' \in {pc, "died"}
        /\ pc' # "died" => batch' = batch
    BY <1>7 DEF vars, clients, timers, flags, ReadClosed, At
  <2>2. AlarmTypes /\ Batch /\ AlarmsGoOn /\ Alarm
    BY DEF AlarmInv
  <2>3. now' \in Nat /\ now <= now'
    BY <2>1, <2>2 DEF AlarmTypes
  <2>4. Holds(timerLst', expire', allocated') /\ OwnTimers' /\ NoneBeyond' /\ NotLate'
    BY <2>1, <2>3, TimersStay
  <2>5. AlarmTypes' /\ Batch' /\ Alarm'
    BY <2>1, <2>2 DEF AlarmTypes, Batch, Alarm
  <2>6. AlarmsGoOn'
    BY <2>1, <2>2 DEF AlarmsGoOn, Alive
  <2> QED
    BY <2>4, <2>5, <2>6 DEF AlarmInv
<1> QED
  BY <1>1, <1>2, <1>3, <1>4, <1>5, <1>6, <1>7 DEF Next

(* The timers and the connections are as many, each with its own.          *)
LEMMA AsManyTimers ==
    ASSUME AlarmInv
    PROVE  Cardinality(allocated) = Cardinality(open)
<1> DEFINE own == [f \in open |-> timer[f]]
<1>1. own \in Bijection(open, allocated)
  BY DEF AlarmInv, OwnTimers, Bijection, Injection, Surjection, IsInjective
<1>2. IsFiniteSet(open) /\ ExistsBijection(open, allocated)
  BY <1>1, AlarmAssumption, FS_Subset DEF AlarmInv, AlarmTypes, ExistsBijection
<1> QED
  BY <1>2, FS_Bijection

(* What the invariant is for. *)
LEMMA AlarmInvShows == AlarmInv => WellLinked /\ TimerPerConnection /\ NotLate /\ AlarmsGoOn
<1> SUFFICES ASSUME AlarmInv PROVE WellLinked /\ TimerPerConnection /\ NotLate /\ AlarmsGoOn
  OBVIOUS
<1>1. WellLinked
  BY HoldsIsListOf DEF AlarmInv, AlarmTypes, WellLinked
<1>2. TimerPerConnection
  BY AsManyTimers DEF AlarmInv, OwnTimers, TimerPerConnection
<1> QED
  BY <1>1, <1>2 DEF AlarmInv

(* Whatever is added, adjusted, deleted and called back, the list of       *)
(* TimerList.cpp is sorted, linked both ways, and holds the timers that    *)
(* were not deleted: nothing leaks and nothing deleted is reachable.       *)
THEOREM WellLinkedHolds == Spec => []WellLinked
BY AlarmInit, AlarmStep, AlarmInvShows, PTL DEF Spec

(* Each open connection has one live timer, its own, and there are no      *)
(* others: main.cpp adds and deletes them as it accepts and closes.        *)
THEOREM TimerPerConnectionHolds == Spec => []TimerPerConnection
BY AlarmInit, AlarmStep, AlarmInvShows, PTL DEF Spec

(* No timer that had expired at the last tick is left, however late the    *)
(* tick came.                                                              *)
THEOREM NotLateHolds == Spec => []NotLate
BY AlarmInit, AlarmStep, AlarmInvShows, PTL DEF Spec

(* The alarms never stop while the server is to run, though the loop over  *)
(* the signals runs to the number of events (main.cpp:123): the first byte *)
(* is always among those it sees.                                          *)
THEOREM AlarmsGoOnHolds == Spec => []AlarmsGoOn
BY AlarmInit, AlarmStep, AlarmInvShows, PTL DEF Spec

-----------------------------------------------------------------------------
(* The deadline of each connection, as the abstract specification has it.  *)
Due == [f \in Fds |-> IF f \in open THEN expire[timer[f]] ELSE Null]

(* The deadlines that IdleTimers.tla is given, one by one. *)
LEMMA DueValue ==
    /\ DOMAIN Due = Fds /\ DOMAIN Due' = Fds
    /\ \A g \in Fds : /\ Due[g] = IF g \in open THEN expire[timer[g]] ELSE Null
                      /\ Due'[g] = IF g \in open' THEN expire'[timer'[g]] ELSE Null
    /\ Due = [g \in Fds |-> Due[g]] /\ Due' = [g \in Fds |-> Due'[g]]
BY DEF Due

(* A deadline that is set anew, and no other. *)
LEMMA DueSet ==
    ASSUME NEW f \in Fds, NEW d, \A g \in Fds : Due'[g] = IF g = f THEN d ELSE Due[g]
    PROVE  Due' = [Due EXCEPT ![f] = d]
<1> DEFINE new == [Due EXCEPT ![f] = d]
<1>1. DOMAIN new = Fds /\ \A g \in Fds : new[g] = IF g = f THEN d ELSE Due[g]
  BY DueValue
<1>2. new = [g \in Fds |-> new[g]]
  BY DueValue
<1> HIDE DEF new
<1>3. Due' = [g \in Fds |-> Due'[g]]
  BY DueValue
<1>4. [g \in Fds |-> Due'[g]] = [g \in Fds |-> new[g]]
  BY <1>1
<1> QED
  BY <1>2, <1>3, <1>4 DEF new

(* A new connection has a deadline of three slots, and no other changes.   *)
LEMMA AcceptRefines ==
    ASSUME AlarmInv, NEW f \in Fds, NEW t \in Timers, Accept(f, t)
    PROVE  IT!Set(f)
<1>1. AlarmTypes /\ OwnTimers
  BY DEF AlarmInv
<1>2. /\ f \notin open /\ t \notin allocated /\ now' = now
      /\ open' = open \union {f} /\ timer' = [timer EXCEPT ![f] = t]
      /\ expire' = [expire EXCEPT ![t] = now + 3 * Slot]
  BY DEF Accept
<1>3. /\ timer'[f] = t /\ expire'[t] = now + 3 * Slot
      /\ \A g \in open : g # f /\ timer'[g] = timer[g] /\ timer[g] # t /\ timer[g] \in Timers
  BY <1>1, <1>2 DEF AlarmTypes, OwnTimers
<1>4. \A g \in open : expire'[timer'[g]] = expire[timer[g]]
  BY <1>1, <1>2, <1>3 DEF AlarmTypes
<1>5. \A g \in Fds : Due'[g] = IF g = f THEN now + 3 * Slot ELSE Due[g]
  BY <1>2, <1>3, <1>4, DueValue
<1>6. Due' = [Due EXCEPT ![f] = now + 3 * Slot]
  BY <1>5, DueSet
<1> QED
  BY <1>2, <1>6 DEF IT!Set, Due

(* Bytes put the deadline of their connection off, and no other.           *)
LEMMA DataRefines ==
    ASSUME AlarmInv, NEW f \in Fds, ReadData(f)
    PROVE  IT!Set(f) \/ UNCHANGED IT!vars
<1>1. AlarmTypes /\ OwnTimers
  BY DEF AlarmInv
<1>2. f \in open /\ UNCHANGED <<now, open, timer>>
  BY DEF ReadData
<1>3. CASE f \in data
  <2>1. expire' = [expire EXCEPT ![timer[f]] = now + 3 * Slot]
    BY <1>3 DEF ReadData
  <2>2. expire'[timer[f]] = now + 3 * Slot
    BY <1>1, <1>2, <2>1 DEF AlarmTypes, OwnTimers
  <2>3. \A g \in open : g # f => expire'[timer'[g]] = expire[timer[g]]
    <3>1. \A g \in open : g # f => timer[g] # timer[f] /\ timer[g] \in Timers
      BY <1>1, <1>2 DEF AlarmTypes, OwnTimers
    <3> QED
      BY <1>1, <1>2, <2>1, <3>1 DEF AlarmTypes
  <2>4. \A g \in Fds : Due'[g] = IF g = f THEN now + 3 * Slot ELSE Due[g]
    BY <1>2, <2>2, <2>3, DueValue
  <2>5. Due' = [Due EXCEPT ![f] = now + 3 * Slot]
    BY <2>4, DueSet
  <2> QED
    BY <1>2, <2>5 DEF IT!Set, Due
<1>4. CASE f \notin data
  <2>1. expire' = expire
    BY <1>4 DEF ReadData
  <2> QED
    BY <1>2, <2>1 DEF IT!vars
<1> QED
  BY <1>3, <1>4

(* A connection that its peer closes has no deadline any more.             *)
LEMMA EndRefines ==
    ASSUME AlarmInv, NEW f \in Fds, ReadEnd(f)
    PROVE  IT!Drop(f)
<1>1. AlarmTypes /\ OwnTimers
  BY DEF AlarmInv
<1>2. /\ f \in open /\ open' = open \ {f} /\ now' = now /\ timer' = timer
      /\ expire' = IF f \in data THEN [expire EXCEPT ![timer[f]] = now + 3 * Slot] ELSE expire
  BY DEF ReadEnd, Close
<1>3. \A g \in open : g # f => timer[g] # timer[f] /\ timer[g] \in Timers
  BY <1>1, <1>2 DEF AlarmTypes, OwnTimers
<1>4. \A g \in open : g # f => expire'[timer'[g]] = expire[timer[g]]
  BY <1>1, <1>2, <1>3 DEF AlarmTypes
<1>5. \A g \in Fds : Due'[g] = IF g = f THEN Null ELSE Due[g]
  BY <1>2, <1>4, DueValue
<1>6. Due' = [Due EXCEPT ![f] = Null]
  BY <1>5, DueSet
<1> QED
  BY <1>2, <1>6 DEF IT!Drop, Due

(* A tick closes exactly the connections whose deadline has come.          *)
LEMMA TickRefines ==
    ASSUME AlarmInv, Tick
    PROVE  IT!Tick
<1> DEFINE fired == {t \in allocated : expire[t] <= now}
           fds == {owner[t] : t \in fired}
<1>1. AlarmTypes /\ OwnTimers
  BY DEF AlarmInv
<1>2. open' = open \ fds /\ UNCHANGED <<now, timer, expire>>
  BY TickEffect
<1>3. \A g \in open : g \in fds <=> expire[timer[g]] <= now
  <2> SUFFICES ASSUME NEW g \in open PROVE g \in fds <=> expire[timer[g]] <= now
    OBVIOUS
  <2>1. timer[g] \in allocated /\ owner[timer[g]] = g /\ \A u \in allocated : timer[owner[u]] = u
    BY <1>1 DEF OwnTimers
  <2>2. ASSUME expire[timer[g]] <= now PROVE g \in fds
    BY <2>1, <2>2
  <2>3. ASSUME g \in fds PROVE expire[timer[g]] <= now
    <3>1. PICK v \in fired : g = owner[v]
      BY <2>3
    <3>2. timer[g] = v
      BY <2>1, <3>1
    <3> QED
      BY <3>1, <3>2
  <2> QED
    BY <2>2, <2>3
<1> HIDE DEF fds, fired
<1>4. \A g \in Fds : Due'[g] = IF Due[g] # Null /\ Due[g] <= now THEN Null ELSE Due[g]
  <2> SUFFICES ASSUME NEW g \in Fds
               PROVE  Due'[g] = IF Due[g] # Null /\ Due[g] <= now THEN Null ELSE Due[g]
    OBVIOUS
  <2>1. CASE g \in open
    <3>1. Due[g] = expire[timer[g]] /\ expire[timer[g]] \in Nat
      BY <1>1, <2>1, DueValue DEF AlarmTypes, OwnTimers
    <3>2. Due[g] # Null
      BY <3>1, SlotFacts
    <3>3. CASE Due[g] <= now
      <4>1. g \notin open'
        BY <1>2, <1>3, <2>1, <3>1, <3>3
      <4> QED
        BY <3>2, <3>3, <4>1, DueValue
    <3>4. CASE ~ (Due[g] <= now)
      <4>1. g \in open'
        BY <1>2, <1>3, <2>1, <3>1, <3>4
      <4> QED
        BY <1>2, <3>1, <3>4, <4>1, DueValue
    <3> QED
      BY <3>3, <3>4
  <2>2. CASE g \notin open
    BY <1>2, <2>2, DueValue
  <2> QED
    BY <2>1, <2>2
<1>5. Due' = [g \in Fds |-> IF Due[g] # Null /\ Due[g] <= now THEN Null ELSE Due[g]]
  BY <1>4, DueValue
<1>6. IT!Expired = {g \in Fds : Due[g] # Null /\ Due[g] <= now}
  BY DEF IT!Expired, Due
<1>7. Due' = [g \in Fds |-> IF g \in IT!Expired THEN Null ELSE Due[g]]
  BY <1>5, <1>6
<1> QED
  BY <1>2, <1>7 DEF IT!Tick, Due

(* Every step is one of IdleTimers.tla, or changes neither the time nor a  *)
(* deadline.                                                               *)
LEMMA RefinedStep == AlarmInv /\ [Next]_vars => [IT!Next]_(IT!vars)
<1> SUFFICES ASSUME AlarmInv, [Next]_vars PROVE [IT!Next]_(IT!vars)
  OBVIOUS
<1>1. CASE Advance
  <2>1. now \in Nat
    BY DEF AlarmInv, AlarmTypes
  <2>2. now' > now /\ UNCHANGED <<open, timer, expire>>
    BY <1>1, <2>1 DEF Advance, timers
  <2> QED
    BY <2>2 DEF IT!Next, IT!Pass
<1>2. ASSUME \/ SigAlrm \/ SigTerm \/ Connect \/ EpollWait \/ EndOfBatch \/ UNCHANGED vars
             \/ \E stale \in SUBSET {"ALRM", "TERM"} : ReadSignals(stale)
             \/ \E f \in Fds : Send(f) \/ HangUp(f) \/ ReadClosed(f)
      PROVE  UNCHANGED IT!vars
  <2>1. UNCHANGED <<now, open, timer, expire>>
    BY <1>2 DEF SigAlrm, SigTerm, Connect, EpollWait, EndOfBatch, vars, ReadSignals, Send, HangUp, ReadClosed,
       timers
  <2> QED
    BY <2>1 DEF IT!vars
<1>3. CASE Tick
  BY <1>3, TickRefines DEF IT!Next
<1>4. CASE \E f \in Fds, t \in Timers : Accept(f, t)
  BY <1>4, AcceptRefines DEF IT!Next
<1>5. CASE \E f \in Fds : ReadData(f) \/ ReadEnd(f)
  BY <1>5, DataRefines, EndRefines DEF IT!Next
<1> QED
  BY <1>1, <1>2, <1>3, <1>4, <1>5 DEF Next

(* The server is what the comment of TimerList.cpp:74-77 is about: every   *)
(* connection has a deadline that its activity pushes back, and a tick     *)
(* closes exactly those whose deadline has come.                           *)
THEOREM ImplementsHolds == Spec => ImplementsIdleTimers
<1>1. Init => IT!Init
  BY DEF Init, IT!Init
<1> QED
  BY <1>1, AlarmInit, AlarmStep, RefinedStep, PTL DEF Spec, ImplementsIdleTimers, IT!Spec
=============================================================================
