----------------------------- MODULE Containers -----------------------------
(***************************************************************************)
(* The containers of the library: array_queue.c, list_queue.c,             *)
(* array_stack.c and priority_queue.c.  An operation is an operator on the *)
(* record that stands for the C structure; `ret' is what the call returns: *)
(* Failed for -1, Null for a value when there is none to return.  Arrays   *)
(* start at 0.  What malloc()ed memory holds before it is written is       *)
(* Garbage.                                                                *)
(***************************************************************************)
EXTENDS Integers, Sequences

CONSTANTS
    Values,     \* what is stored: integers, for the priority queue
    Nodes,      \* memory of the list
    Null, Garbage, Failed

Elements == Values \union {Garbage}

Done(c, r) == [c |-> c, ret |-> r]

-----------------------------------------------------------------------------
(* array_queue.c: a ring of one place more than it may hold.               *)
ArrqCreate(nmem) ==
    [arr |-> [k \in 0 .. nmem |-> Garbage], iput |-> 0, iget |-> 0, nmem |-> nmem + 1]

ArrqSize(q) == IF q.iput >= q.iget THEN q.iput - q.iget ELSE q.nmem - (q.iget - q.iput)
ArrqEmpty(q) == q.iget = q.iput
ArrqFull(q) == (q.iput + 1) % q.nmem = q.iget

(* Slip: full when every place is taken, which looks like empty *)
ArrqEnqueueNoGap(q, v) ==
    IF ArrqSize(q) = q.nmem THEN Done(q, Failed)
    ELSE Done([q EXCEPT !.arr[q.iput] = v, !.iput = (@ + 1) % q.nmem], Null)

ArrqEnqueue(q, v) ==
    IF ArrqFull(q) THEN Done(q, Failed)
    ELSE Done([q EXCEPT !.arr[q.iput] = v, !.iput = (@ + 1) % q.nmem], Null)

ArrqDequeue(q) ==
    IF ArrqEmpty(q) THEN Done(q, Failed)
    ELSE Done([q EXCEPT !.iget = (@ + 1) % q.nmem], q.arr[q.iget])

ArrqContents(q) == [k \in 1 .. ArrqSize(q) |-> q.arr[(q.iget + k - 1) % q.nmem]]

-----------------------------------------------------------------------------
(* list_queue.c: a list with a head node; `mem' holds its nodes.           *)
NoNode == [next |-> Null, val |-> Garbage]

ListqCreate(head) ==
    [mem |-> [n \in Nodes |-> NoNode], used |-> {head}, front |-> head, back |-> head, size |-> 0]

ListqEmpty(q) == q.size = 0

(* malloc() returns a node that is free, or NULL *)
ListqEnqueue(q, v, n) ==
    IF n = Null THEN Done(q, Failed)
    ELSE Done([q EXCEPT !.mem = [@ EXCEPT ![n] = [next |-> Null, val |-> v], ![q.back].next = n],
                        !.used = @ \union {n}, !.back = n, !.size = @ + 1], Null)

(* Slip: the last node goes and back still points to it *)
ListqDequeueDangling(q) ==
    LET todelete == q.mem[q.front].next
    IN  IF ListqEmpty(q) THEN Done(q, Failed)
        ELSE Done([q EXCEPT !.mem = [@ EXCEPT ![q.front].next = q.mem[todelete].next,
                                              ![todelete] = NoNode],
                            !.used = @ \ {todelete}, !.size = @ - 1],
                  q.mem[todelete].val)

ListqDequeue(q) ==
    LET todelete == q.mem[q.front].next
    IN  IF ListqEmpty(q) THEN Done(q, Failed)
        ELSE Done([q EXCEPT !.mem = [@ EXCEPT ![q.front].next = q.mem[todelete].next,
                                              ![todelete] = NoNode],
                            !.used = @ \ {todelete}, !.size = @ - 1,
                            !.back = IF q.size = 1 THEN q.front ELSE @],
                  q.mem[todelete].val)

ListqContents(q) ==
    LET at[k \in 0 .. q.size] == IF k = 0 THEN q.front ELSE q.mem[at[k - 1]].next
    IN  [k \in 1 .. q.size |-> q.mem[at[k]].val]

-----------------------------------------------------------------------------
(* array_stack.c: the array is doubled when full, halved when less than    *)
(* half is used, down to LowWater (NMEM_LOWAT).                            *)
ArrstackCreate(nmem) ==
    [arr |-> [k \in 0 .. nmem - 1 |-> Garbage], iget |-> -1, iput |-> 0, nmem |-> nmem]

ArrstackSize(s) == s.iput

(* realloc(): what fits is kept *)
Resize(s, nmem) ==
    [s EXCEPT !.arr = [k \in 0 .. nmem - 1 |-> IF k \in DOMAIN s.arr THEN s.arr[k] ELSE Garbage],
              !.nmem = nmem]

ArrstackPush(s, v) ==
    LET room == IF ArrstackSize(s) >= s.nmem THEN Resize(s, s.nmem * 2) ELSE s
    IN  Done([room EXCEPT !.arr[s.iput] = v, !.iput = @ + 1, !.iget = @ + 1], Null)

(* Slip: halved when not full, and so is what is in use *)
ArrstackPopTight(s, LowWater) ==
    LET less == [s EXCEPT !.iget = @ - 1, !.iput = @ - 1]
    IN  IF s.iput = 0 THEN Done(s, Failed)
        ELSE Done(IF ArrstackSize(less) < s.nmem /\ s.nmem > LowWater THEN Resize(less, s.nmem \div 2)
                  ELSE less, s.arr[s.iget])

ArrstackPop(s, LowWater) ==
    LET less == [s EXCEPT !.iget = @ - 1, !.iput = @ - 1]
    IN  IF s.iput = 0 THEN Done(s, Failed)
        ELSE Done(IF ArrstackSize(less) < s.nmem \div 2 /\ s.nmem > LowWater
                  THEN Resize(less, s.nmem \div 2) ELSE less, s.arr[s.iget])

ArrstackTop(s) == IF s.iput = 0 THEN Failed ELSE s.arr[s.iget]

ArrstackContents(s) == [k \in 1 .. s.iput |-> s.arr[k - 1]]

-----------------------------------------------------------------------------
(* priority_queue.c: a heap; pf is >= here.  It grows and shrinks as the   *)
(* stack does.                                                             *)
PqCreate(nmem) == [arr |-> [k \in 0 .. nmem - 1 |-> Garbage], iput |-> 0, nmem |-> nmem]

PqSize(q) == q.iput
Swap(a, i, j) == [a EXCEPT ![i] = a[j], ![j] = a[i]]

(* To the root while the parent is less: (k - 1) / 2 is 0 for the root, C   *)
(* rounds towards 0, and the loop ends since pf holds of equals            *)
Swim(a, k) ==
    LET up[x \in [DOMAIN a -> Elements] \X DOMAIN a] ==
            LET b == x[1]
                i == x[2]
                j == IF i = 0 THEN 0 ELSE (i - 1) \div 2
            IN  IF b[j] >= b[i] THEN b ELSE up[<<Swap(b, i, j), j>>]
    IN  up[<<a, k>>]

(* Slip: always to the left *)
SinkLeft(a, k, N) ==
    LET down[x \in [DOMAIN a -> Elements] \X Nat] ==
            LET b == x[1]
                i == x[2]
                j == 2 * i + 1
            IN  IF j >= N \/ b[i] >= b[j] THEN b ELSE down[<<Swap(b, i, j), j>>]
    IN  down[<<a, k>>]

(* Towards the leaves, to the side of the larger child *)
Sink(a, k, N) ==
    LET down[x \in [DOMAIN a -> Elements] \X Nat] ==
            LET b == x[1]
                i == x[2]
                left == 2 * i + 1
                j == IF left < N - 1 /\ ~(b[left] >= b[left + 1]) THEN left + 1 ELSE left
            IN  IF left >= N \/ b[i] >= b[j] THEN b ELSE down[<<Swap(b, i, j), j>>]
    IN  down[<<a, k>>]

PqPush(q, v) ==
    LET room == IF PqSize(q) = q.nmem THEN Resize(q, q.nmem * 2) ELSE q
    IN  Done([room EXCEPT !.arr = Swim([@ EXCEPT ![q.iput] = v], q.iput), !.iput = @ + 1], Null)

PqPop(q, LowWater) ==
    LET n == q.iput - 1
        less == [q EXCEPT !.arr = Sink(Swap(@, 0, n), 0, n), !.iput = n]
    IN  IF q.iput = 0 THEN Done(q, Failed)
        ELSE Done(IF n < q.nmem \div 2 /\ q.nmem > LowWater
                  THEN Resize(less, q.nmem \div 2) ELSE less, q.arr[0])

PqTop(q) == IF q.iput = 0 THEN Failed ELSE q.arr[0]
=============================================================================
