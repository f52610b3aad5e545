---------------------------- MODULE ContainerUse ----------------------------
(* One container per behaviour, called in every order, beside a sequence   *)
(* that says what it should hold.                                          *)
EXTENDS Containers, FiniteSets, TLC

CONSTANTS
    InitialSize,    \* nmem of the constructors
    LowWater,       \* NMEM_LOWAT, and the 32 of pq_pop()
    MaxSize         \* bound: elements in a container that grows

(* The priority queue's values can be compared, NULL is no node, and an    *)
(* array starts with room: doubling none gives none.                       *)
ContainerAssumption ==
    /\ Values \subseteq Int /\ Null \notin Nodes
    /\ InitialSize \in Nat \ {0} /\ LowWater \in Nat /\ MaxSize \in Nat

VARIABLES
    container,
    c,              \* the container
    contents,       \* what it should hold, in the order it should go
    ret, should     \* what the last call returned, and should have

vars == <<container, c, contents, ret, should>>

Init ==
    /\ \/ container = "array_queue" /\ c = ArrqCreate(InitialSize)
       \/ container = "list_queue" /\ \E head \in Nodes : c = ListqCreate(head)
       \/ container = "array_stack" /\ c = ArrstackCreate(InitialSize)
       \/ container = "priority_queue" /\ c = PqCreate(InitialSize)
    /\ contents = <<>> /\ ret = Null /\ should = Null

(* Where a value goes: behind those that leave before it *)
Insert(v) ==
    LET before == CASE container = "array_stack" -> 0
                    [] container = "priority_queue" -> Cardinality({k \in DOMAIN contents : contents[k] >= v})
                    [] OTHER -> Len(contents)
    IN  SubSeq(contents, 1, before) \o <<v>> \o SubSeq(contents, before + 1, Len(contents))

Full == Len(contents) = IF container = "array_queue" THEN InitialSize ELSE MaxSize

Call(result) == c' = result.c /\ ret' = result.ret /\ UNCHANGED container

PushTo(v) ==
    \/ container = "array_queue" /\ Call(ArrqEnqueue(c, v))
    \/ container = "list_queue" /\ \E n \in Nodes \ c.used : Call(ListqEnqueue(c, v, n))
    \/ container = "array_stack" /\ Call(ArrstackPush(c, v))
    \/ container = "priority_queue" /\ Call(PqPush(c, v))

Push(v) ==
    /\ container # "array_queue" => ~Full
    /\ PushTo(v)
    /\ contents' = IF Full THEN contents ELSE Insert(v)
    /\ should' = IF Full THEN Failed ELSE Null

OutOfMemory(v) ==
    /\ container = "list_queue" /\ Call(ListqEnqueue(c, v, Null))
    /\ should' = Failed /\ UNCHANGED contents

PopFrom ==
    \/ container = "array_queue" /\ Call(ArrqDequeue(c))
    \/ container = "list_queue" /\ Call(ListqDequeue(c))
    \/ container = "array_stack" /\ Call(ArrstackPop(c, LowWater))
    \/ container = "priority_queue" /\ Call(PqPop(c, LowWater))

Pop ==
    /\ PopFrom
    /\ should' = IF contents = <<>> THEN Failed ELSE Head(contents)
    /\ contents' = IF contents = <<>> THEN <<>> ELSE Tail(contents)

(* The first to leave, without taking it *)
Peek ==
    /\ container \in {"array_stack", "priority_queue"}
    /\ ret' = IF container = "array_stack" THEN ArrstackTop(c) ELSE PqTop(c)
    /\ should' = IF contents = <<>> THEN Failed ELSE Head(contents)
    /\ UNCHANGED <<container, c, contents>>

Next == (\E v \in Values : Push(v) \/ OutOfMemory(v)) \/ Pop \/ Peek

Spec == Init /\ [][Next]_vars

Symmetry == Permutations(Nodes)

-----------------------------------------------------------------------------
(* A queue is first in, first out, a stack last in, first out, and the     *)
(* priority queue gives a greatest element first; a call that cannot fails *)
(* and changes nothing.  Wherever the ring's indices are, however often    *)
(* the arrays grew and shrank, in whatever order values came.              *)
(* Sizes are right, the memory that is used was allocated, and the list    *)
(* lets go of exactly the nodes it does not need; its back is its last.    *)
ContainersAgree ==
    /\ ret = should
    /\ CASE container = "array_queue" ->
               ArrqSize(c) = Len(contents) /\ ArrqContents(c) = contents
         [] container = "list_queue" ->
               /\ c.size = Len(contents) /\ Cardinality(c.used) = c.size + 1
               /\ ListqContents(c) = contents
               /\ {c.front, c.back} \subseteq c.used /\ c.mem[c.back].next = Null
         [] container = "array_stack" ->
               /\ c.iput = Len(contents) /\ c.iget = c.iput - 1
               /\ c.iput <= c.nmem /\ DOMAIN c.arr = 0 .. c.nmem - 1
         [] container = "priority_queue" ->
               /\ c.iput = Len(contents)
               /\ c.iput <= c.nmem /\ DOMAIN c.arr = 0 .. c.nmem - 1
=============================================================================
