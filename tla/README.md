# A verification development for My-HPLSP

My-HPLSP is a set of programs and a library written along a book on
high-performance Linux servers: TCP and UDP clients and servers, event loops
over `select`, `poll` and `epoll`, timer containers, process and thread pools,
a chat room and an HTTP server.  This directory holds TLA+ models of that code,
the TLC configurations that check them and proofs of their main properties.

All source paths below are relative to `src/code/`.

## Contents

| file | what it is |
| --- | --- |
| `TaskQueue.tla` | abstract: what the worker pool promises |
| `ThreadPool.tla`, `MCThreadPool.tla`, `MCThreadPool{,Live}.cfg` | the worker pool, call by call |
| `ThreadPoolProofs.tla` | theorems about the pool, proved with TLAPS |
| `HttpServer.tla`, `MCHttpServer.tla`, `MCHttp{Server,Live,Orphan}.cfg` | event loop, workers and ownership of connection objects |
| `RequestLines.tla` | reference: what the lines of a request are |
| `HttpParse.tla` | the request parser, as actions beside that reference |
| `HttpConn.tla` | one connection: parsing, response, partial writes |
| `RequestReader.tla` | the sample that reads one request |
| `MCHttpConn.tla`, `.cfg` | runs `HttpConn` and `RequestReader` |
| `HttpServerProofs.tla`, `HttpConnProofs.tla` | theorems about the server and about these two |
| `IdleTimers.tla` | abstract: what the timer containers promise |
| `TimerList.tla`, `TimerWheel.tla` | the linked list and the wheel of timers, as operators on their links |
| `AlarmServer.tla`, `MCAlarmServer.*` | the server that closes idle connections on SIGALRM |
| `TimerListProofs.tla`, `AlarmServerProofs.tla` | theorems about the list's operations and that server |
| `EpollLoop.tla` | what the three servers that close them on epoll's timeout share |
| `TimerListLoop.tla`, `TimerHeapLoop.tla`, `TimerWheelLoop.tla`, `MCIdleServers.*` | those three servers |
| `IdleServersProofs.tla` | theorems about list, heap and wheel with epoll timeouts |
| `ChatPoll.tla` | the chat room in one process over `poll`, and its client |
| `ChatShm.tla` | the chat room with a process per user and shared memory |
| `ProcessPool.tla` | the CGI process pool |
| `MCProcesses.*` | runs `ChatShm` and `ProcessPool` |
| `MCProcessPool.*` | runs `ProcessPool` alone, under fairness |
| `ProcessesProofs.tla` | theorems about both |
| `EchoClient.tla`, `DatagramClient.tla` | the TCP and the UDP echo clients with their servers |
| `Containers.tla`, `ContainerUse.tla` | the library's containers as operators; all orders of calls on them |
| `MCPrograms.tla`, `MCPrograms.cfg`, `MCChatEcho.cfg` | runs `ChatPoll`, `EchoClient`, `DatagramClient` and `ContainerUse` |
| `ProgramsProofs.tla` | theorems about those four |
| `PROJECT.json` | components, runs, mutants, map to the source, findings, hazards, theorems |

`tlc -config X.cfg M` with the pairs of PROJECT.json's "runs" repeats a check,
`tlapm` on each `*Proofs.tla` the proofs.

Programs of the repository that do not talk to each other share a run: an MC module
with a variable `program` (or `kind`) chooses one of them in its initial state,
the variables of the others keep their initial values, and each program keeps its own
module, specification and properties.

## The system and its inventory

### HTTP server (`src-cpp/http_server/`)

A half-sync/half-reactive server.  Its parts:

- **the main thread** (`main.cpp`): `epoll_wait`, then per event: `accept` and
  `http_conn::init`; `close_conn` on a hang-up; `read` and `append` on EPOLLIN;
  `write` on EPOLLOUT.  State: the event array, `stop`, `m_user_cnt`.
- **the worker pool** (`threadpool.h`, `synchronize.h`): a queue under a mutex, a
  semaphore counting tasks, detached workers that loop in `run()`.
- **connection objects** (`http_conn.*`, the array `users[]` indexed by
  descriptor): read buffer with three indices, parser state, response buffer,
  mapped file.  No lock of their own: registrations are EPOLLET | EPOLLONESHOT,
  and a thread that is done with the object re-arms (`modfd`) or closes it.
- **the kernel**: descriptors, reused as soon as they are closed, epoll's
  registrations and ready list, socket buffers.

What is hard: two threads share an object with nothing but the order of
`epoll_ctl` calls between them; descriptors outlive what they meant; requests
arrive in any fragments; responses leave in any fragments; queue, descriptor
table and buffers fill up.

What makes it right: no accepted task is lost, duplicated or reordered and
`append` never hangs; one thread at a time uses an object; a remembered
descriptor still means the same client; no connection is left with nobody
responsible for it; the parser's verdict does not depend on how the bytes were
split; a response arrives once and whole.

`src-cpp/http_server1/` replaces the semaphore by a condition variable; see "What is
left out".  `src/http_read/` is an earlier reader of requests: one process, one
buffer, a verdict.

### Timer containers and servers that close idle connections

| part | state | operations |
| --- | --- | --- |
| `src-cpp/timerlist/TimerList.cpp` | doubly linked list sorted by expiry | add, adjust, del, tick |
| `src-cpp/timerheap/TimerHeap.cpp` | heap; `del` only clears the callback | add, del (lazy), tick, pop |
| `src-cpp/timerwheel/TimerWheel.cpp` | 60 slots, each a doubly linked list | add, adjust, del, tick |
| `src-cpp/timerlist/main.cpp` | SIGALRM through a pipe ("unified event source") | accept, data, signal, tick |
| `src-cpp/timerlist_epoll/main.cpp`, `timerheap/server.cpp`, `timerwheel/main.cpp` | epoll_wait's timeout | accept, data, end, timeout |

What is hard: links through every order of operations, objects referred to from
the container and from `users[]`, timeouts recomputed after each event, ticks in
the middle of a batch.  What makes it right: a timer fires once, not before its
time, within a tick after it, and not after it was deleted; nothing deleted is
reachable; the loop never waits for ever while a timer is set.

### Chat room (`src/chatroom/`)

`chatroom_srv.c`: one process over `poll`, at most 6 users, a read buffer per
descriptor and a pointer to the message to be written; the array of descriptors
is compacted when a user leaves.  `chatroom_srv1.c`: a child per user, messages in
a shared memory segment by user index, indices passed over socket pairs, user
records compacted by the parent, SIGCHLD and SIGTERM through a pipe.  What makes
them right: array, count and records agree with the open descriptors whoever leaves
in whatever order; a message is read, and reaches the users other than its sender;
children that end are waited for.

### CGI process pool (`src-cpp/cgi_conn/`)

A parent that watches the listening socket and announces connections over
socket pairs to children, round robin; children `accept` and run a program;
signals through a pipe in each process.  What makes it right: an announcement finds
a connection; programs and children that ended are waited for; a pool that is
told to stop stops.

### Library (`lib/`, `include/`)

Containers (`array_queue.c`, `list_queue.c`, `array_stack.c`, `priority_queue.c`);
exact and buffered reads and writes (`readn`, `writen`, `readline`); clients that
copy between standard input and a socket in the style of a loop, `select`,
nonblocking buffers, two processes or two threads (`str_cli*.c`), and over UDP with
and without timeouts (`dg_cli.c`); the servers that echo (`str_echo.c`, `dg_echo.c`);
`connect` with a timeout; wrappers of single system calls.  What makes the clients
right: what is shown is what was typed, in order; the end of input and the end of
the server are both noticed, though buffers are full or nobody types.

### Samples (`src/`, `src-cpp/reactor.cpp`, ...)

Programs that demonstrate one technique or one system call each.

## The models

Conventions.  An action is one step of one thread or process, with its label in
`pc` or the like; it can be preempted between any two actions.  Variables keep the
source's names without the `m_`.  Operators under a comment that starts with `Slip:`
are not part of a specification: each is a plausible mistake in the definition that
follows it, used to confirm that a property can fail (PROJECT.json, "mutants").
Definitions that a comment calls external model the kernel, the network or users from
how the code uses them.

### TaskQueue and ThreadPool

`ThreadPool` follows `append()` and `run()` call by call: `lock`, `size`, `push`,
`unlock`, `post`; `wait`, `lock`, `empty`, `front`, `pop`, `unlock`, the null test,
`process`.  `locker` is the mutex's owner, `queuestat` the semaphore's value.
`sem_wait` may be interrupted by a signal handler (`Interruptible`); `run()` ignores
its result, so an interrupted worker goes on without a token.  The server
installs its handlers with SA_RESTART, the pool's header does not know that:
both values are checked.  In the server only `main()` calls `append()`; the class
allows any number of callers, and so does the model.  `submitted`, `refused`,
`pushed`, `taken` and `processed` are history.

`TaskQueue` is the specification of the comment at `threadpool.h:31-32`: accept
below the bound, refuse at it, hand out in order, finish.  `ThreadPool` implements
it under the mapping at the end of that module: `pending` is the queue, `running` the
tasks between `pop` and the end of `process`, `done` those processed or discarded.

### HttpServer

Composes the main thread, workers, connection objects and the kernel.  The
pool appears as the atomic queue of `TaskQueue`, which the refinement above
justifies.  `interest[fd]` is an epoll registration (`"off"` after a ONESHOT
report), `lready` the pending edge of `listenfd`, `batch` the events already
returned and not handled.  A handle (in events, queue entries and `cur`) is what
the code has, the descriptor, plus the connection it meant when it was taken,
which the code cannot see and `NoStaleHandle` compares.  `close_conn` is five
steps, `m_user_cnt++` and `--` a load and a store each, because other threads act in
between.  A request is abstracted to segments (`"part"`, `"end"`); what parsing them
gives is a choice of `ParseMore`, `ParseReply`, `ParseFail`, constrained by whether
the request is whole.  Details of parsing and writing are in `HttpConn`.

### HttpParse, HttpConn and RequestReader

`HttpParse` has `parse_line` as an operator on the buffer and an index, and one
action per case of `process_read`.  A client's bytes are a sequence over CR, LF and
letters (a request line, two headers and other bytes), and `Read` appends any
non-empty part of what is left, so every fragmentation is explored.  The
reference (`RequestLines`, with `WholeRequest` and `BadRequest`) says what the request
is from all bytes at once.  `HttpConn` extends it to the response: `process_write`,
`writev` that takes any number of bytes or fails, keep-alive with `init()`, `unmap`.
`Writev` sends from the start of `m_iov` each time, as the code does, and the loop
compares what was sent with `m_write_idx` only.

`RequestReader` is `http_read/server.c` and `http_read.c` over the same bytes and
the same reference.  Its buffer is not cleared between connections, so the byte that
line 36 looks at may be one of another client's: `beyond` is any byte.  A full
buffer makes `read` return 0, which the program takes for the end.

### IdleTimers, TimerList and AlarmServer

`IdleTimers` is the promise: a connection has a deadline, activity moves it, a tick
closes exactly those whose deadline has come.  `TimerList` translates
`TimerList.cpp` into operators from the list before a call to the list after it,
on the links of every object (`next`, `prev`, `head`, `tail`), the ones freed
included: memory is reused by the next `new Timer`, as descriptors are by the next
`accept`.

`AlarmServer` is `timerlist/main.cpp` around it: the handler's byte in the socket
pair, epoll's ready list as a set (edge-triggered: an entry leaves it when it
is reported), a batch handled event by event in whatever order, the tick after the
event that carried SIGALRM, `alarm()` set again by each tick.  Time goes on between any two
events.  `ReadSignals` has the loop that runs to the number of events instead of the
number of bytes: bytes beyond may be missed, and the uninitialized rest of the
array may hold any signal.  `pc = "died"` is `err_sys`.  All deadlines are `now + 3 *
TIMESLOT`, as in the servers, so `add_timer` always appends; its other two branches
are translated but not reached.

### EpollLoop and the three loops over it

`EpollLoop` has clients, epoll's edges, `epoll_wait` with a timeout, `accept`, reading,
closing; `TimerListLoop`, `TimerHeapLoop` and `TimerWheelLoop` add what each server does
to its timers (`tm`) and to `timeout` after an event, and `tick()`.  Which timer a
connection has is `timer` (`users[fd].timer`).  Seconds are the unit, since `time()`
is; `Slow` says whether a batch may take longer than one.

- The list loop reuses `TimerList`.  Its `Rest` subtracts the time since `start` from
  `timeout` once per event and never resets it, because the test at
  `timerlist_epoll/main.cpp:112` is of `time`, the library function.
- The heap is the set of timers in it, since what `std::priority_queue` promises is
  its top; a timer that `del_timer` disarmed stays until it is on top (`Pruned`).
- `TimerWheel` keeps slots and links as the code writes them, with the `next` and
  `prev` that `adjust_timer()` leaves behind when the new slot is empty
  (`TimerWheel.cpp:60`); the first access to an object that is not allocated ends
  the behaviour (`bad`, `pc = "undefined"`), and nothing is claimed from there on.
  The history field `stray` says that such a link was left behind.  `Rounds` is the
  loop of `tick()`, one round per timer it meets, `From` the walk along `next`.

List and heap implement `IdleTimers` with `due` mapped to each open connection's own
expiry; the wheel counts slots, not seconds, and is held to `Sound` instead: each open
connection has one allocated timer, its own, and no other is allocated, always; and as
long as no link is astray its timer is in the list of its slot.

### ChatPoll

One action per branch of the loop over `fds[]`: accept, refusal, error, leaving with
its two compactions (`users[fds[i].fd] = users[fds[user_cnt].fd]`, `fds[i] =
fds[user_cnt]`, `--i`), read with the broadcast, write.  A message is known by its
author; `buf` is what a user's read buffer holds and `writebuf` the descriptor whose
buffer is to be written, so that overwriting a buffer that somebody still points to
shows.  The client program may leave with unread data, which resets the connection.

### ChatShm and ProcessPool

Both have a parent that learns of signals through a pipe and of connections through
edge-triggered epoll, and children with an epoll of their own.  A SIGCHLD merges with
one that is raised already; its handler adds a byte to the pipe; a byte gives an
edge; one read takes what is there.  `kid` is where a child is, down to "zombie"
(exited, not waited for) and back.  In `ChatShm`, `up` and `down` are the indices on a
user's socket pair, `shm` whose message a part of the memory holds.  In
`ProcessPool`, `kpipe` counts announcements, `ksigs` are the signals in a child's pipe,
and a connection's program runs, ends and is waited for.  `ReadSignals` of the pool
has the loop that runs to `nret` (`ProcessPool.h:158`), with any byte where the array
was not written.

### EchoClient and DatagramClient

A line is a number.  `EchoClient` has six clients over one connection with bounded
buffers (`Cap` lines each way) and `str_echo()` at its other end, which may be killed;
reads and writes take any part.  `str_cli_nblk` has its two buffers and four pointers;
`str_clip`'s child and `str_clit`'s main thread are `Reader`, their sender is `Sender`.
`DatagramClient` has the six clients of `dg_cli.c` that wait for answers, `dg_echo()`, a
network that loses and delays but does not reorder, and a stranger that sends to the
client's port.  A timeout may come whenever nothing has arrived.

### Containers and ContainerUse

`Containers` is one operator per function, on the record that stands for the C
structure, with indices, capacities, links and the memory's contents.  `ContainerUse`
calls them in every order beside a sequence of what the container should hold.

## The runs

| run | instance | shows |
| --- | --- | --- |
| `pool` | 2 producers, 2 workers, 3 tasks (1 null), bound 2, interruptible waits | `NoLostTask`, `Fifo`, `Bounded`, `ExactlyOneOwner`, refinement of `TaskQueue` |
| `pool_live` | the same with bound 1 and no interruption, fair | `ExactTokens`; accepted tasks are processed; `append` returns |
| `http` | 2 connections, 2 descriptors, 2 workers, 2 segments each | `OneOwner`, `NoStaleHandle`, `OutHasResponse`, `NotStranded` |
| `http_live` | 2 connections, 1 descriptor, every limit 1, fair | `HangUpIsNoticed` |
| `http_orphan` | as `http` | violated: `NeverOrphaned` |
| `conn` | every stream of at most 6 bytes over CR, LF, G; 6 longer requests; file of 0-2 bytes, header of 1-3; reader's buffer of 9 | `LinesResume`, `VerdictIsSound`, `NoNeedlessWait`, `MappingOutlivesWrite`, `HeaderArrives`, `ReaderVerdict` |
| `alarm` | 3 descriptors, 3 timers, 5 inputs, 4 tick periods | `WellLinked`, `TimerPerConnection`, `NotLate`, `AlarmsGoOn`, refinement of `IdleTimers` |
| `idle` | list, heap and wheel (3 slots); 3 descriptors, 5 timers, 5 inputs, 4 seconds | `TimerPerConnection`, `HeapWaitEnds`, refinement of `IdleTimers` by list and heap |
| `processes` | chat room: 3 clients, limit 2, 1 message, 1 SIGTERM; pool: 2 children, 2 clients, 1 segment, 1 SIGTERM or ^C | `RecordsMatch`, `ZombieIsNoticed`, `AcceptFinds`, `ProgramIsNoticed` |
| `pool_stops` | pool: 2 children, 1 client, fair | violated: `PoolStops` |
| `programs` | chat room: 3 clients, limit 2, 2 messages; TCP clients: 6 lines, buffers of 2; UDP clients: 4 lines, 2 strays; containers of up to 5 values out of 3; fair | `EntriesAgree`, `MessagesAreRead`; `OutputIsEcho`, `ErrorMeansKilled`, `NoticesKill`, `EndsAfterInput`; `AnswersInStep`; `ContainersAgree` |
| `chat_echo` | as `programs` | violated: `NoEcho` |

Bounds and why they are enough.

- *Pool*: the races need two appenders, two workers and a task more than the
  queue holds; the theorems cover every other size.
- *Server*: interference is between two threads on one object, or over one reused
  descriptor: two connections, two descriptors and two workers give each pair a
  bystander.  `MaxSend = 2` fills the buffer of 2 segments, so `read()` sees it full;
  `MaxEvents = 2` is below the three things that can be ready; `MaxFd = 1` in
  `http_live` reaches the refusal of `main.cpp:67`.  `http` takes `MaxTask` = number of
  descriptors: below that, `append` can fail (Findings).
- *Connection*: 6 bytes contain two whole lines and every placement of a stray CR or
  LF, at every fragmentation; the long streams add headers, a body, a body
  containing CR LF, and bytes after the request.  Header and file lengths of 1-3
  and 0-2 put the end of a `writev` before, at and after the header's.  The sample
  reader's buffer of 9 holds a request with a header and fills up with the longer
  ones.
- *Alarm server and idle servers*: a list of three has a head, a middle and a tail to
  adjust and delete; five inputs are three connections and two sends, hang-ups or
  SIGTERMs; a deadline is three periods away (two seconds, for the heap), so four
  periods let timers of different ages expire together, one by one, and after an
  adjustment.  The heap takes a new timer for every read: five.  The wheel has three
  slots and a delay of one, so that it turns full circle; with a delay below the
  number of slots `rot` is 0, as it is in the server, whose timeout is far below the
  wheel's turn.
- *Chat rooms and process pool*: two users fill the room, the third is refused or takes
  the place of one that left; who leaves is not the last, or is; two messages are one
  in a buffer and one that overwrites it.  Two children and two clients: the round
  robin, two announcements to one child, a child that ends before the other.
- *TCP clients*: six lines are more than the socket and the server hold of both
  directions (two, one and two), so a client that writes without reading blocks.
  `Cap >= MaxLine`: see Assumptions.
- *UDP clients*: four lines leave room for two answers that are late by a line or two
  and a loss between them.
- *Containers*: a ring of four places turns over; capacities grow from 3 and shrink
  at a low-water mark of 3 (32 in the source); five values make a heap of three levels.

`CHECK_DEADLOCK FALSE` throughout: clients may stop for good, tasks run out, and a
program that waits for input stops there rightly.

Fairness.  Weak fairness for each thread or process: the kernel runs one that can
run, and delivers signals.  It is not assumed that a thread waiting for a mutex wins
against a stream of competitors; there are finitely many tasks, so competition ends.
Clients, users, `append`'s caller, the destructor, signals that somebody sends and
the network have no fairness: nothing makes them act.  In `HttpServer`, `MainStep` is
one weakly fair action, so the main thread may choose among events for ever but must
act.  In `DatagramClient` fairness includes that time passes while a client waits in
`select()` or with SO_RCVTIMEO.

## Assumptions

- TCP and pipes keep order and integrity of bytes; `write` to a socket of the chat
  room or a reply of the samples takes all it is given.
- UDP loses and delays datagrams; that it may also reorder them is left out of
  `AnswersInStep`, which the clients could not promise otherwise.
- `str_cli3()` comes to an end after a large input because what it has sent and not
  read back fits: `Cap >= MaxLine`, that is, the kernel holds at least MAXLINE bytes
  of one direction.  With smaller buffers client and server wait for each other.
- `HeapWaitEnds` takes each batch to be handled within its second (`Slow = FALSE`).
  With `Slow = TRUE` the top of the heap may expire during a batch; `next_clock()` then
  returns a negative timeout and `epoll_wait()` waits until the next event.
- In `ContainerUse` the arrays' `realloc` and `malloc` succeed; the list's `malloc` may
  fail.  A container is created with room for at least one element
  (`ContainerAssumption`): an array of none doubles to none, and the next push writes
  behind it.
- `NotStranded` takes the queue of the pool to have room for every descriptor: 12000
  tasks and a limit of descriptors below that, as common systems have it.

## Findings

Three runs end in a counterexample; each states what a comment or note in the
repository says, quoted in PROJECT.json.

1. `http_orphan`: `close_conn()` closes the descriptor before it writes
   `m_sockfd = -1`.  A worker preempted in between writes it into the object of
   the next client on that descriptor, which is then neither served nor closed.
2. `pool_stops`: the parent of the process pool reads `nread` signals and handles
   `nret` of them, the number of epoll's events.  After ^C, SIGTERM and SIGCHLD read
   in a batch of one event leave the SIGCHLD unhandled: the children stay zombies and
   the parent waits for ever.
3. `chat_echo`: a user leaves, and its record is overwritten with the last user's,
   buffer included, to which the last user's own `writebuf` may point: it gets its own
   message back.

Stated in the modules with what the source says and refuted by TLC, without a run of
their own:

- `EveryoneIsAccepted` (`HttpServer`): one `accept()` per edge of an edge-triggered
  `listenfd`; of two clients that connect together one waits until a third comes
  (2 connections, 1 worker, `FairSpec`).
- `NotStranded` with `MaxTask` = 1: the result of `append()` is ignored; with a full
  queue the connection stays disarmed for good.
- `BodyIsRecognized` (`HttpParse`): when a body arrives in two reads, `parse_line()` runs
  over the first part and the wait for the rest never ends.
- `DeliveredIsResponse` (`HttpConn`): after a short `writev` the next one starts at the
  beginning again.
- `ActiveIsKept` (`AlarmServer`): the tick runs in the middle of a batch and closes a
  connection whose data is a later event of the batch; at that event the server exits.
- `ForcedToReturn` (`MCIdleServers`): `timerlist_epoll/main.cpp:5-10` has `epoll_wait`
  return every TIMESLOT seconds; line 112 tests `time`, the function, instead of
  `timeout`, which may become negative: the wait is then endless.
- `InItsSlot` (`TimerWheelLoop`): a timer moved to an empty slot keeps its old `next`, so
  the tick of its new slot walks on into the list of the old one.  With 6 connections, 4
  slots and a delay of 2 a timer is met in the list of another slot than its own, too
  early or too late, with no freed memory accessed on the way.

Seen while modelling, in the models where they matter, and of no property:

- `m_user_cnt` is changed by several threads without a lock and drifts (the model has
  the separate loads and stores); `~threadpool()` sets `m_stop` without waking workers
  asleep in `sem_wait`.
- `http_read.c:36` looks at the byte behind an LF, not at the one before it.
- `cgi_conn/server.cpp:51`: the test of `errno` is always true, so a request that
  arrives in two parts closes the connection.
- `src/unify_event.c` and `chatroom_srv1.c` read one int or one buffer per edge: what has
  merged into one edge waits for the next.
- `str_cli_nblk.c:77` returns at the server's end without what `rcvbuf` still holds
  (`OutputIsEcho` asks a prefix of it only); `str_cli1()` returns at ^D;
  `str_clip`'s parent may reach `pause()` after the only signal that ends it, and
  `str_clit` may read `iseof` before its thread sets it (`EndsAfterInput` leaves out the
  one, `ErrorMeansKilled` the other).
- `dg_cli.c:49`: a SIGALRM that comes between `alarm()` and `recvfrom()` interrupts
  nothing, and the wait has no end (`SigAlrmTooEarly`); a late answer puts all that
  follow out of step by a line, which `AnswersInStep` bounds and cannot exclude.
- `list_queue.c:97,104`: `front` and `back` copy from the start of a node, which is its
  link, not its value; they are not modelled.

## What is proved

Every safety property, action property and refinement that a passing run checks is also a
theorem of TLAPS, for every value of the constants that the modules' assumptions allow:
any number of clients, threads, descriptors, timers and messages, any sizes and bounds,
streams and containers of any length.  The theorems are about the specifications the
runs use, so that their bounds (`MaxSend`, `MaxNow`, ...) are constants like the others.
What the modules' ASSUMEs say beyond "these names are different", "this set is finite" and
"this number is positive" is under "Assumptions".

| module | properties proved of the specification | other theorems |
| --- | --- | --- |
| `ThreadPoolProofs` | `TypeOK`, `Fifo`, `Bounded`, `ExactlyOneOwner`, `NoLostTask`, `ExactTokens`, `ImplementsTaskQueue` | `Invariance` |
| `HttpServerProofs` | `OneOwner`, `NoStaleHandle`, `OutHasResponse`, `NotStranded` (if the queue has room for all) | `TypeCorrect` |
| `HttpConnProofs` | `LinesResume`, `VerdictIsSound`, `NoNeedlessWait`, `MappingOutlivesWrite`, `HeaderArrives`, `ReaderVerdict` | `TypeCorrect` |
| `TimerListProofs` | | `AddKeepsList`, `DelKeepsList`, `AdjustKeepsList`, `TickFindsAll`, `TickKeepsList`, `HoldsIsListOf`: each operation of the list |
| `AlarmServerProofs` | `WellLinked`, `TimerPerConnection`, `NotLate`, `AlarmsGoOn`, `ImplementsIdleTimers` | |
| `IdleServersProofs` | `TimerPerConnection`, `HeapWaitEnds` (if `~Slow`), `ImplementsIdleTimers` | `ListTimerPerConnection`, `HeapTimerPerConnection`, `HeapRefines`, `TickTWIs`, `ChainIs` |
| `ProcessesProofs` | `RecordsMatch`, `ZombieIsNoticed`, `AcceptFinds`, `ProgramIsNoticed` | |
| `ProgramsProofs` | `EntriesAgree`, `OutputIsEcho`, `ErrorMeansKilled`, `AnswersInStep`, `ContainersAgree` | |

The proofs are laid out alike: an inductive invariant in named parts, one lemma for each
kind of step that says what is left of each part, a lemma that goes through the actions,
one that the invariant shows the property, and the theorem.  Few of the properties are
inductive; what had to be added is what one has to know of the code to trust it.

### The worker pool

The inductive invariant `Safe` has named parts.  `Mutex`: a thread between `lock`
and `unlock` owns the mutex.  `Fresh`: what was read under it is still so - a
thread about to push has room, one about to pop has a non-empty queue whose head
it read.  `Fifo` itself and `Bounded`.  `Distinct`, `Carried`, `Owned`: a task is in
one place, be it an `append` in progress, the queue, a worker's hands or the past;
`ExactlyOneOwner` needs them because it speaks of the end of a task's life only.

The semaphore needs a second invariant, `Accounting`: the queue's length is at most
the semaphore's value plus workers that consumed a token and have not popped plus
appends that have not posted, with equality when waits are not interrupted.
`Move` says how one step changes the number of threads at some labels, `Balanced`
disposes of the steps that change no count.

For the refinement, `Known` shows that a task being appended is new to `TaskQueue`,
`Invisible` that most steps change nothing the mapping sees, `Released` what the end
of a task does; `StepRefines` then maps `AppendPush` to `Accept`, `AppendFull` to
`Refuse`, `RunPop` to `Start`, `RunNull` on a null task and `RunProcess` to `Finish`,
and every other step to a stutter.

### The HTTP server

`Exclusive`: a descriptor is in the hands of one thread, one queue entry or one event of
the batch.  It is kept because of `Interests`: whatever is in such hands is registered
with nothing to report (ONESHOT), with the exceptions that `MainInterest` lists - the main
thread adds a descriptor, reads and writes through it, closes it.  `Held`: there is a
connection behind each number in someone's hands, so that `accept` cannot return the
number; that is `NoStaleHandle`.  `Responds` carries `OutHasResponse` over the events.
`NotStranded` adds `BatchHandled` and counts: the queue's entries have different
descriptors, so it has room (`RoomForAll`) for the one about to be appended.

### Requests and responses

`parse_line` and the reference are compared for streams of every length.  The reference
enumerates line ends; `LinesAt(s, UpTo(s, n))` is what a prefix of n bytes has for lines,
and lemmas about `Rank` show how it grows by one line.  `LinesInv`: the lines taken are
those up to `m_start_line`, what lies between it and `m_check_idx` is plain, and the parser
waits only when no other line has ended.  `HeadInv` says what these lines are in each
state of the parser and under each verdict.  `OutInv` has the mapping, and what the peer
has after one `writev`.  `ReaderInv` does the same for the sample reader until it meets a
LF without CR: from there on the byte beyond its data decides, and `ReaderVerdict` claims
only what holds for either value of it.

### Timers

`TimerListProofs` has the list as a witness: `Holds(l, ex, S)` says there is an order of the
objects S that `next` follows, `prev` follows back, and in which expiries ascend.
Each operation turns one witness into another (`Insert`, `Remove`), and `HoldsIsListOf`
returns to the definition that the runs check.  All three branches of `add_timer` and all
four cases of `del_timer` are covered, those that the servers do not reach included.

`AlarmInv`: the list holds the allocated timers; each is that of its open connection
(`OwnTimers`); none is due beyond what a timer set now would be (`NoneBeyond`), so
the list's order survives each adjustment, and what a tick leaves was not due.
`AlarmsGoOn` is inductive with `Batch`, since the first byte of the pipe is always seen.

The heap adds `Waits`: the wait ends by the time the first timer expires, whatever was
lazily deleted.  `ListInv` is `AlarmInv` without the signals.  Both refinements map the
tick to `Tick` with the connections it closes, and the rest to moves of one deadline.

For the wheel, `Chained` has a rank for each timer that ascends along `next`: links agree
both ways within a slot and no list is a ring.  `Ticking` is the invariant of the loop of
`tick()`, which frees the timers it calls back while it walks.  `Clean` keeps all
this until a link is astray; `WheelOwners` holds beyond, because whose a timer is does not
depend on links.  `ChainIs` shows that walking as many steps as there are timers finds all
of a slot, since ranks differ.

### Chat rooms, pools and clients

- `PollInv`: an open descriptor has one entry of `fds[]` and an entry an open descriptor,
  through both compactions; an entry waits for input, or for room with something to write.
- `ChatInv`: `sub` is the inverse of the sequence of records, by position, as children
  end in any order.  `PoolInv` counts: announcements not yet consumed, plus the edge of
  the listening socket, do not exceed the connections waiting (`Announced`).
- `EchoInv`: every buffer between typing and showing holds a run of consecutive line
  numbers that starts where the one in front of it ends (`GoesThere`, `ComesBack`).
- `DgInv`: shown, on the way back and on the way there is one ascending sequence, and the
  client is ahead of it by no more lines than it gave up.

### Containers

`RingInv` says at which index the k-th value is, on either side of the turn.  `StackInv` has
capacity and indices.  `ListInv` has the thread of nodes as a witness, from the dummy at
the front to the back, all of them in use and different.  `PqInv`: the array is a heap, and
there is a bijection between its places and the descending sequence of what it
should hold (`Holds`).  `SwimIs` and `SinkIs` restore the heap when one place is out of
order.  `swim` and `sink` are recursive functions, so `LoopFunction` first shows that such
a function exists - for any loop, by its finite runs - and both then go by the least
place at which they would fail.

### Only model-checked

The liveness properties `AcceptedIsProcessed`, `AppendReturns`, `HangUpIsNoticed`,
`MessagesAreRead`, `NoticesKill` and `EndsAfterInput`: the prover has neither fairness nor
ENABLED.  The three violations of "Findings" are counterexamples and nothing to prove.

Some definitions have the form they have because proofs are about them: `ProcessPool`,
`ChatShm` and `AlarmServer` keep batches as sets, which allows every order of events
and not only the kernel's; `TimerList` finds a predecessor without recursion;
`RequestLines` has `InOrder`, and `AnswersInStep` indices instead of a subsequence;
`Swim` and `Sink` are functions of one pair.  The invariants are written with witnesses
(an order, a rank, a bijection) where the checked properties compute.

## What is left out, and why

- `src-cpp/http_server1/`: `run()` of `threadpool1.h` calls `unlock()` at line 112 where
  it would have to call `lock()`.  Unlocking a mutex that another thread holds, waiting
  on a condition without its mutex and changing a `std::list` from two threads are all
  undefined: a model would have to allow every outcome and could promise none.  Its
  `http_conn` is the one modelled but for a `modfd()` before a close.
- Exiting while workers run (`http_server/main.cpp:87-92`): `exit()` ends the model; the
  reads of freed objects before that are undefined and nothing is promised about them.
- Requests longer than the buffer in `HttpConn` (in `HttpServer`, `Read` covers the
  full buffer); methods, paths and statuses beyond their effect on control.
- File system errors between `stat`, `open` and `mmap` in `do_request`: the code does
  not test for them, and which verdict follows does not matter to the properties.
- `dg_clix()` and `dg_echox()`, a flood of datagrams and a counter of them; `readn` and
  `writen`, compiled only where MSG_WAITALL is missing; `writeable_timeo()`.
- `connect_timeo`, `connect_nblk`: one call each with no state that outlives it, a choice
  between the kernel's outcomes.  (An early return of `connect_nblk` leaves the socket
  open and nonblocking.)
- Destructors of the containers, and `front` and `back` of the list queue (above).
- `epoll_oneshot.c`, `unify_event.c`, `epoll_et.c`, `libevent_*`, `reactor.cpp` and the
  programs that demonstrate `splice`, `tee`, urgent data, `sigwait` or load: the
  techniques occur in the servers modelled (EPOLLONESHOT in `HttpServer`, signals through
  a pipe in `AlarmServer`, `ChatShm` and `ProcessPool`), the rest is pure input and
  output.
- Wrappers of single system calls, daemon and error helpers: no state of their own.

## Plan

The models cover the parts listed above and the theorems what the runs check of them.
What is left:

1. *Refinements for what has none*: the containers and the chat room have invariants
   that name what they should hold; abstract specifications beside `TaskQueue` and
   `IdleTimers` would say it without their variables.
2. *Why the exceptions are exceptions*: lemmas that say under which condition a refuted
   property holds - `EveryoneIsAccepted` with one arrival per edge, `InItsSlot` until a
   link is astray, `DeliveredIsResponse` with one `writev`.
3. *The wheel's promise*: a refinement of `IdleTimers` that counts ticks, for behaviours
   without a stray link.
4. *Shorter proofs*: `HttpConnProofs` and `ProgramsProofs` state some facts about sequences
   that belong in a module of their own.
