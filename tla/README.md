# A formal model of shared-bike

TLA+ models of the shared-bike repository: what its parts promise, model-checked
with TLC on small instances and, all but liveness (section 5), proved with TLAPS for every
value of the constants. `PROJECT.json` is the index: the
components, the runs, the source lines of each definition, the mutants that each
property must notice, the hazards, the findings and the theorems. File names
below are relative to the repository's root; the server's own code is in `src/`
of the repository.

## 1. Inventory

### The server (`src/`)

One main thread runs `libevent` callbacks and, after each round, drains a queue of
responses. A pool of detached worker threads runs the requests. Three objects
connect them: the queue of the pool, the response queue, and the
`ConnectSession` of each connection, whose address travels with an event
through both queues and back.

| component | state | operations | correct if |
|---|---|---|---|
| thread pool: `thread_pool.cpp` | list of tasks, signed counter `waiting`, `max_queue`, mutex and condition variable, a task number | `thread_pool_init`, `thread_task_post`, `thread_pool_cycle`, `thread_pool_destroy` | no wakeup is lost; tasks run once and in order; what is accepted is run; destruction waits for all of it and returns |
| connection framing: `NetworkInterface.cpp` | per connection: `session_stat`, `req_stat`, header and body read so far | `listener_cb`, `handle_request`, `handle_error`, `send_response_message`, `session_reset` | however the stream is cut, each event has the body of one packet; a connection is refused if and only if its packet is bad |
| server core: `NetworkInterface.cpp`, `DispatchMsgService.cpp`, `main.cpp` | sessions by address, events in the pool, the response queue, `svr_exit_`, the subscribers, `queue_mutex` | `open`, callbacks, `enqueue`, `svc`, `handleAllResponseEvent`, `close` | every client gets the responses to its own requests, once, in order; accepted requests are answered; nobody waits for ever; closing uses nothing that is gone |
| user requests: `user_event_handler.cpp`, `user_service.cpp`, `sqlconnection.cpp` | `m2c_` (verification code of each number), the table `userinfo` | `handle_mobile_code_req`, `handle_login_req`, `exist`, `insert` | nobody is stored, or told of success, whose request did not carry the code in force for its number; a number is stored once |
| event numbering: `ievent.cpp` | a static counter that all threads increment without a lock | `generateSeqNo` | the number tells two events of one kind apart (it does not: finding `numbers`) |
| start-up, configuration, logging | options, tables, log | `BusinessProcessor::init`, `Iniconfig`, `Logger` | sequential; nothing races with it |

How they interact: `handle_request` makes an event, puts the session's address in
it and calls `enqueue` -> `thread_task_post`, ignoring the result. A worker runs
`svc`, which calls the subscribed handler and appends the response under
`queue_mutex`. `network_dispatch` runs the callbacks once, then
`handleAllResponseEvent` takes responses one at a time and, through the address,
calls `send_response_message`, which resets the session. `handle_error` frees the
session on end of file, error or the 20 s timeout.

What is hard there: a signal that precedes the append, workers that overtake each
other, an exit task on the stack of the destroying thread, and a counter that is not
the length of the queue it limits; partial reads over several callbacks; sessions
freed while their event is away; results that are ignored; a database that fails
before or after it stores; check and insertion as two statements; a service that is
closed while workers are inside it.

### The other programs of the repository

| component | state and operations | status |
|---|---|---|
| `mem_pool/`: nginx-style region allocator | chain of blocks, `current`, failure counters, list of large allocations; create, `ngx_palloc` and its relatives, `ngx_pfree`, reset, destroy | modelled |
| `threadInfo/threadpool`: the same pool in C with a demo owner | as the thread pool | covered by `ThreadPool` |
| `multiplexing/epoll/epoll_framework`: handlers per descriptor over epoll, with an echo server | `fd_table`, `epoll_state`, timeouts, a `ConnectStat` per connection; registration, the loop, four handlers | modelled |
| `multiplexing/poll`, `multiplexing/select`: echo servers of one character, with their client | one `ch` for all clients, the interest of each descriptor; `accept`, `read`, `write`, `close` | modelled |
| `multiplexing/epoll/epoll_web_server`: a form and its answer over epoll | per connection the next handler and the name and age last filled in, in fields of 64 bytes; reading, two page handlers | modelled |
| `test/`: two interactive clients of the bike server | the code last read; typed commands, response callback | modelled |
| `threadInfo/thread_synchronous_mutex`: semaphore and mutex demos | a shared buffer, two semaphores; a shared counter | the two semaphore programs are modelled |
| `threadInfo/thread_create_destroy`, `fork/`, `sharedmem/`, `signal/`, `udpCom/` | short examples of system calls | not modelled (section 6) |
| protobuf output, libevent, iniparser, log4cpp, MySQL | vendored or generated | only as the server uses them |

Hard there: one character variable for many clients; one read taken for one request; copies into
fixed fields that look at no length;
peers that reset a connection; handlers that close descriptors while events for them
wait; a clock that is read once per round; a shared buffer between two semaphores; a
list kept in memory that a reset takes back.

## 2. Modules

```
TaskPool <--- implemented by --- ThreadPool <- ThreadPoolProofs
   ^  ^
   |  +--- INSTANCE (st, order, phase) --- Dispatch <- DispatchProofs
   +------ INSTANCE (st, order, phase) --- BikeServer <- BikeServerProofs

Session  <--- implemented by --- Connection <- MCConnection, ConnectionProofs
UserLogin <- UserLoginProofs
UserLogin, Dispatch --- EXTENDS in ---> MCService
MemPool <- MCMemPool, MemPoolProofs
EpollFramework <- EpollFrameworkProofs
EchoServers, WebServer, LineRelay, TestClients --- INSTANCE in ---> MCPrograms <- ProgramsProofs
```

There are two abstract specifications. `TaskPool` is what a thread that posts tasks may
rely on, without mutex, condition variable, counter or exit tasks; `ThreadPool` is the
code and is shown to implement it. `BikeServer` and `Dispatch` use the pool only through
`TaskPool`, so that there are no mutexes in their state spaces. `Session` is what a client
may rely on for its connection, without bytes, buffers or session states; `Connection` is
the code and is shown to implement it. `BikeServer` has whole requests of several clients.
`UserLogin` is what the workers do inside a handler, step by step. The MC modules add symmetry
sets, the enumeration of client scripts, in `MCService` the choice of the service's life or its
handlers and in `MCPrograms` the choice of one of four small programs; the other modules are checked as
they are.

### ThreadPool (`src/thread_pool.cpp`, `thread_cond.cpp`)

Every access to the list, to `waiting` and to the task number is made with
`tp->mtx` held. A critical section is therefore one step, and it is split where the
code gives the mutex up, in `thread_cond_wait`. A worker is in

| `pc` | the code is |
|---|---|
| `"unborn"` | before `pthread_create` |
| `"lock"` | about to take the mutex at the head of the loop |
| `"wait"` | inside `pthread_cond_wait`, blocked |
| `"woken"` | inside `pthread_cond_wait`, signalled or woken spuriously, waiting for the mutex |
| `"run"` | outside the critical section with a task |
| `"exited"` | gone, through `thread_pool_exit_handler` |

`Enter` is the first critical section of a turn (`waiting--`, then sleep or take),
`Resume` the return of the wait. `Enqueue` is the critical section of
`thread_task_post` with its order: number, signal, append, `waiting++`. The owner
thread creates (`CreateThread` one at a time, and `CreateFails` for any failing call of
`thread_pool_init`), posts, and destroys: `PostPill` posts the exit task, `SpinEnds` is
the end of the `while (lock)` loop, `PillOverflows` the return in the middle when the
exit task is refused. A worker takes any step only while the memory of the pool is
live: after `CreateFails` in the middle of creating threads, those that were created run on freed memory,
of which nothing is defined; the model stops them there, and no property speaks of them. `Finished` is a self-loop in the states where the program may really
stop, so that TLC's deadlock check stays on everywhere else.

What the model shows about the counter: `waiting` is decremented *before* a worker
waits, so it equals the length of the queue less the workers that have
decremented and not yet taken (`WaitingIsAccurate`). The overflow test therefore
bounds the queue not by `max_queue` but by `max_queue` plus those workers
(`QueueBound`, which is reached); and an idle pool has a negative counter. That is harmless,
but not what the name and the message of the test suggest.

### Connection (`handle_request` and the functions around it)

A byte is its position in the client's stream, so that misreading, skipping or
repeating one is visible. `header` and `read_buf` are the positions read so far, `pos`
the bytes consumed, `arrived` the bytes that have reached the bufferevent. One action
per way in which `handle_request` returns: `WrongState`, `ReadHeader`, `RejectHeader`,
`ReadMessage`, `DispatchRequest`, `RejectRequest`. `inflight` abstracts the pool: the
event is `"queued"` or `"lost"` (overflow).

`Session` (the abstract side) looks at the next packet when the last is answered, makes a
request of a good one, ends the connection for a bad one, and ends every connection at
last. The refinement maps each event back to the packet whose body it has (`PacketOf`), so
that a body read one byte early or late is no step of `Session`.

### BikeServer

`heap` maps addresses to sessions, `args` is the address that an event carries, and a freed
address may be given to the next session. `InCallbacks` and `mainpc` are the two halves of
`network_dispatch`: no callback runs while responses are drained. Where the program
would use freed memory or the null pool, the model stops with `fault` set. Connections
may end at any time, also while their event is away; `dropped` (history) records that one
did. `OwnResponsesInOrder` and `SessionTracksRequest` are promised until then,
`AnsweredOnce` and `EveryRequestEnds` whatever happens, and the run `stale_session` shows what may
come of it. Each arriving piece is one whole request here, also while a response is due;
what is in the input buffer is served at the next piece, as the code does.

### Dispatch (`DispatchMsgService.cpp`, `ievent.cpp`)

The life of the service, where `BikeServer` is its steady state. The main thread goes
through `main`: construct the handler (subscribe, create `pm_`), `open`, the loop, then the statements of
`close` one at a time, then the destructors. `live` is what exists of the
subscriptions, `queue_mutex` and `pm_`. A worker is somewhere in `svc` (`svc_pc`): it reads
`svr_exit_` without a lock, looks for handlers, takes `pm_`, numbers the response and pushes
it under `queue_mutex`. Each use of something that is gone sets `fault`. The loop of
`main` has no exit: the rest of `main.cpp` is modelled as it would run if it had one.
`sn++` is two steps, `ReadCounter` and `WriteCounter`, for requests (main thread) and responses (workers);
`raced` (history) records that two threads were between them at a time; only the theorem
`OnlyRacesMixNumbers` uses it. `parseEvent` and `enqueue` are two steps
for this reason.

### UserLogin

Each worker's handler is a sequence of steps (store and tell a code; check, connect,
query, insert), interleaved with the others. The mutex `pm_` makes each access to
`m2c_` one step. A failed query looks like an unknown number, an insertion may be
stored and reported as failed, and a connection may not come about. Four variables are history.
`valid` has, for each request, every code that was in `m2c_` for its number since the request began, so that
`RegistrationNeedsCode` can say that a login carried one of them: the code may be replaced while the
login is under way, and the check at `user_event_handler.cpp:109` sees one of the values that were
current. `success` has the threads whose request got `ERRC_SUCCESS`, `shared` the
numbers that had two requests at one time, `missed` those whose row a failed query hid.

### MCService

A behaviour is one of `Dispatch`, in which a handler is one step, or one of `UserLogin`, which has
the steps of the handlers and a service that stays. The variables of the other keep their initial values.

### MemPool

Offsets count from the start of a block, so a block is `last`, `failed` and, as
history, the chunks handed out of it. `ngx_palloc_small` is an action with two
disjuncts (room, or a new block) that is part of the small and of the large requests;
`used` is what the heap holds when it is called. `malloc` fails whenever the few addresses are
used up. The subtraction in the room test is unsigned, and the model takes it modulo
`SizeModulus`; that the block size is a multiple of the alignment is an assumption
(`SizesAssumption`), which the repository's only caller (4096 bytes) meets. The
constants 4 and 3 of the code are `FailLimit` and `ProbeLimit`. The alignment that `ngx_pmemalign` passes on to
`memalign` is left out: that function hands out a large allocation, whose place inside the heap no property sees.

### EpollFramework (`comm.c`, `comm_epoll.c`, `main.c`)

One thread: `epoll_wait`, then each event as two steps (`ReadHalf` and `WriteHalf` of
`comm_call_handlers`: an event may run both handlers, and the first may have closed the
descriptor), then `getCurrentTime` and `checkTimeouts`. Clients act between any two steps.
`epoll_state` is what the framework believes, `kernel` what `epoll_ctl` has made of its
calls, so that a wrong ADD, MOD or DEL would show. `accept` gives the lowest free number,
hence a number is reused within a round. `heap` holds the `ConnectStat` at each address.
Each handler has its failing outcome, in which it returns and leaves all registered.

Times are relative to `sys_curtime`, in ticks: 10 s is `Short`, 30 s is `Long`. `left` is
what `F->timeout` lies ahead of the clock, `promised` (history) what it would have been with a
clock that was right from the start. The two differ in the first round only: until
then `sys_curtime` is 0. That the clock is up to a round old later is less than a tick.
`HUP` and `ERR` are one, `reset`. Left out: partial writes of a few bytes, `SIGPIPE`, a
failing `malloc`, an interrupted `epoll_wait`; `stat_init` has no return statement, and the
model takes the outcome of the repository's build (`-g -w`, no optimisation), the pointer.

### LineRelay (`threadInfo/thread_synchronous_mutex`)

`main.c` and `mytest.c` are one module: `program` is chosen in `Init`, and `main.c` is the
program without a second thread. Waits, posts and comparisons are separate steps, and
nothing guards the buffer, so a comparison during `fgets` (`mainpc = "write"`) may have either result.
Lines may be printed twice or not at all, and no text says otherwise.

### EchoServers (`multiplexing/poll`, `multiplexing/select`)

Both servers and the client that belongs to them; `server` is chosen in `Init`. A round is
`Await` (poll or select) and then one `Handle` or `Accept` for each reported descriptor in ascending order.
The poll server reads a client's character in one round and writes its successor in a
later one, from the one variable `ch`; the select server does both at once. `ch` is declared in
the loop and never initialized: the model takes the outcome of the build, in which its
stack slot keeps it. Clients may be killed; one with a reply unread resets the
connection, so that the next read fails and a later write raises `SIGPIPE`. `mixed`, `spoilt`, `wrong` and
`reset` are history.

### WebServer (`epoll_web_server.c`)

A request is one to two segments, because TCP may cut a POST between header and form or
inside its header, and one read takes what has come for one request; a POST that is longer than the 4095 bytes of a
read is cut too. `handler` and `name` are what a `ConnectStat` remembers; the age is copied in the same way as the
name, is on the same page and goes with it. The empty name field leaves the last name in place. `strstr` on the null pointer that an
incomplete header gives is `SIGSEGV`, writing to a connection that was reset is `SIGPIPE`.
`stat_init` has no return statement: `returned` says whether the caller gets the pointer all the same.

The copies of name and age look at no length. A `ConnectStat` has `name` at byte 4, `age` at 68, `_ev` at 132 with
`data.ptr` at 136, and the handler behind it, so that what a form does depends on its `shape`:

| `shape` | form | effect |
|---|---|---|
| `"fits"` | at most 63 letters and digits (an age: digits) | stored |
| `"foreign"` | another character at once, as in a percent-encoded name | nothing is copied, the last name stands |
| `"mangled"` | another character later on, a name of 64 to 131 bytes or an age of 64 to 67 | the page shows the name cut off, or running into the age; `_ev.events` is set anew at line 290 before it is used |
| `"huge"` | a name of 132 bytes or more, an age of 68 or more | `data.ptr` is overwritten before line 291 gives it to epoll, and with more bytes the handler and the heap behind |

After a `"huge"` form nothing is defined: line 291 makes the overwritten address the `ConnectStat` of the next event. The
model stops with `server = "overrun"`, since no promise of the code can be kept from there on, to any browser.

### TestClients (`test/`)

Several clients with the one number that is written in their source. A line typed
is a request sent, answered or not; `server_msg_cb` takes all bytes that have come and looks at
one response, which TCP may have cut (`"head"`, `"tail"`) or joined with the next. Of a cut
response the client keeps whatever its stack held. The server here is its code book
and nothing else. The second program of `test/` is the first with one kind of request.

### MCPrograms

A behaviour is one of the four programs above, with the module's own initial states and
steps; variables that two modules have in common belong to whichever runs, and what the
others use stays constant. The programs may stop, in order or not, so their two runs do not
check for deadlock: the hang is a finding, everything else that must go on is stated
as liveness.

## 3. Runs

| run | question | bounds |
|---|---|---|
| `pool` | the counter, the wakeups, the order of tasks, destruction; `ThreadPool` implements `TaskPool`, liveness included | 3 workers, 3 tasks, limit 1, no symmetry |
| `frames` | framing for every script and every cut; `Connection` implements `Session`, liveness included; a lockstep client is answered | up to 3 packets, header of 2 bytes, bodies of 0 to 3 with a maximum of 2, bad identifiers and unknown bodies |
| `sticky` | finding: coalesced requests | up to 2 good packets |
| `server` | whose response is written where, how often and when, whether connections end in order or not; every request ends | 2 clients with 2 requests, 2 workers, 2 addresses, limit 1 |
| `stale_session` | finding: freed session | 2 clients with 1 request |
| `service` | construction, `close` and the end of `main` with workers anywhere in `svc`, accepted requests are settled, `close` ends; codes, users and a failing database in the handlers | 3 requests, 2 workers, limit 1; for the handlers 2 workers, 2 numbers, 2 codes, 4 requests |
| `login_race` | finding: one number twice | 2 workers, 2 numbers, 4 requests, queries that do not fail |
| `numbers` | finding: two events of one kind with one number | 2 requests, 2 workers, limit 1 |
| `regions` | the allocator | 5 addresses, blocks of 16 units, headers 10 and 8, nodes of 4, alignment 2, both limits 0 |
| `epoll_echo` | handlers, events and interests that could be stale; replies; timeouts, with liveness | 2 connections of up to 2 messages, 2 descriptors, 2 addresses, waits of 1 and 2 ticks |
| `programs` | the echo servers, the web server, the semaphore programs, the test clients: what each may get wrong, and for which one reason; service and termination | 2 echo clients of 2 exchanges; 2 browsers, one with 2 requests of which one may be cut or have a form that does not fit ("foreign" and "mangled" ones are not cut as well); 4 lines; 2 test clients, 2 codes, 3 commands |
| `relay_hang` | finding: the second thread waits for ever | 2 lines |

Why the bounds are enough. Pool: with 3 workers one can run, one be on its way and
one sleep, which is every role in the lost-wakeup and overtaking scenarios; 3 tasks
exceed the limit of 1 with and without committed workers, so overflow of tasks and of
the exit task occur; the proofs remove the bound. Framing: bodies of length 0, 1, the maximum and
one more are all there, a header of 2 bytes is the shortest that can be cut,
and a third packet shows that the state after a response is the state at the start; the proofs remove
the bounds.
Server: two clients and a limit of one suffice for refusals, for responses in the
other order than requests, and for an address that is reused by a session that has a request of
its own. Service: two requests run while a third is queued, so that `close` finds both the exit
task refused and accepted; in the handlers four requests are a code, two overlapping logins of its number and
a second code that replaces the first between them, or a login of another number; the proofs remove the
bounds. Numbers: the race needs two workers with responses, or one and the main thread.
Allocator: blocks of 16 leave 6 units in the first and 8 in the others, so requests of
3, 6 (the maximum for a block) and 7 (large) cover unaligned, exact and large ones;
five addresses give a chain in which `current` moves, also after a reset, and more nodes than
are probed. Epoll: two connections are enough for one to close and the other to be
accepted with its number in one round; two messages let a reply meet the next message; waits
of one and two ticks separate an expiry from a renewed timeout. The proofs remove the bounds of both. Programs: two echo clients
are enough for one to be read between the other's read and write; the client's second
exchange shows that the interest has gone back. A browser's second form is needed for a
name that stands from the first, and one browser with such forms is enough to see whether it disturbs the other. Three commands are one code each for two clients and a login.
The proofs remove the numbers of clients and commands, and the choice of codes.

Fairness. Pool: each worker that can run does (the threads are preemptive and
`pthread_cond_wait` does return after a signal), and an owner that has called `init` or
`destroy` goes on until the call returns; nothing obliges it to post. `TaskPool` asks
the same. Connection: what was sent arrives, the event that was accepted comes back
(the part of `EveryRequestEnds` about accepted requests), an idle connection times out; nothing obliges a
peer to hang up. Server: workers and main loop run; for the timeout of a connection
that was refused the fairness is strong, since the timer expires while the main thread
is elsewhere and is served in each later `event_base_loop`. Dispatch: workers run, the
loop serves responses and finishes a call of `enqueue` or `close` it is in; nobody has to
send a request or to leave the loop. Epoll: the loop runs (`do ... while(1==1)`, every wait ends within a second), and
time passes: strong fairness of a round that takes a tick, since the step of the clock comes
round again and again. Programs: the servers and threads run, and so do clients that wait for
a server; nothing makes a client connect, be killed or leave, or a user type. No other liveness is
claimed.

Type invariants are checked as a conjunct of a deeper property of each module: `InSync`
(`Connection`), `SessionTracksRequest` (`BikeServer`), `ToldCodeIsCurrent` (`UserLogin`),
`CloseIsClean` (`Dispatch`), `ChunksApart` (`MemPool`), `NothingIsStale` (`EpollFramework`);
that of `ThreadPool` is the theorem `TypeCorrect`.

Each property of a passing run has a mutant in `PROJECT.json`: a plausible mistake in
one mapped definition (the operators `Mut...` beside the definitions they alter) with
which TLC reports that property violated.

## 4. Findings

* **Coalesced requests** (`sticky`). `handle_request` makes at most one request per call
  and nothing looks at the input buffer after `session_reset`. The second of two
  requests that arrive in one piece is not read until more bytes come; if none do,
  the connection times out. The README names handling of coalesced packets as a feature.
  A client that waits for each response is served (`LockstepAnswered`).
* **Freed sessions** (`stale_session`). `handle_error` frees a session whatever its state;
  its event is still with a worker or in the response queue, and
  `handleAllResponseEvent` follows the address. What remains true: a response is
  written at most once and goes astray only when its own connection has ended (`AnsweredOnce`).
* **One number, two rows** (`login_race`). Query and insertion are separate statements on
  separate connections and `mobile` has no unique key, so two logins of one number at a time
  both insert it. `OneRowUnlessRaced` is what the code does guarantee.
* **Event numbers** (`numbers`). `ievent.h:12-13` says that events of one kind are told apart by their number. It
  comes from a static counter that the main thread and all workers increment without a lock, so that two threads which draw
  at a time give two events one number. That is the only way it happens (`OnlyRacesMixNumbers`, proved).
  Nothing but the log uses the number so far.
* **A thread that waits for ever** (`relay_hang`). In `mytest.c` the first thread posts `sem2`
  before it compares the buffer. If the last line comes between, it leaves
  without another post; the second thread has compared the line before, waits, and `main`
  hangs in the join. When the last post comes after the last line all end, and the first
  thread always does (`ThreadsEnd`).

Observations that contradict no text; each but the last is the exception of a property that says nothing
else goes wrong:

* The pool's overflow test does not bound the queue by `max_queue` (`QueueBound`). A pool that cannot be
  created is noticed only when the first request dereferences it (`SessionTracksRequest`, `CloseIsClean`).
* A request that the full queue refuses is not answered; its connection ends by
  timeout (`EveryRequestEnds`).
* `close` destroys the pool before anything the workers use. If the destruction gave up
  because the exit task did not fit into the queue, workers then use a destroyed mutex or a
  handler that is gone (`CloseIsClean`).
* Epoll framework: `commSetTimeout` adds to `sys_curtime`, which `comm_select` first sets after
  its first wait. A connection accepted in the first round has a deadline in 1970, and the next
  `checkTimeouts` closes it unless its greeting was written before (`EarlyOnlyAtStart`).
* The poll server answers a client with another one's character if it read that in between
  (`WrongOnlyIfMixed`), and is killed by `SIGPIPE` after a client was killed with its reply
  unread (`DiesOnlyByReset`); the select server does neither.
* The web server dies of a POST whose header is cut, and of a cut request whose second page
  finds the client gone; at once if `stat_init` does not happen to return its pointer; and a form with a name of
  132 bytes or an age of 68, whole and well-formed as it may be, overwrites the pointer by which the server finds the
  connection, for all browsers (`EndsOnlyBy`). A form with a shorter name that does not fit garbles the sender's own pages only, and a name that
  begins with a character other than a letter or digit is dropped (`PagesFit`).
* A test client's code is refused if it did not wait for its response, if TCP cut or joined
  responses, or if another client asked for a code for the same number (`RefusedForAReason`).
* A pool whose threads cannot all be created is freed under those that were (`thread_pool.cpp:63-66`). What they do
  is undefined, and there is nothing left to promise: no property covers it.

## 5. Proofs

The prover has shown the following for every value of the constants; the assumptions are
those that the modules name (`ThreadPool`: a finite non-empty set of workers, a finite set of tasks
without the exit task, a positive limit; `Dispatch`: some request; `UserLogin`: no code is
`NoCode`, and the bound of requests is a natural number; `BikeServer`: `None` is neither an
address nor a session, and the bound of requests is a natural number; `EpollFramework`:
descriptors are positive numbers and the listener is not one of those that are accepted, `None` is nothing
else, `Short <= Long` (that `malloc` finds room for every `ConnectStat` is assumed for the
runs and not used); `MemPool`: `SizesAssumption`, which says how the sizes of the structures
relate and that the block size and both headers are multiples of the alignment; `Connection`: a
header has at least one byte, lengths are natural numbers, and a script is a finite sequence of
packets (`LengthsAssumption`, `ScriptsAssumption`); `MCPrograms`: finitely many echo clients, `None` is
neither a client nor a character, the listening descriptor is no browser's, and a code is a positive number
(`EchoAssumption`, `ListenerAssumption`, `CodesAssumption`)).

| module | theorem | property |
|---|---|---|
| `ThreadPoolProofs` | `TypeCorrect` | `TypeOK`, with the bounds of the signed counter |
| | `WaitingCorrect`, `QueueBounded` | `WaitingIsAccurate`, `QueueBound` |
| | `WakeupsNotLost` | `NoLostWakeup` |
| | `TasksOnce`, `TasksInOrder` | `ExactlyOnce`, `PostOrder` |
| | `ExitTaskInScope`, `DestroyIsClean` | `StackTaskInScope`, `DestroyDrains` |
| | `PoolRefinesTaskPool` | `TP!Init /\ [][TP!Next]_(TP!avars)`, the safety part of `Implements` |
| `ConnectionProofs` | `StaysInSync` | `InSync` |
| | `FramingRefinesSession` | `Promised!Init /\ [][Promised!Next]_(Promised!svars)`, the safety part of `ImplementsSession` |
| `BikeServerProofs` | `ResponsesReachTheirClients` | `OwnResponsesInOrder` |
| | `SessionsTrackRequests`, `RequestsAnsweredOnce` | `SessionTracksRequest`, `AnsweredOnce` |
| `UserLoginProofs` | `RegistrationIsVerified` | `RegistrationNeedsCode` |
| | `CodesAreCurrent`, `RowsAreUnique` | `ToldCodeIsCurrent`, `OneRowUnlessRaced` |
| `DispatchProofs` | `ServiceClosesCleanly` | `CloseIsClean` |
| | `OnlyRacesMixNumbers` | `~raced => NumbersTellApart`, the complement of the finding `numbers` |
| `EpollFrameworkProofs` | `NothingIsEverStale`, `InterestsAlwaysFit` | `NothingIsStale`, `InterestFits` |
| | `RepliesAreWritten`, `DeadlinesAreKept` | `RepliesNotLost`, `EarlyOnlyAtStart` |
| `MemPoolProofs` | `NoChunkOverlaps`, `HeapIsOwned` | `ChunksApart`, `HeapOwnedOnce` |
| | `NodesStayInPlace`, `FailuresFall` | `NodesInPlace`, `FailuresAlongChain` |
| `ProgramsProofs` | `RightCharacter`, `CharacterInOnePlace` | `WrongOnlyIfMixed`, `OnePlace` |
| | `OnlyAResetKills` | `DiesOnlyByReset` |
| | `FittingPages`, `WebServerEnds` | `PagesFit`, `EndsOnlyBy` |
| | `RefusalsExplained` | `RefusedForAReason` |
| | `OnlyTheUntoldHangs` | `Relay!NobodyStuck`, the safety side of `ThreadsEnd` and of the finding `relay_hang` |

**ThreadPool.** The inductive invariant has two halves. `Counting` = types, `Counters` and `Born`: the
counter identity; the no-lost-wakeup inequality, which is inductive together with
it because the worker a signal wakes (or any worker that overtakes it) is counted in
`At({"lock", "woken"})`; and the number of threads created while the owner creates.
Cardinalities change by one per step, by the lemmas `CountType` and `CountStep`. `Safe` =
`Once`, `Numbered`, `Pills` and `Exits`: uniqueness of tasks in queue and hands; task
numbers increasing along the queue and below `nextId`; the exit task linked or held exactly
while `lock` is 1 and the owner spins, and then last in the queue; as many exited workers as exit tasks done.
`DestroyDrains` needs all four: when `n` reaches the number of threads all have
exited, each took its exit task from the head of the queue, and an exit task that is
last leaves nothing behind it. `StackTaskInScope` alone is not inductive, since it does
not say that the queue holds the exit task only once. `SafeInvariant` is the theorem
`Spec => [](Counting /\ Safe)`; TLC confirmed the invariant before it was proved.

`PoolRefinesTaskPool`: initial states map to initial
states and every step to a step of `TaskPool` or a stutter, with the queue less
its exit task for `order` (`TaskOrder`) and the owner's place for `phase`. The step
that matters is the refusal: `waiting >= MaxQueue` implies that `order` itself is at
the limit, by `Counters` (`OverflowIsFull`). Starting a task uses that there are fewer running
tasks than workers (`RoomToStart`).

**Connection.** `InSync` does not say what has been read for a response that is due, or that a body is only
read after a good header. `Framed` does: in `"SS_REQUEST"` (`Requesting`) the server is in packet
`answered + 1`, with less than the whole of its header or, behind a good one, of its body; in
`"SS_RESPONSE"` (`Responding`) that packet and nothing else has been read; and each event so far has the body of the packet of
its number (`Taken`). It holds in connections that have ended too, since nothing but `conn` changes then.
Where packet `k` begins is a recursive sum of lengths (`Start`). That there is such a function, only one, and that
it grows from packet to packet (`AtFacts`, `AtApart`) is proved from the set of counterexamples, which would
have a least element (`LeastElement`, `UpTo`). The refinement needs all of it: an event is mapped to the number of the
packet whose body it has (`PacketOfIs`), which is unique because no two packets begin at one
place, and a step is one of `Session` because that number is the next (`Takes`, `Refuses`).

**BikeServer.** `OwnResponsesInOrder` alone is not inductive: the next response is written to
the session its event points at, and nothing in the property says whose that is. `IInv` adds what
makes it the right one. Some parts hold however connections end: `Owned` (an open connection has
its own session and every session is of an open connection, so an address is given away only
when its owner has freed it), `Carries` (an event has the address of its connection as long as
that is open), `WaitsOnce` and `RespondsOnce` (a request is once in the queue of the pool or once in
that of responses, never both). They are enough for `AnsweredOnce`, whatever addresses are used
again. The others hold until a connection ends with its request in flight: `Stays` (requests in
flight are of open connections), `Tracks` (the session state against the place of the last request)
and `Counted` (a client has a response to each request but the one that waits), from which
the response that comes next is the one the client waits for.

**UserLogin.** The properties speak of numbers that are told, successful or stored; what carries them are
statements about requests half way. `InForce`: what `m2c_` has for the number of a request is among the codes that were valid
since it began, whoever has stored it meanwhile. Hence a login that passes the comparison carries a valid code, and
`PastCheckVerified` keeps that until it succeeds or inserts; `StepIsVerified` draws `RegistrationNeedsCode` from it,
step by step. `OneAtATime`: a number that is not in
`shared` has one request. For such numbers `StoredCodeIsTold` says that the code about to be told is
the one stored, and `InsertsAbsent` that an insertion is of an absent row unless a
failed query hid it. There is one lemma per step of a handler.

**Dispatch.** `Life` says for each place of the main thread in which phases the pool may be and what
exists; `NoWork` that a pool that is not yet or no more has no running task. Together
(`WorkersHaveAll`): while a worker runs, all it uses exists, unless the destruction gave up,
and that is why only the null pool and the abandoned one can fault. `Settled` is the part
about responses. `Numbering` says that without a race at most one thread has drawn, that it
has the current value of the counter, and that all numbers given are smaller and different; `NumbersTellApart` compares
those of one kind. The steps
use the pool's actions as `TaskPool` states them, and `PoolRefinesTaskPool` says that
the pool has no others.

**EpollFramework.** `OpenOrIdle` says what a descriptor is: either nothing refers to it, or it is open for
one connection and then its handlers, its timeout, its entry in `heap` and its interest in the kernel
are those of that connection (`Ours`). `OnePerConn` and `Owners` make the correspondence one to one, so
that a number which is closed and given again within a round carries nothing over. `Pending`
says that an event still to be handled is for the connection its descriptor belongs to, and at most one for
each descriptor: closing a descriptor happens in its own event, and a number that is given again has
none left. `HalfDone` says what remains of that between the read and the write half of one event, where
the first may have closed the descriptor that the second looks at. `Punctual`: a deadline is as far
away as was asked for, unless the connection was accepted before the clock was first read.

**MemPool.** `NodesInPlace` and `ChunksApart` follow from `LaidOut` (the chunks of a block are in order between
its header and `last`) with `Shapes`. An allocation from the blocks is proved once (`SmallKeeps`): it
gives a chunk of its own, keeps all others and brings at most one block (`Served`), and the operations that
make one use only that. `RoomIsReal` says that the unsigned subtraction in the room test does not wrap
around: aligning `last` cannot pass the end, because the end is a multiple of the alignment too
(`AlignUp`). `Failures` compares any two blocks, not only neighbours: from it the blocks that have failed too often
come first, so that moving `current` behind the last of them passes no other.

**Echo servers.** The property says where a character is that its client waits for; the invariant follows a
client and its descriptor through the whole exchange. `Dialogue` ties the place of a client in its program
to the two buffers, `Slots` makes descriptors and open connections one to one, `Reports` says that
what `poll` or `select` has reported is still so when the loop comes to it (nobody else takes it away), `Places`
and `Letters` say where the character is and which one, `ch` included. `Resets` and `Death` follow a broken
connection: a write to it is possible only in the poll server, which alone waits between a failed read and its write.

**Web server.** For a browser none of whose requests was cut, `Stands` says that its last request is under way,
read and not answered, or answered, and that the descriptor is watched for that, whatever the shapes of its forms. `Fits` compares
the server's memory with what a browser has sent whose forms all fit (`Plain`): the name the server *will* have when it has read what is under
way (`Latest`) is the one given last, and the handler that is set makes the page for the last request. Browsers
whose requests were cut, and after them those whose forms do not fit, may be in any state, or any memory; that they do not disturb the others needs only that
each step of the loop touches one connection (`AloneStands`), until a form reaches `data.ptr`: then all this is given up
(`WebInv` has `server = "overrun"` as its other case). `Arrivals` says that the shapes the server reads are those that the browser sent, so that an overrun means that
a `"huge"` form was sent (`ParseOverrunsKeeps`).

**Test clients.** The history `unheard` of a client is the number of its requests for a code still at the server plus the
number of responses with one on their way (`Counted`); a client that logs in only after waiting has none of either then.
`Knows`, for the client whose request set the code last: the last response on its way has that code, if there is none the
client holds it, and every login it has sent after waiting carries it. `Orderly` is what makes a
client read one response at a time: a client that was never cut or given two at once has only whole responses
before it, and one that was never hasty has no login behind a request for a code. The counting
is about positions in a queue (`Where`), since the prover cannot do induction over sequences.

**Semaphore programs.** `LastLine`: the last line stays in the buffer, and once it is posted the first thread is
not left waiting without a post; nor is the second, if it was told of it. So main hangs in a join only in
`mytest.c`, and only when the first thread's last post came before the last line.

In `MCPrograms` a step of one program leaves the others' variables alone, so that one invariant, `Runs`, carries all
four (`ProgramsInvariant`).

Only model-checked. Every invariant that a run checks is proved. What the prover cannot do is liveness under
fairness: `EveryRequestEnds`, `EventsAreSettled`, `LockstepAnswered`, `SilentIsClosed`, `AllServed`, `BrowsersServed`,
`ThreadsEnd`, and the fairness in `Implements` and `ImplementsSession`.

A caution. This version of `tlapm` tells its SMT solver of sequences that the length of anything is at least
0 and that a function with domain `1..N` has length `N`, without saying that these are about sequences only; with
functions on other domains at hand a contradiction can be made of that. All proofs here were
also checked with the first of the two taken away, and none of them depends on it.

## 6. Not modelled, and why

The repository has about 4,600 lines of its own among 89,700: libevent with its demos and
samples, four copies of the protobuf output and iniparser are the rest. They are not this
program and only modelled as the server uses them (events that become ready, calls that fail);
so the map can cover little of the whole, though most of the server's own state changes.

* `fork/`: parents that fork workers and wait. The children share nothing, and the parent's
  one call of `wait(NULL)` returns at the first child, although the comment at
  `multip_process.cpp:16` speaks of all; there is no state for a property to relate.
* `sharedmem/`: each program overwrites the page without looking. `signal/`: a handler that prints.
  `udpCom/`: a loop of `recvfrom` and `sendto` without state.
* `threadInfo/thread_create_destroy`, and `mutex.c`: one thread that is joined or cancelled, and two
  loops that decrement under a mutex.
* `main.cpp` before its loop, `BusProcessor.cpp`, `iniconfig.cpp`, `Logger.cpp`, `eventtype.cpp`:
  sequential start-up, a table of reason texts, logging.
* Calls of pthread functions on valid objects succeed; `malloc` in the server
  succeeds (`MemPool` has a failing one).
* `NetworkInterface::close` is an empty branch that nothing calls; nothing subscribes
  while the server runs. The exit response of `handleAllResponseEvent` cannot be
  reached in `BikeServer`, since both request kinds are subscribed; `Dispatch` has it.
* `session_init` has no return statement; the model takes the outcome of the builds in
  which the pointer is returned. In the web server both outcomes of `stat_init` are there.
* `srand(time(NULL))` in `code_gen`: any code may be drawn.
* The text of SQL statements, log lines, protobuf encoding, reason texts, pages; partial
  writes to a socket.
* `comm.c:130` reads one entry past the descriptor table; the model has no layout of it.

## 7. Plan

In order; what is done is marked.

1. [done] `TaskPool`, `ThreadPool`, proofs of all its safety properties and of the
   refinement.
2. [done] `Connection`, `BikeServer` over `TaskPool`, `UserLogin`; `Session` and the refinement.
3. [done] `MemPool`, `EpollFramework`.
4. [done] `LineRelay`, `EchoServers`, `WebServer`, `TestClients`, together in `MCPrograms`.
5. [done] `Dispatch`: the service's life over `TaskPool`, and event numbers.
6. [done] Proofs for `BikeServer`, `UserLogin`, `Dispatch`, `EpollFramework` and `MemPool`.
7. [done] Proofs for `Connection` with its refinement of `Session`, and for the four programs of
   `MCPrograms`.
8. A linked-list module (`first` and the pointer to the last `next`) that implements the queue of
   `ThreadPool`.
