# A TLA+ model of tcpdaemon

tcpdaemon is a TCP server frame: it owns the listening socket and the processes, and
calls an application function `tcpmain` for the connections. This directory holds TLA+
modules that model the program from its command line to its exit status, its three Unix
server models and the message protocol it offers to applications, TLC configurations that
check them on small instances, and TLAPS proofs of their safety properties for instances of
every size. Line numbers refer to `src/tcpdaemon_lib.c` unless another file is named.

## 1. The system

| part | state | operations |
|---|---|---|
| LF, Leader-Follower process pool (88-260, 1160-1389) | accept mutex (a System V semaphore), one alive pipe and pid per slot, `index`, `requests_per_process`, `g_EXIT_flag` | manager: fork pool, `waitpid`, restart, quit, reap; worker: take the mutex, select, accept, release, `tcpmain` |
| IOMP, IO-Multiplex process pool (262-755, 1392-1705) | as LF without the semaphore; one epoll per slot, the one-shot listening socket in each | same manager; worker: `epoll_wait`, accept all, pass the listening socket on, session events, quit |
| IOMP sessions (262-352, 423-436, 498-561, 607-747, `src/rbtree_ins.c`) | preallocated arrays, list of unused sessions, tree of begin timestamps, data pointer of the application | fetch, link, register, time out, close |
| IF, Instance-Fork (772-795, 928-1157) | `process_count`, `g_EXIT_flag` | accept, check the limit, fork, reap by handler or after a timeout, last wait |
| TDHB, fixed head + body protocol (2237-2652) | `TDHBContext`: what remains of head and body; `*timeout` | send, receive, blocking or not |
| start and end (800-923, 1160-1229, 1392-1545, 1874-1906, 2064-2181), command line (44-86, `src/tcpdaemon_main.c`) | the parameters, the environment, what the process has from the kernel, its exit status | parse, turn into a daemon, check, set up call by call, serve, clean up |
| accessors (2183-2232) | - | read or set one field |
| WIN-TLF and the Windows service (1712-2059), LOGC, rbtree, list | - | another platform; libraries |

How the parts interact. The manager creates everything shared (listening socket,
semaphore or epolls) before it forks, so that all processes have it; if one of these calls
fails, one clean-up function per server model undoes those before it. Manager and worker
talk through the *alive pipe* of the slot alone: a byte from the manager means "end", and
end of file means that the manager is gone. A worker inherits the manager's write ends of
the pipes of the workers forked before it. Workers do not talk to each other: in LF the
semaphore, in IOMP the place where the listening socket is armed decides who accepts.
`tcpmain` is a callback; in LF and IF it has the connection until it returns, in IOMP it is
called per event and its return value says what the session waits for. In IF parent and
child share nothing but the SIGCHLD by which the parent learns of the end of the child.

What is hard: crashes of a worker anywhere in its loop (SEM_UNDO, one-shot events, quit
pipes), restarts in another order than the first forks, signals that are seen only in some
calls, a count shared by a handler and a loop, events that outlive their session, partial
reads and writes. Every such place is listed in `PROJECT.json` under `hazards`, with the
properties that watch over it.

What each part has to get right:

* LF: one worker at the listening socket; the right to be there survives every crash; no
  connection lost but by a fault; the backlog served; shutdown and loss of the manager
  end every worker.
* IOMP: one place where the listening socket is armed, never two, none only after a
  fault; a session in one worker; the same for shutdown.
* IOMP sessions: none lost or shared; `tcpmain` told of the end exactly once; events go to
  the connection they are of; busy sessions time out too.
* IF: an exact count; never more children than allowed, no refusal with room; no child
  left unwaited for.
* Start and end: whatever fails is undone and reported, and nothing of the application's
  is closed with it.
* TDHB: what is received is what was sent, in whatever pieces; timeouts; calls return.

## 2. Modules

| module | models | extends |
|---|---|---|
| `ConnectionPool` | abstract specification: leaders, connections held, served or dropped | |
| `AcceptTurn` | abstract specification: whose turn it is to accept, sessions of each worker | |
| `PoolManager` | the manager loop that `tcpdaemon_LF` and `tcpdaemon_IOMP` share, alive pipes, signals | |
| `LeaderFollower` | LF: worker loop, semaphore with SEM_UNDO, composition with the manager | `PoolManager` |
| `IOMultiplex` | IOMP: worker loop as far as workers interact, hand-off of the listening socket | `PoolManager` |
| `IOMPSession` | one IOMP worker's sessions and its event loop | |
| `InstanceFork` | IF: parent, children, handlers | |
| `Tcpdaemon` | the program from its command line, or from an application's call, to the exit status; composition with IF | `InstanceFork` |
| `TDHB` | two peers of the head + body protocol and the connection between them | |
| `LeaderFollowerMC`, `IOMultiplexMC`, `TcpdaemonMC`, `TDHBMC` | instances for TLC: plans of faults, command lines, choices of blocking peers | |
| `PoolManager_proofs` | lemmas about the manager, for whatever workers it has, and about cardinalities | `PoolManager` |
| `LeaderFollower_proofs` | theorems about LF, and that it implements `ConnectionPool` | `LeaderFollower`, `PoolManager_proofs` |
| `IOMultiplex_proofs` | theorems about IOMP, and that it implements `AcceptTurn` | `IOMultiplex`, `PoolManager_proofs` |
| `SequenceLemmas` | pieces of sequences; elements put into and taken out of sequences without repetition | |
| `IOMPSession_proofs` | theorems about an IOMP worker's sessions | `IOMPSession`, `SequenceLemmas` |
| `TDHB_proofs` | theorems about the protocol | `TDHB`, `SequenceLemmas` |
| `InstanceFork_proofs` | theorems about IF | `InstanceFork` |
| `Tcpdaemon_proofs` | the same of IF within the program; the set-up; the exit status | `Tcpdaemon`, `InstanceFork_proofs` |

`PROJECT.json` (`map`) gives for each definition the lines it stands for. The manager is
mapped to `tcpdaemon_LF` or to the same lines of `tcpdaemon_IOMP` (1548-1705).

### PoolManager
`pc[w]` says where the worker of slot `w` is (`"none"`: no process, `"zombie"`: ended, not
waited for); `mgr` and `index` are the manager's program counter and `p_env->index`.
`quit[w]` is the byte in the pipe of `w`, `writers[w]` the set of processes that have its
write end: `PipeAndFork` gives the child all write ends the manager has, except its own.
A worker finds its pipe readable when the byte is there or `writers[w]` is empty.
`Sigterm` interrupts only a manager blocked in `waitpid`; otherwise it just sets the flag
(as in the code, which never reads it in LF and IOMP). `WriteQuit` to the pipe of a worker
that has ended kills the manager (SIGPIPE). `ManagerKilled` is SIGKILL, or a second SIGTERM
after the handler has been taken back (1367, 1683). When the manager has returned its
caller exits, which closes its descriptors.

### LeaderFollower
One action per system call of the loop. `semval` and `semadj` are the kernel's: `semop`
with SEM_UNDO records the opposite adjustment, which is applied when the process ends, by
`exit` or by a crash. `FinalLeave` is the release after the loop (235-245), which the code
does whether or not it holds the mutex. `accept_mutex` becomes FALSE when the manager
removes the semaphore; every `semop` fails from then on. While it exists the `semop` that takes
the mutex may fail too, for a signal that ends its wait (a worker stopped and continued, a
handler of the application) or for want of memory: `EnterAcceptMutexFails` (127-132), from where
the worker goes to `FinalLeave` and releases what it has not taken. That release may fail in
turn (`FinalLeaveFails`), but not that of a worker whose undo is in place. `Spoilt` counts how
often a worker came to the last release without the mutex: after a `tcpmain` that returned an
error, or a failed `semop`. Each lets in one worker more for a while, and `ConnectionPool` has
room for that many more leaders (`Spoil`). `GiveUp` is a failed `pipe` or
`fork`: the manager removes the semaphore under running workers.

### IOMultiplex
`armed` is the set of slots whose epoll has the listening socket armed for reading.
`EpollWait` reports any subset of ready sessions, the listening socket if it is armed and
readable (and disarms it, with several workers), and the alive pipe. The events of a batch
are handled in any order. `SystemCallFails` stands for every early `return 1`. What a
session does in detail is in `IOMPSession`; here it is open, or closed by `tcpmain`.

`Turn!Spec` is the promise of the pool, `AcceptTurn`, with this mapping: it is the turn of
the worker in whose epoll the listening socket is armed, or who has been told of it and has
not armed it again; if there is none, the turn is lost. The end of a worker, its restart,
the batch, the pipes and the manager are stutters, or the abstract `End`.

### IOMPSession
`owner`, `registered`, `linked`, `unused` are the session structure's life; `batch` holds
pairs of a session and the connection its event was for. The timeout scan runs between
`epoll_wait` and the batch, as in the code. When an event meets a closed session `tcpmain`
would be called with a freed pointer: the behaviour is undefined from there on and the model stops
(`loop = "undefined"`). `linked` is the tree of begin timestamps as the sequence in which it
is walked: `Link` inserts where the macro of `rbtree_tpl.h` does, behind equal timestamps,
and the scan looks at the first session alone. `age` counts seconds, and one more per second
by which the clock may be set back (`ClockSetBack`), so that it may be
negative. `AcceptWithoutMemory` is a failed allocation: the connection's data is `"lost"`, as
`tcpmain` is never told. `loop = "returned"` is the end of the worker, because it was told to or a
call failed.

### InstanceFork
The state of a connection is also that of the child that serves it. `parent` is the
program counter of the parent, from `InitDaemonEnv` (which may fail, wherever it does, before
the socket listens) to `CleanDaemonEnv`; clients connect while it listens. The handlers are actions that may come between any two steps
of the parent; `InterruptedIn` says which calls notice. SIGCHLD is one pending bit, so
signals of several children merge. `process_count ++` and `--` are single steps: the
builds with `-O2` make one instruction of each, which a handler on the same thread cannot
divide.

### Tcpdaemon
`step` says where the program is. The command line is a sequence of words, parsed one turn of the
loop at a time; an application that calls `tcpdaemon()` itself starts behind it. `todo`
holds the calls of the set-up that may fail, in the order of `InitDaemonEnv` and of the
server model; `p_env` has the fields that the clean-up functions look at, zero where the
`memset` of `_tcpdaemon` left them; `kernel` is what the process really has. `CallFails`
stops anywhere and runs the clean-up of that server model as it is written. Whether a `bind`
without an address fails is left open (`inet_addr("")` is 255.255.255.255). For IF, serving
is `InstanceFork`, all of whose actions are taken through `ServeIF`; the pools only return
(`PoolReturns`) or fail to start a worker (`PoolFails`), as they have models of their own.
The words, the numbers `atol` makes of them and the parameters of an embedding application
are constants (`StartAssumption`): sequences of words, integers and records of the types
of `tcpdaemon.h`, nothing more. `status` is the first exit status, which is the one that a shell sees of a daemon. Before
the handlers are set SIGTERM just ends the program (`KilledInSetUp`).

### TDHB
A byte is a pair of the number of its message and its position in it, so that order, loss
and duplication show; position 0 is a byte from outside the body. A step writes or reads
any number of bytes that the connection takes or has. `BodyLeft` and `BodyToRead` are the
code's arithmetic as it stands. The head is `head_len` digits; a longer number is cut behind
them (`Sent` is the length that is then read), and the receiver takes what is there. What `atoi`
makes of other bytes, such as those of a body left over, is any number of `StrayLens`, below 0
too: it passes the test against the size of the buffer, and the `read()` of the rest, a
negative number taken for a size, fails (`ReadFails`). `CallFails` is a fault: `select()`,
`read()` or `write()` fails. The socket of a blocking peer is a blocking
one: once `select()` has let it write, the write returns only when all bytes are taken
(`"blocked"`, `copied`). That a signal handler of the application may cut such a write short
is left out. There is one connection, or the attempt fails
(`TDHBConnect`). A blocking peer does one exchange per connection (as
`TDHBCall`, and the servers in `test/`, do); a nonblocking one goes on with the same
context. `split` remembers whether a head went through in pieces: several properties hold
only when none has (see findings). `select()` may or may not have updated `*timeout`; POSIX
allows both and the code subtracts in any case. What it subtracts is a difference of the wall
clock (2309-2316, 2403-2410): a turn may see the clock set back, or forward, by one of
`ClockSteps`, and `setback` adds up by how much it was set back, which `MaxSetBack` bounds.

## 3. Runs

| run | instance | expected |
|---|---|---|
| `lf_pool` | 3 workers, 2 connections, request limit 1, each plan one fault, a failed `semop` and a failed `fork`, or an error of `tcpmain` and a crash | pass |
| `lf_error_return` | 3 workers, one `tcpmain` return other than CLOSE | `AcceptMutex` violated |
| `lf_orphans` | 2 workers, manager killed | `OrphansEnd` violated |
| `iomp_pool` | 2 workers, 3 connections, any one fault | pass |
| `iomp_lost_listener` | 2 workers, one dies | `PoolKeepsAccepting` violated |
| `iomp_session` | 3 connections, arrays of one session, no timeout or 2 seconds, 1 fault or second set back | pass |
| `iomp_stale_event` | 1 connection, timeout 1 | `NoEventAfterClosing` violated |
| `if_fork` | 17 command lines and 3 calls by an application, 1 failed call; IF with at most 2 children and 4 connections | pass |
| `if_final_wait` | 1 child | `FinalWaitEnds` violated |
| `tdhb` | up to 3 messages, head of 2 binary digits, buffer 2, bodies 0, 2, 4, other bytes taken for -1 or 3, 3 bytes in transit, timeout 1, clocks set back by 1, no, both or only the client a blocking peer | pass |
| `tdhb_split_write` | nonblocking peers, body 2 | `BytesInOrder` violated |
| `tdhb_split_read` | the same | `ReadInPieces` violated |

Why the bounds are enough. Three LF workers are the least with a holder of the mutex, a
waiter, and one that dies or restarts, and with inherited ends that form a chain; two
connections make two workers meet. The request limit of 1 makes every worker be replaced.
The listening socket of IOMP goes round with two slots, and the wrap of the slot number is
among the mutants; the third connection arrives after it has gone round. Two children and
four connections reach the limit, merge signals and refuse. Arrays of one session make every second
accept allocate. The command lines are those of the README and of the scripts in
`src/test`, for every server model, and what is left of them when a word is wrong or missing;
two and three epolls have a first, a last and one in between that fails. A head of two digits can be split,
a body of two bytes too, and the length four does not
fit in two binary digits (`HeadBase`; the code's base is 10, for which such bodies are too long to check).
What is left of a body of four is read for the next head: the number made of it is below 0, or
three, which overflows the buffer. A clock set back by 1 doubles a timeout of 1; one set
forward only ends it sooner, as the double subtraction does already. Blocking servers with a
nonblocking client are left out, for the time the liveness takes: such a server meets a blocking
client, and such a client a nonblocking server. Faults are bounded by plans (`FaultPlans`, `MaxFaults`): one of each
kind, and pairs where one changes the effect of another. `Capacity` and `MaxMessages` bound
the connection of TDHB; `Conns` bounds the clients everywhere. Each property of a passing
run is broken by a mutant of the code's model (`PROJECT.json`, `mutants`).

Deadlock is not checked: without clients a server waits for ever, it stops after a
shutdown, and workers orphaned as in `lf_orphans` do wait for ever.

Fairness. Each process takes its next step as long as it has one: weak fairness per worker
(with `tcpmain`, which must return), for the manager, for the IF parent and for the
delivery of a pending SIGCHLD. Clients, signals from outside, faults and, but for
`if_final_wait`, the children of IF owe nothing; no call has to fail (`WorkerFails`, `CallFails`
and their like are no part of a fair step). In `IOMPSession` time passes whatever the
loop does (`SF` on `Tick`, which the scan disables again and again); in `TDHB` a loop does
not turn for ever without time passing, as a turn that takes none and changes nothing is no step.

### Findings
What each run shows, in short: `lf_pool`, `iomp_pool` and `if_fork` that every server model serves,
keeps what it shares consistent and stops, under every interleaving with one fault;
`iomp_session` and `tdhb` that data structures and buffers stay in order over any sequence of
events and pieces; the violation runs each a disagreement.

The seven violation runs are disagreements between the code and what it, its tests or its
README says: the double release of the accept mutex; orphaned LF workers that keep each
other alive; the listening socket that no epoll has armed after a worker has died; the last
wait of IF that cannot end; events of sessions the timeout scan has closed; and the two
computations of `body_remain_len` when a head goes through in pieces. `PROJECT.json` quotes the lines.

## 4. Proofs

Every safety invariant, every action property and both refinements that a passing run checks
are also proved, for all values of the constants: any number of workers, children,
connections, sessions and messages, any limits, lengths, capacities and timeouts, any command
lines, and any plan of faults. The only assumptions are the named ones on the constants
(`PoolAssumption`, `LFAssumption`, `IOMPAssumption`, `SessionAssumption`, `IFAssumption`,
`StartAssumption`, `TDHBAssumption`); they say what type a constant has, that sets of
connections are finite where connections are counted, and that the names used for "no
connection" and for events are none of a connection. `PROJECT.json` lists the theorems with
the property each states.

Few of the properties are inductive. For each part this is what they rest on.

### The manager (`PoolManager_proofs`)
The lemmas say what a step of the manager, or a worker's step that only changes `pc`, does
to each part of the invariant; both pools cite them.

* `ManagerInv`: where `index` points in each of the manager's loops. `TypeOK` needs it to
  know that `index` is a slot when the manager forks, restarts or writes.
* `QuietInv`: while the pool is wanted no running worker has the byte, and the manager has
  the write end of its pipe. This gives `NoQuitUnasked`.
* `SlotsInv`: which slots are free in each of the manager's loops; while it waits for the
  workers `index` is the *number* of those it has waited for, in whatever order they end,
  so that it has waited for all when the loop is over. This gives `CleanShutdown`.

### Leader-Follower (`LeaderFollower_proofs`)
* `PipesAlwaysAcyclic`: a fork adds the new worker to the write ends of others and nobody to
  its own pipe but the manager, so that it is the member of every group that contains it whose
  pipe nobody in the group holds.
* `AcceptMutexBounded`: the bound counts processes, the code counts with a semaphore and undo
  adjustments. `AdjInv` says what adjustment each place in the worker's loop has. `SemInv`
  says that `semval` and the workers that hold the mutex together make at most 1 plus `Spoilt`,
  the releases without holding it, whether after an error of `tcpmain` or after a `semop`
  that failed, those still to be done by workers at `"final"` included; a crash keeps it because its adjustment undoes exactly what the worker did.
* `MutexIsNeverLost` needs the other direction (`OweInv`): `semval` plus the holders is at
  least 1 plus the workers that have released once too often, and no holder is past its
  loop. When such a worker ends, the kernel takes its release back.
* `PoolImplementsConnectionPool`: each step of the pool is a step of `ConnectionPool` or a stutter. `SockInv`
  (where a worker is says whether it has a connection, and no two have the same) gives the
  steps that take, serve and drop; that there is room for a leader when the semaphore admits
  one is `SemInv` (`RoomForLeader`).
* `LossesAccountedFor`: before a fork fails, only crashes lose connections. `RemovalInv` ties
  the removal of the semaphore to that one failure; after it `DropInv` counts, with the lost
  connections, the workers that leave with one and those inside the mutex, who may come to:
  there are no more of them than `AcceptMutexBounded` allows.

### IO-Multiplex (`IOMultiplex_proofs`)
* `AtMostOneListener`, `ListeningIsKept`: `EventsInv` says what a batch may hold at each place
  of the loop; `TurnInv`, that all places where the right to accept is (epolls, workers told
  of it) are the same one, and what is different with a single worker, whose epoll keeps the
  socket; `LossInv`, that a worker that leaves with the right does so after a failed call.
* `EverySessionOwned`: `OwnerInv`, the same without counting.
* `PoolImplementsTurn`: with `TurnInv` the `CHOOSE` of the mapping has one candidate. Each
  step leaves the turn alone, passes it to the next slot or loses it.

### Sessions (`IOMPSession_proofs`)
* `EverySessionAccounted`, `TypeCorrect`: `SessionInv` says that the list of unused sessions and the
  tree have each session once, and which; `OrderInv` that the tree is in the order of age. A
  session is taken out, put in or moved by the macros' walk, so that the proofs rest on the facts of
  `SequenceLemmas` about removing and inserting. The type of `allocated` needs a count: when
  the list is empty and a connection waits, the arrays are full of open connections, so that
  there are fewer of them than connections (`RoomForArray`).
* `EachClosedOnce`: `DataInv` ties the application's data pointer to the connection's state.
* `EventsFindTheirSession`: without a timeout there is no scan, and nothing else closes a
  session that has an event left in the batch.

### Protocol (`TDHB_proofs`)
* `TypeCorrect`: the types alone are inductive, and that what a sender has left is never negative
  is `NextSendersCount`. A receiver's lengths may be any number, as `atoi` may make any.
* `WaitsWithinTimeout`: what a peer has waited and what is left of its timeout make up no
  more than the timeout, and what its clock was set back, until it gives up, since the code
  subtracts at least what `select()` waited, less what the clock was set back
  (`WaitInv`).
* `ClosesBetweenMessages`: a nonblocking receiver of which the whole head remains has read
  nothing (`HeadInv`).
* `StreamStaysIntact`, `ReceivesWhole`: one invariant, `InStep`, for both directions: of the last
  message one peer is the sender (or has sent it and waits), the other its receiver (or has received it). `SenderInv`
  and `ReceiverInv` say what the remaining lengths of either context mean in bytes written
  and read, and `Carried` that received bytes and those on the way are consecutive bytes of that
  message, as many as the sender has written. It is kept as long as `split` is empty and heads fit; `split` only
  grows, so that the induction may assume it of the earlier state. The part of `ReceivesWhole` about
  the buffer holds whatever the heads show and has an invariant of its own, `RoomInv`. A partial blocked write is the
  case that needs `CopiedInv`.

### Instance-Fork (`InstanceFork_proofs`)
* `TypeCorrect`, `CountIsExact`, `ChildrenLimited`, `NoChildIsLeft`: one invariant, `IFInv`, for all
  four, as none is inductive alone. The range of `process_count` in `TypeOK` needs
  `CountExact`; that a fork makes one child more needs that the connection about to be forked
  for has none yet (`AcceptedInv`); the limit needs that the test made at `"check"` still holds at
  `"fork"` (`RoomInv`), which it does because until then the handler can only count down.
* `RefusedIsFull`: at `"check"` the count is the number of children, and no other step refuses.

### The program (`Tcpdaemon_proofs`)
* `ServerKeepsChildren`, `ServerRefusesOnlyWhenFull`: each step of the program is, seen from
  `InstanceFork`, a step of it or a call that fails elsewhere, which `IFInv` does not look at.
* `FailuresAreTold`: by going through the steps that can give an exit status.
* `FailedSetupIsUndone`, `TypesCorrect`: `StartInv`. `TodoInv` says that the calls still to be
  made are the rest of the list of that server model, so that the length of `todo` tells
  which have been made; `EnvInv` and `EpollInv`, which fields of the environment are
  set after that many calls; `KernelInv`, that everything open was inherited or is in the environment. Then
  the clean-up functions, which go by the environment, close all that they should
  (`CleanedUp`). A descriptor that the kernel gives is the least that is free: it exists
  because the open ones are finitely many (`FreeFdIsFree`), and it is at least 3, since the
  inherited ones stay open, so that no clean-up takes it for an unset field.

### What is not proved
Liveness under fairness is out of the prover's reach and only model-checked: `BacklogServed` of
each server model, `EndedWorkerRestarted`, `ShutdownCompletes`, `OrphansEnd` (of IOMP),
`SessionsTimeOut`, `ChildrenReaped`, `CallsReturn` and `MessagesArrive`. The seven violation runs show that
something does not hold, for which an instance is enough. Induction over data is not needed anywhere:
no model has a recursive definition, and where a proof goes along a sequence (the walk of
the tree, the set-up's calls) it takes the least index instead (`LeastNatural`, `InitialPart`).

## 5. Not modelled

Logging and accessors: no state that decides what the server does. User, group, working
directory, umask, socket options and CPU affinity are set without looking at the result, and
nothing in the models depends on them. Memory: `malloc` may fail in the set-up and for
sessions; what is freed is not followed. The models of the pools start when their set-up,
which is in `Tcpdaemon`, has succeeded.

The red-black tree (colours and rotations) and the list are library code; what the program
uses of them is a sorted sequence and a queue. What an application does after `tcpdaemon()`
has returned to it, and timeouts so long that `begin_timestamp + timeout_seconds` overflows,
are listed as hazards only.

Windows: the branch of `tcpdaemon()` for it does not compile at this commit (2139 uses an
`argc` that the function does not have, 2178 misspells `return`), so that there is no
behaviour to be faithful to. TCP itself is reliable and ordered, as the kernel provides it.

## 6. Plan

Done, in this order: `PoolManager` with `LeaderFollower` (the core), `ConnectionPool` and
the refinement, `IOMultiplex`, `InstanceFork`, `IOMPSession`, `TDHB`; `Tcpdaemon`, `AcceptTurn`
and its refinement, failing calls, the tree and the clock in `IOMPSession`, heads that do not
fit and blocking writes in `TDHB`; the proofs, of LF first, then IF, IOMP, its sessions, TDHB and the
program. Every property of a passing run but liveness has its theorem.

What is left. Ten hazards have no property, each with its reason in `PROJECT.json`. Some are in
the models but nobody promises the contrary, or a property names them as its exception: a SIGTERM that nobody sees
(in the pools and in IF), the exit status of a daemon, a semaphore with the identifier 0, descriptor
0 closed for an epoll that is not there, a connection lost for want of memory, an empty body behind a
head written in part. Others are outside the models: the SIGCHLD handler left
behind in an application, a missing callback, timeouts that overflow. The proofs'
invariants are stated only in the proof modules, where TLC does not check them.
