----------------------------- MODULE IOMultiplex -----------------------------
(***************************************************************************)
(* The IO-Multiplex process pool of tcpdaemon (server model "IOMP"): the   *)
(* manager of PoolManager and the event loops of its workers, as far as    *)
(* they share something.  There is one epoll per slot, all created by the  *)
(* manager.  The listening socket is in every one of them but armed for    *)
(* reading in one, for one event (EPOLLONESHOT): the worker that gets the  *)
(* event empties the backlog and arms the socket in the next slot's epoll. *)
(* What a worker does with one session is in IOMPSession.                  *)
(***************************************************************************)
EXTENDS PoolManager

CONSTANT Conns  \* the client connections

\* What epoll_wait reports besides events of sessions.
ListenEvent == -1
PipeEvent   == -2

ASSUME IOMPAssumption == Conns \cap {ListenEvent, PipeEvent} = {}

VARIABLES
    armed,      \* the slots in whose epoll the listening socket is armed
    events,     \* the events of the batch each worker has still to handle
    quit_flag,  \* each worker's quit_flag
    sessions,   \* the sessions each worker has open
    conn        \* what became of each connection

vars == <<poolVars, armed, events, quit_flag, sessions, conn>>

WorkerStates == {"none", "enter", "wait", "batch", "accept", "transfer", "exit", "zombie"}
ConnStates == {"idle", "queued", "open", "closed", "dropped"}

\* Backlog of the listening socket: it is readable.
Backlog == {c \in Conns : conn[c] = "queued"}

TypeOK ==
    /\ PoolTypeOK(WorkerStates)
    /\ armed \in SUBSET Workers
    /\ events \in [Workers -> SUBSET (Conns \cup {ListenEvent, PipeEvent})]
    /\ quit_flag \in [Workers -> BOOLEAN]
    /\ sessions \in [Workers -> SUBSET Conns]
    /\ conn \in [Conns -> ConnStates]

\* InitDaemonEnv_IOMP: the socket is armed in the epoll of slot 0.
Init ==
    /\ PoolInit
    /\ armed = {0}
    /\ events = [w \in Workers |-> {}]
    /\ quit_flag = [w \in Workers |-> FALSE]
    /\ sessions = [w \in Workers |-> {}]
    /\ conn = [c \in Conns |-> "idle"]

\* A worker process ends: its sockets are closed, the epolls stay.
WorkerEnds(w) ==
    /\ GoTo(w, "zombie")
    /\ CloseWriteEndsOf(w)
    /\ events' = [events EXCEPT ![w] = {}]
    /\ quit_flag' = [quit_flag EXCEPT ![w] = FALSE]
    /\ sessions' = [sessions EXCEPT ![w] = {}]
    /\ conn' = [c \in Conns |-> IF c \in sessions[w] THEN "dropped" ELSE conn[c]]
    /\ UNCHANGED <<quit, mgrVars, armed>>

-----------------------------------------------------------------------------
(* tcpdaemon_IOMP_worker                                                   *)

\* The alive pipe is added to the epoll of the slot.
AddAlivePipe(w) ==
    /\ pc[w] = "enter"
    /\ GoTo(w, "wait")
    /\ UNCHANGED <<pipeVars, mgrVars, faults, armed, events, quit_flag, sessions, conn>>

\* epoll_wait: all that is ready, and any of the sessions may be. With several
\* workers the listening socket is disarmed by being reported.
EpollWait(w) ==
    /\ pc[w] = "wait"
    /\ \E ready \in SUBSET sessions[w] :
         LET listening == {e \in {ListenEvent} : w \in armed /\ Backlog # {}}
             piped     == {e \in {PipeEvent} : AlivePipeReadable(w)}
         IN  /\ ready \cup listening \cup piped # {}
             /\ events' = [events EXCEPT ![w] = ready \cup listening \cup piped]
             /\ armed' = IF listening # {} /\ process_count > 1 THEN armed \ {w} ELSE armed
    /\ GoTo(w, "batch")
    /\ UNCHANGED <<pipeVars, mgrVars, faults, quit_flag, sessions, conn>>

\* The next event of the batch, in any order, is the listening socket's.
OnListenSocket(w) ==
    /\ pc[w] = "batch"
    /\ ListenEvent \in events[w]
    /\ events' = [events EXCEPT ![w] = @ \ {ListenEvent}]
    /\ GoTo(w, "accept")
    /\ UNCHANGED <<pipeVars, mgrVars, faults, armed, quit_flag, sessions, conn>>

\* One turn of the accept loop: the connection becomes a session when tcpmain
\* returns WAITINGFOR_RECEIVING or _SENDING, and is closed otherwise.
Accept(w) ==
    /\ pc[w] = "accept"
    /\ \E c \in Backlog :
         \/ /\ conn' = [conn EXCEPT ![c] = "open"]
            /\ sessions' = [sessions EXCEPT ![w] = @ \cup {c}]
         \/ /\ conn' = [conn EXCEPT ![c] = "closed"]
            /\ UNCHANGED sessions
    /\ UNCHANGED <<pc, pipeVars, mgrVars, faults, armed, events, quit_flag>>

\* accept() returns EAGAIN: the backlog is empty.
AcceptedAll(w) ==
    /\ pc[w] = "accept"
    /\ Backlog = {}
    /\ GoTo(w, IF process_count > 1 THEN "transfer" ELSE "batch")
    /\ UNCHANGED <<pipeVars, mgrVars, faults, armed, events, quit_flag, sessions, conn>>

\* Mutant: the socket is armed in the worker's own epoll as well.
TransferListenKeepingIt(w) ==
    /\ pc[w] = "transfer"
    /\ armed' = armed \cup {w, (w + 1) % process_count}
    /\ GoTo(w, "batch")
    /\ UNCHANGED <<pipeVars, mgrVars, faults, events, quit_flag, sessions, conn>>

\* Mutant: the last slot's next one is not slot 0.
TransferListenNoWrap(w) ==
    /\ pc[w] = "transfer"
    /\ armed' = armed \cup {w + 1}
    /\ GoTo(w, "batch")
    /\ UNCHANGED <<pipeVars, mgrVars, faults, events, quit_flag, sessions, conn>>

\* The listening socket is armed in the epoll of the next slot.
TransferListen(w) ==
    /\ pc[w] = "transfer"
    /\ armed' = armed \cup {IF w + 1 >= process_count THEN 0 ELSE w + 1}
    /\ GoTo(w, "batch")
    /\ UNCHANGED <<pipeVars, mgrVars, faults, events, quit_flag, sessions, conn>>

\* Mutant: the worker leaves the batch at once.
OnAlivePipeBreaks(w) ==
    /\ pc[w] = "batch"
    /\ PipeEvent \in events[w]
    /\ events' = [events EXCEPT ![w] = {}]
    /\ quit_flag' = [quit_flag EXCEPT ![w] = TRUE]
    /\ UNCHANGED <<pc, pipeVars, mgrVars, faults, armed, sessions, conn>>

\* The rest of the batch is still handled.
OnAlivePipe(w) ==
    /\ pc[w] = "batch"
    /\ PipeEvent \in events[w]
    /\ events' = [events EXCEPT ![w] = @ \ {PipeEvent}]
    /\ quit_flag' = [quit_flag EXCEPT ![w] = TRUE]
    /\ UNCHANGED <<pc, pipeVars, mgrVars, faults, armed, sessions, conn>>

\* Mutant: the closed session stays among the sessions.
OnSessionKeepsIt(w) ==
    /\ pc[w] = "batch"
    /\ \E c \in events[w] \cap Conns :
         /\ events' = [events EXCEPT ![w] = @ \ {c}]
         /\ conn' \in {conn, [conn EXCEPT ![c] = "closed"]}
    /\ UNCHANGED <<pc, pipeVars, mgrVars, faults, armed, quit_flag, sessions>>

\* An event of a session: tcpmain has it closed, or wants to go on.
OnSession(w) ==
    /\ pc[w] = "batch"
    /\ \E c \in events[w] \cap Conns :
         /\ events' = [events EXCEPT ![w] = @ \ {c}]
         /\ \/ UNCHANGED <<sessions, conn>>
            \/ /\ sessions' = [sessions EXCEPT ![w] = @ \ {c}]
               /\ conn' = [conn EXCEPT ![c] = "closed"]
    /\ UNCHANGED <<pc, pipeVars, mgrVars, faults, armed, quit_flag>>

\* The end of the batch is where quit_flag is looked at.
BatchDone(w) ==
    /\ pc[w] = "batch"
    /\ events[w] = {}
    /\ GoTo(w, IF quit_flag[w] THEN "exit" ELSE "wait")
    /\ UNCHANGED <<pipeVars, mgrVars, faults, armed, events, quit_flag, sessions, conn>>

\* epoll_ctl, epoll_wait or accept fails: the worker function returns.
SystemCallFails(w) ==
    /\ pc[w] \in {"enter", "wait", "batch", "accept", "transfer"}
    /\ Fault("accept")
    /\ GoTo(w, "exit")
    /\ UNCHANGED <<pipeVars, mgrVars, armed, events, quit_flag, sessions, conn>>

WorkerExit(w) ==
    /\ pc[w] = "exit"
    /\ WorkerEnds(w)
    /\ UNCHANGED faults

\* A worker is killed or crashes, anywhere.
WorkerCrash(w) ==
    /\ Alive(w)
    /\ Fault("worker")
    /\ WorkerEnds(w)

-----------------------------------------------------------------------------
(* tcpdaemon_IOMP: the manager, whose steps leave epolls and sessions alone *)

StartWorker ==
    /\ ForkWorker \/ RebootWorker
    /\ UNCHANGED <<armed, events, quit_flag, sessions, conn>>

ManageWorkers ==
    /\ WaitpidChild \/ WriteQuit \/ ReapWorker \/ CleanAndReturn
    /\ UNCHANGED <<armed, events, quit_flag, sessions, conn>>

DisturbManager ==
    /\ Sigterm \/ ManagerKilled \/ ForkFails
    /\ UNCHANGED <<armed, events, quit_flag, sessions, conn>>

\* A client connects while some process has the listening socket open.
Connect(c) ==
    /\ conn[c] = "idle"
    /\ ~ ManagerEnded \/ \E w \in Workers : Alive(w)
    /\ conn' = [conn EXCEPT ![c] = "queued"]
    /\ UNCHANGED <<poolVars, armed, events, quit_flag, sessions>>

WorkerStep(w) ==
    \/ AddAlivePipe(w)
    \/ EpollWait(w)
    \/ OnListenSocket(w) \/ OnAlivePipe(w) \/ OnSession(w) \/ BatchDone(w)
    \/ Accept(w) \/ AcceptedAll(w)
    \/ TransferListen(w)
    \/ WorkerExit(w)

ManagerStep == StartWorker \/ ManageWorkers

Next ==
    \/ \E w \in Workers : WorkerStep(w) \/ SystemCallFails(w) \/ WorkerCrash(w)
    \/ ManagerStep
    \/ DisturbManager
    \/ \E c \in Conns : Connect(c)

\* Each process keeps running (the worker's part includes tcpmain, which
\* must not block); clients, signals and faults owe nothing.
Fairness ==
    /\ \A w \in Workers : WF_vars(WorkerStep(w))
    /\ WF_vars(ManagerStep)

Spec == Init /\ [][Next]_vars
FairSpec == Spec /\ Fairness

-----------------------------------------------------------------------------
(* Safety                                                                  *)

\* With several workers: those that have been told of the listening socket
\* and have not yet armed it for the next one.
Listeners == {w \in Workers : ListenEvent \in events[w] \/ pc[w] \in {"accept", "transfer"}}

\* The right to accept is in one place, an epoll or a worker: two
\* workers are never woken by the same connection.
OneListener ==
    process_count > 1 => Cardinality(armed) + Cardinality(Listeners) <= 1

\* Workers that quit, are replaced or die elsewhere do not lose the right to
\* accept: it is gone only after a system call failed or a worker died.
ListenKept ==
    armed = {} /\ Listeners = {} => faults["worker"] + faults["accept"] > 0

\* A connection belongs to the one worker that has it among its sessions.
SessionsOwned ==
    \A c \in Conns :
        Cardinality({w \in Workers : c \in sessions[w]}) = IF conn[c] = "open" THEN 1 ELSE 0

\* The pool implements AcceptTurn: it is the turn of the worker in whose epoll the
\* socket is armed, or who has been told of it and has not yet passed it on.
Turn == INSTANCE AcceptTurn WITH
            turn <- IF armed \cup Listeners = {} THEN -1
                    ELSE CHOOSE w \in armed \cup Listeners : TRUE
ImplementsTurn == Turn!Spec

-----------------------------------------------------------------------------
(* Liveness                                                                *)

\* While the manager keeps the pool and the right to accept is not lost, a
\* connection in the backlog is accepted, whichever slot's turn it is.
BacklogServed ==
    \A c \in Conns :
        conn[c] = "queued" ~>
            conn[c] # "queued" \/ ~ PoolWanted \/ (armed = {} /\ Listeners = {})

\* Once every quit byte is written the workers leave, whatever they are
\* doing, and the manager returns, unless it is killed.
ShutdownCompletes == mgr = "reaping" ~> mgr = "done" \/ faults["manager"] > 0

-----------------------------------------------------------------------------
(* What the source promises and the code does not keep                     *)

\* The manager monitors and restarts the workers, so the pool goes on accepting.
PoolKeepsAccepting ==
    \A c \in Conns : conn[c] = "queued" ~> conn[c] # "queued" \/ ~ PoolWanted
=============================================================================
