--------------------------- MODULE LeaderFollower ---------------------------
(***************************************************************************)
(* The Leader-Follower process pool of tcpdaemon (server model "LF"): the  *)
(* manager of PoolManager and tcpdaemon_LF_worker, the loop each worker    *)
(* process runs.  The workers share the listening socket and a System V    *)
(* semaphore, the accept mutex, taken and released with SEM_UNDO.          *)
(***************************************************************************)
EXTENDS PoolManager

CONSTANTS
    max_requests_per_process,   \* requests a worker serves before it is replaced (-n), 0: no limit
    Conns,                      \* the client connections
    NoConn                      \* "no socket"

ASSUME LFAssumption ==
    /\ max_requests_per_process \in Nat
    /\ NoConn \notin Conns

VARIABLES
    accept_mutex,   \* TRUE while the semaphore set exists
    semval,         \* the kernel's value of the semaphore
    semadj,         \* the kernel's SEM_UNDO adjustment of each worker
    sock,           \* the accepted socket each worker has open
    requests,       \* requests_per_process of each worker
    conn            \* what became of each connection

semVars == <<accept_mutex, semval, semadj>>
vars == <<poolVars, semVars, sock, requests, conn>>

WorkerStates == {"none", "enter", "select", "accept", "leave", "tcpmain",
                 "final", "exit", "zombie"}
ConnStates == {"idle", "queued", "accepted", "served", "dropped"}

\* A worker between the semop -1 and the semop +1 of one round of the loop.
Critical == {"select", "accept", "leave"}

\* Backlog of the listening socket: select() reports it readable.
Backlog == {c \in Conns : conn[c] = "queued"}

TypeOK ==
    /\ PoolTypeOK(WorkerStates)
    /\ accept_mutex \in BOOLEAN
    /\ semval \in Nat
    /\ semadj \in [Workers -> Int]
    /\ sock \in [Workers -> Conns \cup {NoConn}]
    /\ requests \in [Workers -> Nat]
    /\ conn \in [Conns -> ConnStates]

\* InitDaemonEnv_LF: no worker yet, the semaphore set to 1.
Init ==
    /\ PoolInit
    /\ accept_mutex = TRUE
    /\ semval = 1
    /\ semadj = [w \in Workers |-> 0]
    /\ sock = [w \in Workers |-> NoConn]
    /\ requests = [w \in Workers |-> 0]
    /\ conn = [c \in Conns |-> "idle"]

-----------------------------------------------------------------------------
(* The kernel: semop with SEM_UNDO                                         *)

\* Mutant: the mutex is taken without SEM_UNDO.
SemDownWithoutUndo(w) ==
    /\ semval > 0
    /\ semval' = semval - 1
    /\ UNCHANGED semadj

SemDown(w) ==
    /\ semval > 0
    /\ semval' = semval - 1
    /\ semadj' = [semadj EXCEPT ![w] = @ + 1]

\* Mutant: the mutex is released without SEM_UNDO.
SemUpWithoutUndo(w) ==
    /\ semval' = semval + 1
    /\ UNCHANGED semadj

SemUp(w) ==
    /\ semval' = semval + 1
    /\ semadj' = [semadj EXCEPT ![w] = @ - 1]

\* At the end of w the kernel applies its adjustment; Linux stops at zero.
UndoneSemval(w) ==
    IF accept_mutex
      THEN IF semval + semadj[w] < 0 THEN 0 ELSE semval + semadj[w]
      ELSE semval

\* A worker process ends: descriptors closed, semaphore adjustment applied,
\* a connection tcpmain has not finished with is lost.
WorkerEnds(w) ==
    /\ GoTo(w, "zombie")
    /\ semval' = UndoneSemval(w)
    /\ semadj' = [semadj EXCEPT ![w] = 0]
    /\ CloseWriteEndsOf(w)
    /\ sock' = [sock EXCEPT ![w] = NoConn]
    /\ conn' = [c \in Conns |->
                  IF c = sock[w] /\ conn[c] = "accepted" THEN "dropped" ELSE conn[c]]
    /\ UNCHANGED <<accept_mutex, requests, quit, mgrVars>>

-----------------------------------------------------------------------------
(* tcpdaemon_LF_worker                                                     *)

\* semop -1; it fails for everybody once the semaphore set has been removed.
EnterAcceptMutex(w) ==
    /\ pc[w] = "enter"
    /\ \/ /\ accept_mutex
          /\ SemDown(w)
          /\ GoTo(w, "select")
       \/ /\ ~ accept_mutex
          /\ GoTo(w, "final")
          /\ UNCHANGED <<semval, semadj>>
    /\ UNCHANGED <<accept_mutex, sock, requests, pipeVars, mgrVars, conn, faults>>

\* semop -1 fails for one worker: a signal ends its wait (a stopped worker that is
\* continued, a handler of the application), or the kernel has no room for the undo.
\* The worker leaves the loop, where it releases what it has not taken.
EnterAcceptMutexFails(w) ==
    /\ pc[w] = "enter"
    /\ accept_mutex
    /\ Fault("semop")
    /\ GoTo(w, "final")
    /\ UNCHANGED <<semVars, sock, requests, pipeVars, mgrVars, conn>>

\* select() on the listening socket and the alive pipe; the pipe is looked at first.
SelectReturns(w) ==
    /\ pc[w] = "select"
    /\ \/ /\ AlivePipeReadable(w)
          /\ GoTo(w, "final")
       \/ /\ ~ AlivePipeReadable(w)
          /\ Backlog # {}
          /\ GoTo(w, "accept")
    /\ UNCHANGED <<semVars, sock, requests, pipeVars, mgrVars, conn, faults>>

\* accept() blocks while the backlog is empty.
Accept(w) ==
    /\ pc[w] = "accept"
    /\ \E c \in Backlog :
         /\ sock' = [sock EXCEPT ![w] = c]
         /\ conn' = [conn EXCEPT ![c] = "accepted"]
    /\ GoTo(w, "leave")
    /\ UNCHANGED <<semVars, requests, pipeVars, mgrVars, faults>>

\* accept() or select() fails.
AcceptFails(w) ==
    /\ pc[w] \in {"select", "accept"}
    /\ Fault("accept")
    /\ GoTo(w, "final")
    /\ UNCHANGED <<semVars, sock, requests, pipeVars, mgrVars, conn>>

\* semop +1. It does not wait and its undo is in place, so it fails only when the
\* semaphore set is gone; the accepted connection then never reaches tcpmain.
LeaveAcceptMutex(w) ==
    /\ pc[w] = "leave"
    /\ \/ /\ accept_mutex
          /\ SemUp(w)
          /\ GoTo(w, "tcpmain")
       \/ /\ ~ accept_mutex
          /\ GoTo(w, "final")
          /\ UNCHANGED <<semval, semadj>>
    /\ UNCHANGED <<accept_mutex, sock, requests, pipeVars, mgrVars, conn, faults>>

\* Mutant: the worker goes on without closing the socket it has served.
TcpmainReturnLeaksSocket(w) ==
    /\ pc[w] = "tcpmain"
    /\ conn' = [conn EXCEPT ![sock[w]] = "served"]
    /\ requests' = [requests EXCEPT ![w] = @ + 1]
    /\ GoTo(w, IF max_requests_per_process # 0
                  /\ requests[w] + 1 >= max_requests_per_process
               THEN "exit" ELSE "enter")
    /\ UNCHANGED <<semVars, sock, pipeVars, mgrVars, faults>>

\* tcpmain returns. CLOSE: the socket is closed and the worker counts the
\* request; any other value leaves the loop with the socket open.
TcpmainReturn(w) ==
    /\ pc[w] = "tcpmain"
    /\ conn' = [conn EXCEPT ![sock[w]] = "served"]
    /\ \/ /\ sock' = [sock EXCEPT ![w] = NoConn]
          /\ requests' = [requests EXCEPT ![w] = @ + 1]
          /\ GoTo(w, IF max_requests_per_process # 0
                        /\ requests[w] + 1 >= max_requests_per_process
                     THEN "exit" ELSE "enter")
          /\ UNCHANGED faults
       \/ /\ Fault("tcpmain")
          /\ GoTo(w, "final")
          /\ UNCHANGED <<sock, requests>>
    /\ UNCHANGED <<semVars, pipeVars, mgrVars>>

\* The semop +1 after the loop, done whether or not the mutex is held.
FinalLeave(w) ==
    /\ pc[w] = "final"
    /\ GoTo(w, "exit")
    /\ IF accept_mutex THEN SemUp(w) ELSE UNCHANGED <<semval, semadj>>
    /\ UNCHANGED <<accept_mutex, sock, requests, pipeVars, mgrVars, conn, faults>>

\* After a fault it may fail, too, for want of room for the undo: of a worker that has
\* not taken the mutex or has released it before.
FinalLeaveFails(w) ==
    /\ pc[w] = "final"
    /\ accept_mutex
    /\ semadj[w] = 0
    /\ GoTo(w, "exit")
    /\ UNCHANGED <<semVars, sock, requests, pipeVars, mgrVars, conn, faults>>

WorkerExit(w) ==
    /\ pc[w] = "exit"
    /\ WorkerEnds(w)
    /\ UNCHANGED faults

\* A worker is killed or crashes, anywhere.
WorkerCrash(w) ==
    /\ Alive(w)
    /\ Fault("worker")
    /\ WorkerEnds(w)

-----------------------------------------------------------------------------
(* tcpdaemon_LF: the manager, and what its steps do to the rest            *)

\* A new worker starts with the manager's count of requests, which is 0.
StartWorker ==
    /\ ForkWorker \/ RebootWorker
    /\ requests' = [requests EXCEPT ![index] = 0]
    /\ UNCHANGED <<semVars, sock, conn>>

ManageWorkers ==
    /\ WaitpidChild \/ WriteQuit \/ ReapWorker
    /\ UNCHANGED <<semVars, sock, requests, conn>>

SignalManager ==
    /\ Sigterm \/ ManagerKilled
    /\ UNCHANGED <<semVars, sock, requests, conn>>

\* The semaphore set is removed: the workers' semop fails from now on.
CleanDaemonEnv_LF ==
    /\ accept_mutex' = FALSE
    /\ UNCHANGED <<semval, semadj, sock, requests, conn>>

DestroyPool == CleanAndReturn /\ CleanDaemonEnv_LF
GiveUp      == ForkFails /\ CleanDaemonEnv_LF

-----------------------------------------------------------------------------
\* A client connects while some process has the listening socket open.
Connect(c) ==
    /\ conn[c] = "idle"
    /\ ~ ManagerEnded \/ \E w \in Workers : Alive(w)
    /\ conn' = [conn EXCEPT ![c] = "queued"]
    /\ UNCHANGED <<poolVars, semVars, sock, requests>>

WorkerStep(w) ==
    \/ EnterAcceptMutex(w)
    \/ SelectReturns(w)
    \/ Accept(w)
    \/ LeaveAcceptMutex(w)
    \/ TcpmainReturn(w)
    \/ FinalLeave(w)
    \/ WorkerExit(w)

\* A system call of the worker fails.
WorkerFails(w) ==
    \/ EnterAcceptMutexFails(w)
    \/ AcceptFails(w)
    \/ FinalLeaveFails(w)

ManagerStep == StartWorker \/ ManageWorkers \/ DestroyPool

Next ==
    \/ \E w \in Workers : WorkerStep(w) \/ WorkerFails(w) \/ WorkerCrash(w)
    \/ ManagerStep
    \/ GiveUp
    \/ SignalManager
    \/ \E c \in Conns : Connect(c)

\* Each process keeps running (the worker's part includes tcpmain, which
\* the application must return from); clients, signals and faults owe nothing.
Fairness ==
    /\ \A w \in Workers : WF_vars(WorkerStep(w))
    /\ WF_vars(ManagerStep)

Spec == Init /\ [][Next]_vars
FairSpec == Spec /\ Fairness

-----------------------------------------------------------------------------
(* Safety                                                                  *)

InCritical == {w \in Workers : pc[w] \in Critical}

\* Times a worker came to the release after the loop without the mutex: tcpmain
\* returned another value than CLOSE, or semop failed to take it.
Spoilt == faults["tcpmain"] + faults["semop"]

\* The accept mutex admits one worker, and each release by a worker that does not
\* hold it lets in at most one more: crashes, restarts and other failed calls let
\* in none.
AcceptMutexBound == Cardinality(InCritical) <= 1 + Spoilt

\* The mutex cannot be lost with a worker that dies: while the semaphore
\* exists and is 0, some running worker is going to release it.
MutexNeverLost ==
    accept_mutex /\ semval = 0 =>
        \E w \in Workers : pc[w] \in Critical \cup {"final"}

\* An accepted connection is lost only with a crashed worker (one each) or when a
\* failed fork removes the semaphore under the workers inside the mutex.
DropsAccountedFor ==
    Cardinality({c \in Conns : conn[c] = "dropped"})
        <= faults["worker"] + faults["fork"] * (1 + Spoilt)

\* The pool implements ConnectionPool: the leaders are the workers in the
\* critical section, the connection held is the accepted socket.
Pool == INSTANCE ConnectionPool WITH
            leaders <- InCritical, holds <- sock, spoilt <- Spoilt
ImplementsPool == Pool!Spec

-----------------------------------------------------------------------------
(* Liveness                                                                *)

\* While the manager keeps the pool, a connection in the backlog is accepted,
\* whatever workers crash, fail to accept or reach their request limit.
BacklogServed ==
    \A c \in Conns : conn[c] = "queued" ~> conn[c] # "queued" \/ ~ PoolWanted

\* Once every quit byte is written the workers leave one after the other and
\* the manager returns, unless it is killed or the mutex was spoilt.
ShutdownCompletes ==
    mgr = "reaping" ~> mgr = "done" \/ faults["manager"] + Spoilt > 0

-----------------------------------------------------------------------------
(* What the source promises and the code does not keep                     *)

\* accept_mutex is a critical section around accept: one worker at a time.
AcceptMutex == Cardinality(InCritical) <= 1
=============================================================================
