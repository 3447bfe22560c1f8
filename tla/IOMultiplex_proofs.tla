-------------------------- MODULE IOMultiplex_proofs --------------------------
(***************************************************************************)
(* Proofs about IOMultiplex, for every number of workers, every set of     *)
(* connections and every plan of faults: types, the single right to        *)
(* accept, who owns a connection, and that the pool implements AcceptTurn. *)
(***************************************************************************)
EXTENDS IOMultiplex, PoolManager_proofs

TypeInv == TypeOK /\ ManagerInv

\* The manager's steps, which leave epolls and sessions alone.
ManagerSteps ==
    /\ ManagerAction
    /\ UNCHANGED <<armed, events, quit_flag, sessions, conn>>

\* All steps are a worker's, the manager's, a client's or none.
LEMMA NextCases ==
    ASSUME [Next]_vars
    PROVE  \/ \E w \in Workers : WorkerStep(w) \/ SystemCallFails(w) \/ WorkerCrash(w)
           \/ ManagerSteps
           \/ \E c \in Conns : Connect(c)
           \/ UNCHANGED vars
  BY DEF Next, ManagerStep, StartWorker, ManageWorkers, DisturbManager, ManagerSteps,
     ManagerAction

\* The steps of a worker that runs on.
WorkerRuns(w) ==
    \/ AddAlivePipe(w) \/ EpollWait(w) \/ OnListenSocket(w) \/ Accept(w) \/ AcceptedAll(w)
    \/ TransferListen(w) \/ OnAlivePipe(w) \/ OnSession(w) \/ BatchDone(w)
    \/ SystemCallFails(w)

-----------------------------------------------------------------------------
(* Type correctness                                                        *)

\* The initial state is well typed.
LEMMA InitTypeInv == Init => TypeInv
<1> SUFFICES ASSUME Init PROVE TypeInv
  OBVIOUS
<1>1. PoolTypeOK(WorkerStates) /\ ManagerInv
  BY PoolInitTypes DEF Init, WorkerStates
<1>2. /\ armed \in SUBSET Workers
      /\ events \in [Workers -> SUBSET (Conns \cup {ListenEvent, PipeEvent})]
      /\ quit_flag \in [Workers -> BOOLEAN]
      /\ sessions \in [Workers -> SUBSET Conns]
      /\ conn \in [Conns -> ConnStates]
  BY WorkersFacts DEF Init, ConnStates
<1>3. QED
  BY <1>1, <1>2 DEF TypeInv, TypeOK

\* The next slot is a slot.
LEMMA NextSlot ==
    ASSUME NEW w \in Workers
    PROVE  (IF w + 1 >= process_count THEN 0 ELSE w + 1) \in Workers
  BY WorkersFacts, PoolAssumption

\* A worker that runs on moves to another place, and touches no pipe.
LEMMA WorkerRunsPool ==
    ASSUME TypeInv, NEW w \in Workers, WorkerRuns(w)
    PROVE  /\ Alive(w)
           /\ \E s \in WorkerStates \ {"none", "zombie"} : GoTo(w, s)
           /\ UNCHANGED <<quit, writers, mgrVars>>
           /\ faults' = faults \/ Fault("accept")
<1>0. pc \in [Workers -> WorkerStates]
  BY DEF TypeInv, TypeOK, PoolTypeOK
<1> USE DEF Alive, WorkerStates, pipeVars
<1>1. CASE AddAlivePipe(w)
  BY <1>1 DEF AddAlivePipe
<1>2. CASE EpollWait(w)
  BY <1>2 DEF EpollWait
<1>3. CASE OnListenSocket(w)
  BY <1>3 DEF OnListenSocket
<1>4. CASE Accept(w)
  <2>1. GoTo(w, "accept")
    BY <1>0, <1>4 DEF Accept, GoTo
  <2>2. QED
    BY <1>4, <2>1 DEF Accept
<1>5. CASE AcceptedAll(w)
  BY <1>5 DEF AcceptedAll
<1>6. CASE TransferListen(w)
  BY <1>6 DEF TransferListen
<1>7. CASE OnAlivePipe(w) \/ OnSession(w)
  <2>1. GoTo(w, "batch")
    BY <1>0, <1>7 DEF OnAlivePipe, OnSession, GoTo
  <2>2. QED
    BY <1>7, <2>1 DEF OnAlivePipe, OnSession
<1>8. CASE BatchDone(w)
  BY <1>8 DEF BatchDone
<1>9. CASE SystemCallFails(w)
  BY <1>9 DEF SystemCallFails
<1>10. QED
  BY <1>1, <1>2, <1>3, <1>4, <1>5, <1>6, <1>7, <1>8, <1>9 DEF WorkerRuns

\* A worker that ends runs no more, and closes its write ends.
LEMMA WorkerEndsPool ==
    ASSUME TypeInv, NEW w \in Workers, WorkerExit(w) \/ WorkerCrash(w)
    PROVE  /\ Alive(w) /\ WorkerEnds(w)
           /\ faults' = faults \/ Fault("worker")
           /\ pc[w] = "exit" \/ Fault("worker")
  BY DEF WorkerExit, WorkerCrash, Alive

\* Every step keeps the types and what the manager knows of its index.
LEMMA NextTypeInv == TypeInv /\ [Next]_vars => TypeInv'
<1> SUFFICES ASSUME TypeInv, [Next]_vars PROVE TypeInv'
  OBVIOUS
<1>p. /\ pc \in [Workers -> WorkerStates] /\ faults \in [FaultKinds -> Nat]
      /\ writers \in [Workers -> SUBSET Processes]
      /\ PoolTypeOK(WorkerStates) /\ ManagerInv
  BY DEF TypeInv, TypeOK, PoolTypeOK
<1>t. /\ armed \in SUBSET Workers
      /\ events \in [Workers -> SUBSET (Conns \cup {ListenEvent, PipeEvent})]
      /\ quit_flag \in [Workers -> BOOLEAN]
      /\ sessions \in [Workers -> SUBSET Conns]
      /\ conn \in [Conns -> ConnStates]
  BY DEF TypeInv, TypeOK
<1>f. \A k \in {"worker", "accept"} : Fault(k) => faults' \in [FaultKinds -> Nat]
  BY <1>p, FaultCounted DEF FaultKinds
<1>1. ASSUME NEW w \in Workers, WorkerRuns(w) PROVE TypeInv'
  <2>1. PICK s \in WorkerStates \ {"none", "zombie"} : GoTo(w, s)
    BY <1>1, WorkerRunsPool
  <2>2. /\ pc[w] # "none" /\ UNCHANGED <<quit, writers, mgrVars>>
        /\ faults' \in [FaultKinds -> Nat]
    BY <1>p, <1>f, <1>1, WorkerRunsPool DEF Alive
  <2>3. PoolTypeOK(WorkerStates)' /\ ManagerInv'
    BY <1>p, <2>1, <2>2, WorkerKeepsTypes
  <2>4. armed' \in SUBSET Workers
    BY <1>t, <1>1, NextSlot DEF WorkerRuns, AddAlivePipe, EpollWait, OnListenSocket, Accept,
       AcceptedAll, TransferListen, OnAlivePipe, OnSession, BatchDone, SystemCallFails
  <2>5. events' \in [Workers -> SUBSET (Conns \cup {ListenEvent, PipeEvent})]
    BY <1>t, <1>1 DEF WorkerRuns, AddAlivePipe, EpollWait, OnListenSocket, Accept,
       AcceptedAll, TransferListen, OnAlivePipe, OnSession, BatchDone, SystemCallFails
  <2>6. quit_flag' \in [Workers -> BOOLEAN]
    BY <1>t, <1>1 DEF WorkerRuns, AddAlivePipe, EpollWait, OnListenSocket, Accept,
       AcceptedAll, TransferListen, OnAlivePipe, OnSession, BatchDone, SystemCallFails
  <2>7. sessions' \in [Workers -> SUBSET Conns] /\ conn' \in [Conns -> ConnStates]
    BY <1>t, <1>1 DEF WorkerRuns, AddAlivePipe, EpollWait, OnListenSocket, Accept,
       AcceptedAll, TransferListen, OnAlivePipe, OnSession, BatchDone, SystemCallFails,
       ConnStates, Backlog
  <2>8. QED
    BY <2>3, <2>4, <2>5, <2>6, <2>7 DEF TypeInv, TypeOK
<1>2. ASSUME NEW w \in Workers, WorkerExit(w) \/ WorkerCrash(w) PROVE TypeInv'
  <2>1. Alive(w) /\ WorkerEnds(w) /\ faults' \in [FaultKinds -> Nat]
    BY <1>p, <1>f, <1>2, WorkerEndsPool
  <2>2. GoTo(w, "zombie") /\ "zombie" \in WorkerStates /\ pc[w] # "none"
    BY <2>1 DEF WorkerEnds, WorkerStates, Alive
  <2>3. writers' \in [Workers -> SUBSET Processes] /\ quit' = quit /\ UNCHANGED mgrVars
    BY <1>p, <2>1 DEF WorkerEnds, CloseWriteEndsOf
  <2>4. PoolTypeOK(WorkerStates)' /\ ManagerInv'
    BY <1>p, <2>1, <2>2, <2>3, WorkerKeepsTypes
  <2>5. armed' = armed /\ conn' \in [Conns -> ConnStates]
    BY <1>t, <2>1 DEF WorkerEnds, ConnStates
  <2>6. /\ events' \in [Workers -> SUBSET (Conns \cup {ListenEvent, PipeEvent})]
        /\ quit_flag' \in [Workers -> BOOLEAN] /\ sessions' \in [Workers -> SUBSET Conns]
    BY <1>t, <2>1 DEF WorkerEnds
  <2>7. QED
    BY <1>t, <2>4, <2>5, <2>6 DEF TypeInv, TypeOK
<1>3. ASSUME ManagerSteps PROVE TypeInv'
  <2>1. PoolTypeOK(WorkerStates)' /\ ManagerInv'
    BY <1>p, <1>3, ManagerKeepsTypes DEF ManagerSteps, WorkerStates
  <2>2. QED
    BY <1>t, <1>3, <2>1 DEF ManagerSteps, TypeInv, TypeOK
<1>4. ASSUME (\E c \in Conns : Connect(c)) \/ UNCHANGED vars PROVE TypeInv'
  <2>1. UNCHANGED <<poolVars, armed, events, quit_flag, sessions>> /\ conn' \in [Conns -> ConnStates]
    BY <1>t, <1>4 DEF Connect, vars, ConnStates
  <2>2. QED
    BY <1>p, <1>t, <2>1 DEF TypeInv, TypeOK, PoolTypeOK, ManagerInv, poolVars, mgrVars, pipeVars
<1>5. QED
  BY <1>1, <1>2, <1>3, <1>4, NextCases DEF WorkerStep, WorkerRuns

\* In every reachable state the variables of the pool have their types.
LEMMA TypeInvariant == Spec => []TypeInv
  BY InitTypeInv, NextTypeInv, PTL DEF Spec

\* In every reachable state each variable of the pool has its type: the listening
\* socket is armed for slots of the pool only, and events are sessions' or one of the two.
THEOREM TypeCorrect == Spec => []TypeOK
  BY TypeInvariant, PTL DEF TypeInv

-----------------------------------------------------------------------------
(* What the manager keeps in every pool                                    *)

PoolInv == PipesAcyclic /\ QuietInv /\ SlotsInv

\* Workers start no worker, free no slot and close no write end but their own.
LEMMA WorkersLeavePool ==
    ASSUME TypeInv, NEW w \in Workers, WorkerRuns(w) \/ WorkerExit(w) \/ WorkerCrash(w)
    PROVE  /\ UNCHANGED mgrVars /\ quit' = quit
           /\ \A x \in Workers : Alive(x)' => Alive(x)
           /\ \A x \in Workers : pc'[x] = "none" <=> pc[x] = "none"
           /\ \A x \in Workers : writers'[x] \in {writers[x], writers[x] \ {w}}
<1>p. pc \in [Workers -> WorkerStates] /\ writers \in [Workers -> SUBSET Processes]
  BY DEF TypeInv, TypeOK, PoolTypeOK
<1>1. CASE WorkerRuns(w)
  BY <1>p, <1>1, WorkerRunsPool DEF GoTo, Alive
<1>2. CASE WorkerExit(w) \/ WorkerCrash(w)
  BY <1>p, <1>2, WorkerEndsPool DEF WorkerEnds, CloseWriteEndsOf, GoTo, Alive
<1>3. QED
  BY <1>1, <1>2

\* Every step keeps what the manager knows of the slots and of the pipes.
LEMMA NextPoolInv == TypeInv /\ PoolInv /\ [Next]_vars => PoolInv'
<1> SUFFICES ASSUME TypeInv, PoolInv, [Next]_vars PROVE PoolInv'
  OBVIOUS
<1>0. PoolTypeOK(WorkerStates) /\ ManagerInv
  BY DEF TypeInv, TypeOK
<1>1. ASSUME NEW w \in Workers, WorkerRuns(w) \/ WorkerExit(w) \/ WorkerCrash(w)
      PROVE  PoolInv'
  <2>1. \A x \in Workers : writers'[x] \subseteq writers[x]
    BY <1>1, WorkersLeavePool
  <2>2. \A x \in Workers : Manager \in writers[x] => Manager \in writers'[x]
    BY <1>1, WorkersLeavePool, WorkersFacts
  <2>3. PipesAcyclic'
    BY <1>1, <2>1, WorkersLeavePool, PipesShrink DEF PoolInv
  <2>4. QuietInv'
    BY <1>1, <2>2, WorkersLeavePool, QuietKept DEF PoolInv
  <2>5. SlotsInv'
    BY <1>1, WorkersLeavePool, SlotsKept DEF PoolInv
  <2>6. QED
    BY <2>3, <2>4, <2>5 DEF PoolInv
<1>2. ASSUME ManagerSteps PROVE PoolInv'
  BY <1>0, <1>2, ManagerKeepsPipes, ManagerKeepsQuiet, ManagerKeepsSlots
     DEF PoolInv, ManagerSteps
<1>3. ASSUME (\E c \in Conns : Connect(c)) \/ UNCHANGED vars PROVE PoolInv'
  <2>1. UNCHANGED <<pc, quit, writers, mgrVars>>
    BY <1>3 DEF Connect, vars, poolVars, pipeVars
  <2>2. PipesAcyclic' /\ QuietInv' /\ SlotsInv'
    BY <2>1, PipesShrink, QuietKept, SlotsKept DEF PoolInv, Alive
  <2>3. QED
    BY <2>2 DEF PoolInv
<1>4. QED
  BY <1>1, <1>2, <1>3, NextCases DEF WorkerStep, WorkerRuns

\* So the invariants of the manager hold in this pool.
LEMMA PoolInvariant == Spec => []PoolInv
<1>1. Init => PoolInv
  <2>1. PoolInit => PipesAcyclic
    BY DEF PoolInit, PipesAcyclic, Alive
  <2>2. QED
    BY <2>1, PoolInitKept DEF Init, PoolInv
<1>2. QED
  BY <1>1, NextPoolInv, TypeInvariant, PTL DEF Spec

\* For any number of workers: until the manager decides to end the pool, no running
\* worker is told to leave, whoever dies, is restarted or inherits which write ends.
THEOREM QuietWhileWanted == Spec => []NoQuitUnasked
<1>1. PoolInv => NoQuitUnasked
  BY QuietInvImplies DEF PoolInv
<1>2. QED
  BY <1>1, PoolInvariant, PTL

\* For any number of workers: the manager returns from an orderly shutdown only when
\* every worker has ended and been waited for, in whatever order they ended.
THEOREM ShutdownIsClean == Spec => []CleanShutdown
<1>1. PoolInv => CleanShutdown
  BY DEF PoolInv, SlotsInv, CleanShutdown
<1>2. QED
  BY <1>1, PoolInvariant, PTL

-----------------------------------------------------------------------------
(* One worker at a time may accept                                         *)

\* Those that may accept, or will be told of the listening socket.
HasTurn == armed \cup Listeners

\* Where a worker is says what its batch may hold: nothing is left of it outside
\* the batch, and the listening socket's event is used up by accepting.
EventsInv ==
    \A w \in Workers :
        /\ pc[w] \in {"none", "enter", "wait", "zombie"} => events[w] = {}
        /\ pc[w] \in {"accept", "transfer"} => ListenEvent \notin events[w]
        /\ events[w] \cap Conns \subseteq sessions[w]

\* The right to accept is in one place; a single worker keeps it in its epoll.
TurnInv ==
    /\ \A x, y \in HasTurn : x = y
    /\ process_count > 1 => armed \cap Listeners = {}
    /\ process_count = 1 => armed = {0} /\ \A w \in Workers : pc[w] # "transfer"

\* A worker that leaves with the right to accept does so after a failed call, and
\* the right is gone only after such a failure or the death of a worker.
LossInv ==
    /\ \A w \in Workers :
         pc[w] = "exit" /\ ListenEvent \in events[w] => faults["accept"] > 0
    /\ HasTurn = {} => faults["worker"] + faults["accept"] > 0

\* The events are none of the connections.
LEMMA EventsFacts ==
    /\ ListenEvent \notin Conns /\ PipeEvent \notin Conns
    /\ ListenEvent # PipeEvent
  BY IOMPAssumption DEF ListenEvent, PipeEvent

\* Every step keeps the events in their place.
LEMMA NextEventsInv == TypeInv /\ EventsInv /\ [Next]_vars => EventsInv'
<1> SUFFICES ASSUME TypeInv, EventsInv, [Next]_vars PROVE EventsInv'
  OBVIOUS
<1>t. /\ pc \in [Workers -> WorkerStates]
      /\ events \in [Workers -> SUBSET (Conns \cup {ListenEvent, PipeEvent})]
      /\ sessions \in [Workers -> SUBSET Conns]
      /\ PoolTypeOK(WorkerStates) /\ ManagerInv
  BY DEF TypeInv, TypeOK, PoolTypeOK
<1> USE EventsFacts DEF EventsInv, GoTo
<1>1. ASSUME NEW w \in Workers, AddAlivePipe(w) PROVE EventsInv'
  BY <1>t, <1>1 DEF AddAlivePipe
<1>2. ASSUME NEW w \in Workers, EpollWait(w) PROVE EventsInv'
  BY <1>t, <1>2 DEF EpollWait
<1>3. ASSUME NEW w \in Workers, OnListenSocket(w) PROVE EventsInv'
  BY <1>t, <1>3 DEF OnListenSocket
<1>4. ASSUME NEW w \in Workers, Accept(w) \/ AcceptedAll(w) \/ TransferListen(w) PROVE EventsInv'
  BY <1>t, <1>4 DEF Accept, AcceptedAll, TransferListen
<1>5. ASSUME NEW w \in Workers, OnAlivePipe(w) \/ OnSession(w) PROVE EventsInv'
  BY <1>t, <1>5 DEF OnAlivePipe, OnSession
<1>6. ASSUME NEW w \in Workers, BatchDone(w) \/ SystemCallFails(w) PROVE EventsInv'
  BY <1>t, <1>6 DEF BatchDone, SystemCallFails
<1>7. ASSUME NEW w \in Workers, WorkerExit(w) \/ WorkerCrash(w) PROVE EventsInv'
  BY <1>t, <1>7 DEF WorkerExit, WorkerCrash, WorkerEnds
<1>8. ASSUME ManagerSteps PROVE EventsInv'
  <2>1. events' = events /\ sessions' = sessions
    BY <1>8 DEF ManagerSteps
  <2>2. \A w \in Workers : \/ pc'[w] = pc[w]
                           \/ pc[w] = "none" /\ pc'[w] = "enter"
                           \/ pc[w] = "zombie" /\ pc'[w] = "none"
    BY <1>t, <1>8, ManagerMoves DEF ManagerSteps
  <2>3. QED
    BY <2>1, <2>2
<1>9. ASSUME (\E c \in Conns : Connect(c)) \/ UNCHANGED vars PROVE EventsInv'
  BY <1>9 DEF Connect, vars, poolVars
<1>10. QED
  BY <1>1, <1>2, <1>3, <1>4, <1>5, <1>6, <1>7, <1>8, <1>9, NextCases DEF WorkerStep

\* A pool of one worker has the turn for ever.
LEMMA OnlyWorker ==
    ASSUME TypeInv, process_count = 1
    PROVE  Workers = {0} /\ HasTurn \subseteq {0}
<1>1. Workers = {0}
  <2>1. \A w \in Workers : w \in Int /\ 0 <= w /\ w < process_count
    BY WorkersFacts
  <2>2. \A w \in Workers : w = 0
    BY <2>1
  <2>3. QED
    BY <2>2, WorkersFacts
<1>2. HasTurn \subseteq Workers
  BY DEF TypeInv, TypeOK, HasTurn, Listeners
<1>3. QED
  BY <1>1, <1>2

\* The turn stays where it is while its worker is told of the socket and accepts.
LEMMA TurnStays ==
    ASSUME TypeInv, EventsInv, TurnInv, NEW w \in Workers,
           \/ AddAlivePipe(w) \/ EpollWait(w) \/ OnListenSocket(w) \/ Accept(w)
           \/ AcceptedAll(w) \/ OnAlivePipe(w) \/ OnSession(w) \/ BatchDone(w)
    PROVE  HasTurn' = HasTurn /\ TurnInv'
<1>t. /\ pc \in [Workers -> WorkerStates] /\ armed \in SUBSET Workers
      /\ events \in [Workers -> SUBSET (Conns \cup {ListenEvent, PipeEvent})]
      /\ sessions \in [Workers -> SUBSET Conns]
  BY DEF TypeInv, TypeOK, PoolTypeOK
<1> USE PoolAssumption, EventsFacts DEF GoTo, HasTurn, Listeners, EventsInv
<1>1. CASE process_count = 1
  <2>1. armed = {0} /\ armed' = armed /\ Workers = {0}
    BY <1>1, OnlyWorker DEF TurnInv, AddAlivePipe, EpollWait, OnListenSocket, Accept, AcceptedAll,
       OnAlivePipe, OnSession, BatchDone
  <2>2. HasTurn' = {0} /\ HasTurn = {0}
    BY <2>1
  <2>3. pc'[0] # "transfer"
    BY <1>t, <1>1, <2>1 DEF TurnInv, AddAlivePipe, EpollWait, OnListenSocket, Accept, AcceptedAll,
       OnAlivePipe, OnSession, BatchDone
  <2>4. QED
    BY <1>1, <2>1, <2>2, <2>3 DEF TurnInv
<1>2. CASE process_count > 1
  <2>1. CASE EpollWait(w)
    <3>1. pc[w] = "wait" /\ events[w] = {} /\ w \notin Listeners
      BY <2>1 DEF EpollWait
    <3>2. /\ pc' = [pc EXCEPT ![w] = "batch"]
          /\ \/ w \in armed /\ armed' = armed \ {w} /\ ListenEvent \in events'[w]
             \/ armed' = armed /\ ListenEvent \notin events'[w]
          /\ \A x \in Workers \ {w} : events'[x] = events[x]
      BY <1>t, <1>2, <2>1 DEF EpollWait
    <3>3. CASE w \in armed /\ armed' = armed \ {w} /\ ListenEvent \in events'[w]
      <4>1. armed = {w} /\ Listeners = {} /\ armed' = {}
        BY <1>t, <1>2, <3>3 DEF TurnInv
      <4>2. Listeners' = {w}
        BY <1>t, <3>2, <3>3, <4>1
      <4>3. QED
        BY <1>2, <4>1, <4>2 DEF TurnInv
    <3>4. CASE armed' = armed /\ ListenEvent \notin events'[w]
      <4>1. Listeners' = Listeners
        BY <1>t, <3>1, <3>2, <3>4
      <4>2. QED
        BY <1>2, <3>4, <4>1 DEF TurnInv
    <3>5. QED
      BY <3>2, <3>3, <3>4
  <2>2. CASE ~ EpollWait(w)
    <3>1. armed' = armed
      BY <2>2 DEF AddAlivePipe, OnListenSocket, Accept, AcceptedAll, OnAlivePipe, OnSession, BatchDone
    <3>2. CASE OnListenSocket(w) \/ AcceptedAll(w)
      <4>1. Listeners' = Listeners
        BY <1>t, <1>2, <3>2 DEF OnListenSocket, AcceptedAll
      <4>2. QED
        BY <1>2, <3>1, <4>1 DEF TurnInv
    <3>3. CASE AddAlivePipe(w) \/ Accept(w) \/ BatchDone(w)
      <4>1. Listeners' = Listeners
        BY <1>t, <1>2, <3>3 DEF AddAlivePipe, Accept, BatchDone
      <4>2. QED
        BY <1>2, <3>1, <4>1 DEF TurnInv
    <3>4. CASE OnAlivePipe(w) \/ OnSession(w)
      <4>1. Listeners' = Listeners
        BY <1>t, <1>2, <3>4 DEF OnAlivePipe, OnSession
      <4>2. QED
        BY <1>2, <3>1, <4>1 DEF TurnInv
    <3>5. QED
      BY <2>2, <3>2, <3>3, <3>4
  <2>3. QED
    BY <2>1, <2>2
<1>3. QED
  BY <1>1, <1>2

\* The worker that arms the socket for the next slot has the turn, and gives it away.
LEMMA TurnPasses ==
    ASSUME TypeInv, EventsInv, TurnInv, NEW w \in Workers, TransferListen(w)
    PROVE  /\ HasTurn = {w} /\ HasTurn' = {IF w + 1 >= process_count THEN 0 ELSE w + 1}
           /\ TurnInv'
<1>t. /\ pc \in [Workers -> WorkerStates] /\ armed \in SUBSET Workers
      /\ events \in [Workers -> SUBSET (Conns \cup {ListenEvent, PipeEvent})]
  BY DEF TypeInv, TypeOK, PoolTypeOK
<1> DEFINE next == IF w + 1 >= process_count THEN 0 ELSE w + 1
<1>1. w \in Listeners /\ process_count > 1 /\ next \in Workers
  BY PoolAssumption, NextSlot DEF TransferListen, Listeners, TurnInv
<1>2. armed = {} /\ Listeners = {w}
  BY <1>t, <1>1 DEF TurnInv, HasTurn
<1> HIDE DEF next
<1>3. armed' = {next}
  BY <1>2 DEF TransferListen, next
<1>4. Listeners' = {}
  BY <1>t, <1>2 DEF TransferListen, Listeners, EventsInv, GoTo
<1>5. QED
  BY <1>1, <1>2, <1>3, <1>4 DEF TurnInv, HasTurn, next

\* A failed call or the end of a worker leaves the turn where it is, unless that
\* worker had been told of the socket: then it may be gone.
LEMMA TurnLost ==
    ASSUME TypeInv, EventsInv, TurnInv, NEW w \in Workers,
           SystemCallFails(w) \/ WorkerEnds(w)
    PROVE  /\ TurnInv'
           /\ HasTurn' = HasTurn \/ (HasTurn = {w} /\ w \in Listeners /\ HasTurn' = {})
<1>t. /\ pc \in [Workers -> WorkerStates] /\ armed \in SUBSET Workers
      /\ events \in [Workers -> SUBSET (Conns \cup {ListenEvent, PipeEvent})]
  BY DEF TypeInv, TypeOK, PoolTypeOK
<1>1. armed' = armed /\ Listeners' \in {Listeners, Listeners \ {w}}
  BY <1>t DEF SystemCallFails, WorkerEnds, Listeners, GoTo
<1>2. process_count = 1 => \A x \in Workers : pc'[x] # "transfer"
  BY <1>t DEF TurnInv, SystemCallFails, WorkerEnds, GoTo
<1>3. TurnInv'
  BY <1>1, <1>2 DEF TurnInv, HasTurn
<1>4. CASE w \in Listeners /\ Listeners' = Listeners \ {w}
  <2>1. HasTurn = {w}
    BY <1>t, <1>4 DEF TurnInv, HasTurn
  <2>2. CASE process_count = 1
    BY <1>1, <1>3, <2>1, <2>2 DEF HasTurn, TurnInv
  <2>3. CASE process_count > 1
    BY <1>1, <1>3, <1>4, <2>1, <2>3 DEF HasTurn, TurnInv
  <2>4. QED
    BY <1>3, <2>2, <2>3, <2>1, <1>4, PoolAssumption
<1>5. CASE ~ (w \in Listeners /\ Listeners' = Listeners \ {w})
  BY <1>1, <1>3, <1>5 DEF HasTurn
<1>6. QED
  BY <1>4, <1>5

\* The manager and the clients leave the turn alone.
LEMMA TurnUntouched ==
    ASSUME TypeInv, EventsInv, TurnInv,
           ManagerSteps \/ (\E c \in Conns : Connect(c)) \/ UNCHANGED vars
    PROVE  TurnInv' /\ HasTurn' = HasTurn /\ Listeners' = Listeners
<1>1. armed' = armed /\ events' = events
  BY DEF ManagerSteps, Connect, vars
<1>2. \A w \in Workers : \/ pc'[w] = pc[w]
                         \/ pc[w] = "none" /\ pc'[w] = "enter"
                         \/ pc[w] = "zombie" /\ pc'[w] = "none"
  <2>1. CASE ManagerSteps
    BY <2>1, ManagerMoves DEF ManagerSteps, TypeInv, TypeOK
  <2>2. CASE ~ ManagerSteps
    BY <2>2 DEF Connect, vars, poolVars
  <2>3. QED
    BY <2>1, <2>2
<1>3. Listeners' = Listeners
  BY <1>1, <1>2 DEF Listeners
<1>4. QED
  BY <1>1, <1>2, <1>3 DEF TurnInv, HasTurn

\* The part of the invariant that says where the right to accept is.
AcceptInv == EventsInv /\ TurnInv /\ LossInv

\* Every step keeps the right to accept in one place, or its loss accounted for.
LEMMA NextAcceptInv == TypeInv /\ AcceptInv /\ [Next]_vars => AcceptInv'
<1> SUFFICES ASSUME TypeInv, AcceptInv, [Next]_vars PROVE AcceptInv'
  OBVIOUS
<1>e. EventsInv /\ TurnInv /\ LossInv /\ EventsInv'
  BY NextEventsInv DEF AcceptInv
<1>t. /\ pc \in [Workers -> WorkerStates] /\ faults \in [FaultKinds -> Nat]
      /\ events \in [Workers -> SUBSET (Conns \cup {ListenEvent, PipeEvent})]
      /\ PoolTypeOK(WorkerStates) /\ ManagerInv
  BY DEF TypeInv, TypeOK, PoolTypeOK
<1>n. /\ faults["worker"] \in Nat /\ faults["accept"] \in Nat
      /\ "worker" \in FaultKinds /\ "accept" \in FaultKinds
  BY <1>t DEF FaultKinds
<1>f. \A k \in {"worker", "accept"} :
         Fault(k) => /\ faults'["worker"] \in Nat /\ faults'["accept"] \in Nat
                     /\ faults'["worker"] >= faults["worker"]
                     /\ faults'["accept"] >= faults["accept"]
                     /\ faults'[k] > 0
  <2>1. ASSUME NEW k \in {"worker", "accept"}, Fault(k)
        PROVE  /\ faults' \in [FaultKinds -> Nat] /\ faults'[k] = faults[k] + 1
               /\ \A j \in FaultKinds \ {k} : faults'[j] = faults[j]
    BY <1>t, <1>n, <2>1, FaultCounted
  <2>2. QED
    BY <1>n, <2>1
<1> USE DEF AcceptInv, LossInv, GoTo
<1>1. ASSUME NEW w \in Workers,
             \/ AddAlivePipe(w) \/ EpollWait(w) \/ OnListenSocket(w) \/ Accept(w)
             \/ AcceptedAll(w) \/ OnAlivePipe(w) \/ OnSession(w) \/ BatchDone(w)
      PROVE  AcceptInv'
  <2>1. HasTurn' = HasTurn /\ TurnInv'
    BY <1>e, <1>1, TurnStays
  <2>2. faults' = faults
    BY <1>1 DEF AddAlivePipe, EpollWait, OnListenSocket, Accept, AcceptedAll, OnAlivePipe,
       OnSession, BatchDone
  <2>3. \A x \in Workers : pc'[x] = "exit" /\ ListenEvent \in events'[x] =>
                              pc[x] = "exit" /\ ListenEvent \in events[x]
    BY <1>t, <1>1 DEF AddAlivePipe, EpollWait, OnListenSocket, Accept, AcceptedAll, OnAlivePipe,
       OnSession, BatchDone
  <2>4. QED
    BY <1>e, <2>1, <2>2, <2>3
<1>2. ASSUME NEW w \in Workers, TransferListen(w) PROVE AcceptInv'
  <2>1. TurnInv' /\ HasTurn' # {}
    BY <1>e, <1>2, TurnPasses
  <2>2. \A x \in Workers : pc'[x] = "exit" => pc[x] = "exit"
    BY <1>t, <1>2 DEF TransferListen
  <2>3. events' = events /\ faults' = faults
    BY <1>2 DEF TransferListen
  <2>4. QED
    BY <1>e, <2>1, <2>2, <2>3
<1>3. ASSUME NEW w \in Workers, SystemCallFails(w) PROVE AcceptInv'
  <2>1. TurnInv'
    BY <1>e, <1>3, TurnLost
  <2>2. /\ faults'["worker"] \in Nat /\ faults'["accept"] > 0 /\ faults'["accept"] \in Nat
    BY <1>f, <1>3 DEF SystemCallFails
  <2>3. QED
    BY <1>e, <2>1, <2>2
<1>4. ASSUME NEW w \in Workers, WorkerExit(w) \/ WorkerCrash(w) PROVE AcceptInv'
  <2>1. /\ WorkerEnds(w)
        /\ pc[w] = "exit" \/ Fault("worker")
        /\ faults' = faults \/ Fault("worker")
    BY <1>4, WorkerEndsPool
  <2>2. /\ TurnInv'
        /\ HasTurn' = HasTurn \/ (HasTurn = {w} /\ w \in Listeners /\ HasTurn' = {})
    BY <1>e, <2>1, TurnLost, WorkerEndsPool, <1>4
  <2>3. \A x \in Workers : pc'[x] = "exit" /\ ListenEvent \in events'[x] =>
                              pc[x] = "exit" /\ ListenEvent \in events[x]
    BY <1>t, <1>4 DEF WorkerExit, WorkerCrash, WorkerEnds
  <2>4. /\ faults'["worker"] \in Nat /\ faults'["accept"] \in Nat
        /\ faults'["worker"] >= faults["worker"] /\ faults'["accept"] >= faults["accept"]
    BY <1>n, <1>f, <2>1
  <2>5. \A x \in Workers : pc'[x] = "exit" /\ ListenEvent \in events'[x] => faults'["accept"] > 0
    BY <1>e, <1>n, <2>3, <2>4
  <2>6. HasTurn' = {} => faults'["worker"] + faults'["accept"] > 0
    <3>1. CASE HasTurn' = HasTurn
      BY <1>e, <1>n, <2>4, <3>1
    <3>2. CASE w \in Listeners /\ pc[w] = "exit"
      <4>1. faults["accept"] > 0
        BY <1>e, <3>2 DEF Listeners
      <4>2. QED
        BY <1>n, <2>4, <4>1
    <3>3. CASE Fault("worker")
      BY <1>f, <2>4, <3>3
    <3>4. QED
      BY <1>4, <2>2, <3>1, <3>2, <3>3, WorkerEndsPool
  <2>7. QED
    BY <1>e, <2>2, <2>5, <2>6
<1>5. ASSUME ManagerSteps \/ (\E c \in Conns : Connect(c)) \/ UNCHANGED vars PROVE AcceptInv'
  <2>1. TurnInv' /\ HasTurn' = HasTurn
    BY <1>e, <1>5, TurnUntouched
  <2>2. events' = events
    BY <1>5 DEF ManagerSteps, Connect, vars
  <2>3. \A x \in Workers : pc'[x] = "exit" => pc[x] = "exit"
    <3>1. CASE ManagerSteps
      BY <1>t, <3>1, ManagerMoves DEF ManagerSteps
    <3>2. CASE ~ ManagerSteps
      BY <1>5, <3>2 DEF Connect, vars, poolVars
    <3>3. QED
      BY <3>1, <3>2
  <2>4. faults'["worker"] = faults["worker"] /\ faults'["accept"] = faults["accept"]
    <3>1. CASE ManagerSteps
      BY <1>t, <3>1, ManagerFaults DEF ManagerSteps
    <3>2. CASE ~ ManagerSteps
      BY <1>5, <3>2 DEF Connect, vars, poolVars
    <3>3. QED
      BY <3>1, <3>2
  <2>5. QED
    BY <1>e, <2>1, <2>2, <2>3, <2>4
<1>6. QED
  BY <1>1, <1>2, <1>3, <1>4, <1>5, NextCases DEF WorkerStep

\* Initially the right to accept is in the epoll of slot 0.
LEMMA InitAcceptInv == Init => AcceptInv
<1> SUFFICES ASSUME Init PROVE AcceptInv
  OBVIOUS
<1>1. Listeners = {} /\ armed = {0}
  BY DEF Init, PoolInit, Listeners
<1>2. EventsInv /\ LossInv
  BY <1>1 DEF Init, PoolInit, EventsInv, LossInv, HasTurn
<1>3. \A w \in Workers : pc[w] # "transfer"
  BY DEF Init, PoolInit
<1>4. QED
  BY <1>1, <1>2, <1>3 DEF AcceptInv, TurnInv, HasTurn

\* So it is in every reachable state.
LEMMA AcceptInvariant == Spec => []AcceptInv
  BY InitAcceptInv, NextAcceptInv, TypeInvariant, PTL DEF Spec

\* For any number of workers, whatever fails and whoever dies: the listening socket is
\* armed in one epoll or one worker has been told of it, never two.
THEOREM AtMostOneListener == Spec => []OneListener
<1>1. ASSUME TypeInv, AcceptInv PROVE OneListener
  <2>1. SUFFICES ASSUME process_count > 1 PROVE Cardinality(armed) + Cardinality(Listeners) <= 1
    BY DEF OneListener
  <2>2. armed \cap Listeners = {} /\ \A x, y \in armed \cup Listeners : x = y
    BY <1>1, <2>1 DEF AcceptInv, TurnInv, HasTurn
  <2>3. CASE armed = {}
    <3>1. Cardinality(armed) = 0
      BY <2>3, FS_EmptySet
    <3>2. Listeners = {} \/ \E x : Listeners = {x}
      BY <2>2
    <3>3. Cardinality(Listeners) = 0 \/ Cardinality(Listeners) = 1
      BY <3>2, FS_EmptySet, FS_Singleton
    <3>4. QED
      BY <3>1, <3>3
  <2>4. CASE armed # {}
    <3>1. PICK x \in armed : armed = {x} /\ Listeners = {}
      BY <2>2, <2>4
    <3>2. Cardinality(armed) = 1 /\ Cardinality(Listeners) = 0
      BY <3>1, FS_EmptySet, FS_Singleton
    <3>3. QED
      BY <3>2
  <2>5. QED
    BY <2>3, <2>4
<1>2. QED
  BY <1>1, TypeInvariant, AcceptInvariant, PTL

\* For any number of workers: the right to accept is not lost by workers that leave
\* when told to, are replaced or fork late, but only by a failed call or a death.
THEOREM ListeningIsKept == Spec => []ListenKept
<1>1. AcceptInv => ListenKept
  BY DEF AcceptInv, LossInv, HasTurn, ListenKept
<1>2. QED
  BY <1>1, AcceptInvariant, PTL

-----------------------------------------------------------------------------
(* A connection has one owner                                              *)

\* An open connection is a session of some worker, and a session of one worker is
\* an open connection and a session of no other.
OwnerInv ==
    \A c \in Conns :
        /\ conn[c] = "open" => \E w \in Workers : c \in sessions[w]
        /\ \A w \in Workers : c \in sessions[w] =>
             conn[c] = "open" /\ \A x \in Workers : c \in sessions[x] => x = w

\* Every step keeps the ownership; what a worker closes is among its own.
LEMMA NextOwnerInv == TypeInv /\ EventsInv /\ OwnerInv /\ [Next]_vars => OwnerInv'
<1> SUFFICES ASSUME TypeInv, EventsInv, OwnerInv, [Next]_vars PROVE OwnerInv'
  OBVIOUS
<1>t. sessions \in [Workers -> SUBSET Conns] /\ conn \in [Conns -> ConnStates]
  BY DEF TypeInv, TypeOK
<1>1. ASSUME NEW w \in Workers, Accept(w) PROVE OwnerInv'
  <2>1. PICK c \in Conns :
           /\ conn[c] = "queued"
           /\ \/ /\ conn' = [conn EXCEPT ![c] = "open"]
                 /\ sessions' = [sessions EXCEPT ![w] = @ \cup {c}]
              \/ /\ conn' = [conn EXCEPT ![c] = "closed"]
                 /\ sessions' = sessions
    BY <1>1 DEF Accept, Backlog
  <2>2. \A x \in Workers : c \notin sessions[x]
    BY <2>1 DEF OwnerInv
  <2>3. QED
    BY <1>t, <2>1, <2>2 DEF OwnerInv
<1>2. ASSUME NEW w \in Workers, OnSession(w) PROVE OwnerInv'
  <2>1. PICK c \in events[w] \cap Conns :
           \/ UNCHANGED <<sessions, conn>>
           \/ /\ sessions' = [sessions EXCEPT ![w] = @ \ {c}]
              /\ conn' = [conn EXCEPT ![c] = "closed"]
    BY <1>2 DEF OnSession
  <2>2. c \in sessions[w] /\ \A x \in Workers : c \in sessions[x] => x = w
    BY <2>1 DEF EventsInv, OwnerInv
  <2>3. QED
    BY <1>t, <2>1, <2>2 DEF OwnerInv
<1>3. ASSUME NEW w \in Workers, WorkerEnds(w) PROVE OwnerInv'
  <2>1. /\ sessions' = [sessions EXCEPT ![w] = {}]
        /\ conn' = [c \in Conns |-> IF c \in sessions[w] THEN "dropped" ELSE conn[c]]
    BY <1>3 DEF WorkerEnds
  <2>2. QED
    BY <1>t, <2>1 DEF OwnerInv
<1>4. ASSUME NEW c \in Conns, Connect(c) PROVE OwnerInv'
  BY <1>t, <1>4 DEF Connect, OwnerInv
<1>5. CASE UNCHANGED <<sessions, conn>>
  BY <1>5 DEF OwnerInv
<1>6. ASSUME NEW w \in Workers, WorkerRuns(w), ~ Accept(w), ~ OnSession(w)
      PROVE  UNCHANGED <<sessions, conn>>
  BY <1>6 DEF WorkerRuns, AddAlivePipe, EpollWait, OnListenSocket, AcceptedAll, TransferListen,
     OnAlivePipe, BatchDone, SystemCallFails
<1>7. ManagerSteps \/ UNCHANGED vars => UNCHANGED <<sessions, conn>>
  BY DEF ManagerSteps, vars
<1>8. QED
  BY <1>1, <1>2, <1>3, <1>4, <1>5, <1>6, <1>7, NextCases
     DEF WorkerStep, WorkerRuns, WorkerExit, WorkerCrash

\* So each connection has one owner in every reachable state.
LEMMA OwnerInvariant == Spec => []OwnerInv
<1>1. Init => OwnerInv
  BY DEF Init, OwnerInv
<1>2. AcceptInv => EventsInv
  BY DEF AcceptInv
<1>3. QED
  BY <1>1, <1>2, NextOwnerInv, TypeInvariant, AcceptInvariant, PTL DEF Spec

\* For any number of workers and connections: an open connection is a session of
\* exactly one worker, and any other connection of none.
THEOREM EverySessionOwned == Spec => []SessionsOwned
<1>1. ASSUME OwnerInv PROVE SessionsOwned
  <2> SUFFICES ASSUME NEW c \in Conns
               PROVE  Cardinality({w \in Workers : c \in sessions[w]}) =
                        IF conn[c] = "open" THEN 1 ELSE 0
    BY DEF SessionsOwned
  <2>1. CASE conn[c] = "open"
    <3>1. PICK w \in Workers : {x \in Workers : c \in sessions[x]} = {w}
      BY <1>1, <2>1 DEF OwnerInv
    <3>2. QED
      BY <2>1, <3>1, FS_Singleton
  <2>2. CASE conn[c] # "open"
    <3>1. {x \in Workers : c \in sessions[x]} = {}
      BY <1>1, <2>2 DEF OwnerInv
    <3>2. QED
      BY <2>2, <3>1, FS_EmptySet
  <2>3. QED
    BY <2>1, <2>2
<1>2. QED
  BY <1>1, OwnerInvariant, PTL

-----------------------------------------------------------------------------
(* The pool implements AcceptTurn                                          *)

\* The turn of the mapping: the one worker that has it, or nobody's.
TurnBar == IF armed \cup Listeners = {} THEN -1 ELSE CHOOSE w \in armed \cup Listeners : TRUE

\* The mapping is determined by who may accept.
LEMMA TurnBarIs ==
    /\ HasTurn = {} => TurnBar = -1
    /\ \A w : HasTurn = {w} => TurnBar = w
  BY DEF HasTurn, TurnBar

\* A worker that has the turn is the only one, and is the turn of the mapping.
LEMMA TurnBarOf ==
    ASSUME TurnInv, NEW w \in HasTurn
    PROVE  HasTurn = {w} /\ TurnBar = w
<1>1. HasTurn = {w}
  BY DEF TurnInv
<1>2. QED
  BY <1>1, TurnBarIs

\* The slot after the last one is slot 0.
LEMMA NextSlotIsModulo ==
    ASSUME NEW w \in Workers
    PROVE  (IF w + 1 >= process_count THEN 0 ELSE w + 1) = (w + 1) % process_count
<1>1. w \in Int /\ 0 <= w /\ w < process_count /\ process_count \in Nat \ {0}
  BY WorkersFacts, PoolAssumption
<1>2. CASE w + 1 = process_count
  BY <1>1, <1>2
<1>3. CASE w + 1 < process_count
  BY <1>1, <1>3
<1>4. QED
  BY <1>1, <1>2, <1>3

\* Initially it is the turn of slot 0, as in AcceptTurn.
LEMMA InitImplementsTurn == Init => Turn!Init
<1> SUFFICES ASSUME Init PROVE Turn!Init
  OBVIOUS
<1>1. HasTurn = {0}
  BY DEF Init, PoolInit, HasTurn, Listeners
<1>2. TurnBar = 0
  BY <1>1, TurnBarIs
<1>3. sessions = [w \in Workers |-> {}] /\ conn = [c \in Conns |-> "idle"]
  BY DEF Init
<1>4. QED
  BY <1>2, <1>3 DEF Turn!Init, TurnBar, Workers, Turn!Workers

\* Each step is a step of AcceptTurn or changes nothing it sees: armed sockets, batches
\* and pipes show only in whose turn it is.
LEMMA NextImplementsTurn ==
    TypeInv /\ AcceptInv /\ AcceptInv' /\ [Next]_vars => [Turn!Next]_(Turn!vars)
<1> SUFFICES ASSUME TypeInv, AcceptInv, AcceptInv', [Next]_vars
             PROVE  Turn!Next \/ UNCHANGED Turn!vars
  OBVIOUS
<1>e. EventsInv /\ TurnInv /\ TurnInv'
  BY DEF AcceptInv
<1>t. sessions \in [Workers -> SUBSET Conns] /\ conn \in [Conns -> ConnStates]
  BY DEF TypeInv, TypeOK
<1>w. Turn!Workers = Workers
  BY DEF Workers, Turn!Workers
<1>h. HasTurn' = HasTurn => TurnBar' = TurnBar
  <2>1. CASE HasTurn = {}
    BY <2>1 DEF HasTurn, TurnBar
  <2>2. ASSUME NEW w \in HasTurn PROVE HasTurn' = HasTurn => TurnBar' = TurnBar
    <3>1. HasTurn = {w}
      BY <1>e DEF TurnInv
    <3>2. QED
      BY <3>1 DEF HasTurn, TurnBar
  <2>3. QED
    BY <2>1, <2>2
<1>s. TurnBar' = TurnBar /\ sessions' = sessions /\ conn' = conn => UNCHANGED Turn!vars
  BY DEF TurnBar, Turn!vars
<1>1. ASSUME NEW w \in Workers, Accept(w) PROVE Turn!Next
  <2>1. TurnBar = w
    BY <1>e, <1>1, TurnBarOf DEF Accept, HasTurn, Listeners
  <2>2. TurnBar' = TurnBar
    BY <1>e, <1>h, <1>1, TurnStays
  <2>3. PICK c \in Conns :
           /\ conn[c] = "queued"
           /\ \/ /\ conn' = [conn EXCEPT ![c] = "open"]
                 /\ sessions' = [sessions EXCEPT ![w] = @ \cup {c}]
              \/ /\ conn' = [conn EXCEPT ![c] = "closed"]
                 /\ sessions' = sessions
    BY <1>1 DEF Accept, Backlog
  <2>4. Turn!Take(w, c)
    BY <2>1, <2>2, <2>3 DEF Turn!Take, TurnBar
  <2>5. QED
    BY <1>w, <2>4 DEF Turn!Next
<1>2. ASSUME NEW w \in Workers, OnSession(w) PROVE Turn!Next \/ UNCHANGED Turn!vars
  <2>1. TurnBar' = TurnBar
    BY <1>e, <1>h, <1>2, TurnStays
  <2>2. PICK c \in events[w] \cap Conns :
           \/ UNCHANGED <<sessions, conn>>
           \/ /\ sessions' = [sessions EXCEPT ![w] = @ \ {c}]
              /\ conn' = [conn EXCEPT ![c] = "closed"]
    BY <1>2 DEF OnSession
  <2>3. CASE UNCHANGED <<sessions, conn>>
    BY <1>s, <2>1, <2>3
  <2>4. CASE ~ UNCHANGED <<sessions, conn>>
    <3>1. c \in sessions[w] /\ c \in Conns
      BY <1>e, <2>2 DEF EventsInv
    <3>2. Turn!Close(w, c)
      BY <2>1, <2>2, <2>4, <3>1 DEF Turn!Close, TurnBar
    <3>3. QED
      BY <1>w, <3>1, <3>2 DEF Turn!Next
  <2>5. QED
    BY <2>3, <2>4
<1>3. ASSUME NEW w \in Workers,
             \/ AddAlivePipe(w) \/ EpollWait(w) \/ OnListenSocket(w) \/ AcceptedAll(w)
             \/ OnAlivePipe(w) \/ BatchDone(w)
      PROVE  UNCHANGED Turn!vars
  <2>1. TurnBar' = TurnBar
    BY <1>e, <1>h, <1>3, TurnStays
  <2>2. sessions' = sessions /\ conn' = conn
    BY <1>3 DEF AddAlivePipe, EpollWait, OnListenSocket, AcceptedAll, OnAlivePipe, BatchDone
  <2>3. QED
    BY <1>s, <2>1, <2>2
<1>4. ASSUME NEW w \in Workers, TransferListen(w) PROVE Turn!Next
  <2>1. TurnBar = w /\ TurnBar' = (w + 1) % process_count
    <3>1. HasTurn = {w} /\ HasTurn' = {IF w + 1 >= process_count THEN 0 ELSE w + 1}
      BY <1>e, <1>4, TurnPasses
    <3>2. HasTurn' = {(w + 1) % process_count}
      BY <3>1, NextSlotIsModulo
    <3>3. QED
      BY <3>1, <3>2, TurnBarIs DEF HasTurn, TurnBar
  <2>2. sessions' = sessions /\ conn' = conn
    BY <1>4 DEF TransferListen
  <2>3. Turn!Pass(w)
    BY <2>1, <2>2 DEF Turn!Pass, TurnBar
  <2>4. QED
    BY <1>w, <2>3 DEF Turn!Next
<1>5. ASSUME NEW w \in Workers, SystemCallFails(w) PROVE Turn!Next \/ UNCHANGED Turn!vars
  <2>1. sessions' = sessions /\ conn' = conn
    BY <1>5 DEF SystemCallFails
  <2>2. CASE HasTurn' = HasTurn
    BY <1>h, <1>s, <2>1, <2>2
  <2>3. CASE HasTurn = {w} /\ HasTurn' = {}
    <3>1. TurnBar = w /\ TurnBar' = -1
      BY <2>3, TurnBarIs DEF HasTurn, TurnBar
    <3>2. Turn!Lose(w)
      BY <2>1, <3>1 DEF Turn!Lose, Turn!NoTurn, TurnBar
    <3>3. QED
      BY <1>w, <3>2 DEF Turn!Next
  <2>4. QED
    BY <1>e, <1>5, <2>2, <2>3, TurnLost
<1>6. ASSUME NEW w \in Workers, WorkerExit(w) \/ WorkerCrash(w) PROVE Turn!Next
  <2>1. WorkerEnds(w)
    BY <1>6 DEF WorkerExit, WorkerCrash
  <2>2. TurnBar' = TurnBar \/ (TurnBar = w /\ TurnBar' = -1)
    <3>1. HasTurn' = HasTurn \/ (HasTurn = {w} /\ HasTurn' = {})
      BY <1>e, <2>1, TurnLost
    <3>2. QED
      BY <1>h, <3>1, TurnBarIs DEF HasTurn, TurnBar
  <2>3. Turn!End(w)
    BY <2>1, <2>2 DEF WorkerEnds, Turn!End, Turn!NoTurn, TurnBar
  <2>4. QED
    BY <1>w, <2>3 DEF Turn!Next
<1>7. ASSUME NEW c \in Conns, Connect(c) PROVE Turn!Next
  <2>1. TurnBar' = TurnBar
    BY <1>e, <1>h, <1>7, TurnUntouched
  <2>2. Turn!Arrive(c)
    BY <1>7, <2>1 DEF Connect, Turn!Arrive, TurnBar
  <2>3. QED
    BY <2>2 DEF Turn!Next
<1>8. ASSUME ManagerSteps \/ UNCHANGED vars PROVE UNCHANGED Turn!vars
  <2>1. TurnBar' = TurnBar
    BY <1>e, <1>h, <1>8, TurnUntouched
  <2>2. QED
    BY <1>s, <1>8, <2>1 DEF ManagerSteps, vars
<1>9. QED
  BY <1>1, <1>2, <1>3, <1>4, <1>5, <1>6, <1>7, <1>8, NextCases DEF WorkerStep

\* The pool implements AcceptTurn for any number of workers and connections: accepting
\* goes round, each connection is taken once, by the worker whose turn it is, and the
\* turn is lost only by the worker that has it.
THEOREM PoolImplementsTurn == Spec => ImplementsTurn
<1>1. AcceptInv /\ AcceptInv' /\ TypeInv /\ [Next]_vars => [Turn!Next]_(Turn!vars)
  BY NextImplementsTurn
<1>2. QED
  BY <1>1, InitImplementsTurn, TypeInvariant, AcceptInvariant, PTL
     DEF Spec, ImplementsTurn, Turn!Spec
=============================================================================
