------------------------ MODULE LeaderFollower_proofs ------------------------
(***************************************************************************)
(* Proofs about LeaderFollower, for every number of workers, every request *)
(* limit, every set of connections and every plan of faults.               *)
(***************************************************************************)
EXTENDS LeaderFollower, PoolManager_proofs

TypeInv == TypeOK /\ ManagerInv

-----------------------------------------------------------------------------
(* Type correctness                                                        *)

\* The initial state is well typed.
LEMMA InitTypeInv == Init => TypeInv
<1> SUFFICES ASSUME Init PROVE TypeInv
  OBVIOUS
<1>1. PoolTypeOK(WorkerStates) /\ ManagerInv
  BY PoolInitTypes DEF Init, WorkerStates
<1>2. /\ semadj \in [Workers -> Int] /\ semval \in Nat /\ accept_mutex \in BOOLEAN
      /\ sock \in [Workers -> Conns \cup {NoConn}]
      /\ requests \in [Workers -> Nat]
      /\ conn \in [Conns -> ConnStates]
  BY DEF Init, ConnStates
<1>3. QED
  BY <1>1, <1>2 DEF TypeInv, TypeOK

\* A worker's step, typed where it touches what only the LF pool has, is typed.
LEMMA WorkerTypeInv ==
    ASSUME TypeInv, NEW w \in Workers, pc[w] # "none", NEW s \in WorkerStates, GoTo(w, s),
           quit' = quit, writers' \in [Workers -> SUBSET Processes],
           UNCHANGED mgrVars, faults' \in [FaultKinds -> Nat],
           accept_mutex' \in BOOLEAN, semval' \in Nat, semadj' \in [Workers -> Int],
           sock' \in [Workers -> Conns \cup {NoConn}], requests' \in [Workers -> Nat],
           conn' \in [Conns -> ConnStates]
    PROVE  TypeInv'
  BY WorkerKeepsTypes DEF TypeInv, TypeOK

\* Every step keeps the types and what the manager knows of its index.
LEMMA NextTypeInv == TypeInv /\ [Next]_vars => TypeInv'
<1> SUFFICES ASSUME TypeInv, [Next]_vars PROVE TypeInv'
  OBVIOUS
<1> USE DEF semVars, pipeVars
<1>p. /\ pc \in [Workers -> WorkerStates] /\ faults \in [FaultKinds -> Nat]
      /\ writers \in [Workers -> SUBSET Processes]
  BY DEF TypeInv, TypeOK, PoolTypeOK
<1>t. /\ accept_mutex \in BOOLEAN /\ semval \in Nat /\ semadj \in [Workers -> Int]
      /\ sock \in [Workers -> Conns \cup {NoConn}] /\ requests \in [Workers -> Nat]
      /\ conn \in [Conns -> ConnStates]
  BY DEF TypeInv, TypeOK
<1>f. \A k \in {"worker", "semop", "accept", "tcpmain"} : Fault(k) => faults' \in [FaultKinds -> Nat]
  BY <1>p, FaultCounted DEF FaultKinds
<1>1. ASSUME NEW w \in Workers, EnterAcceptMutex(w) PROVE TypeInv'
  <2>1. \E s \in WorkerStates : GoTo(w, s)
    BY <1>1 DEF EnterAcceptMutex, WorkerStates
  <2>2. semval' \in Nat /\ semadj' \in [Workers -> Int]
    BY <1>t, <1>1 DEF EnterAcceptMutex, SemDown
  <2>3. QED
    BY <1>p, <1>t, <1>1, <2>1, <2>2, WorkerTypeInv DEF EnterAcceptMutex
<1>2. ASSUME NEW w \in Workers, SelectReturns(w) PROVE TypeInv'
  <2>1. \E s \in WorkerStates : GoTo(w, s)
    BY <1>2 DEF SelectReturns, WorkerStates
  <2>2. QED
    BY <1>p, <1>t, <1>2, <2>1, WorkerTypeInv DEF SelectReturns
<1>3. ASSUME NEW w \in Workers, Accept(w) PROVE TypeInv'
  <2>1. GoTo(w, "leave") /\ "leave" \in WorkerStates
    BY <1>3 DEF Accept, WorkerStates
  <2>2. sock' \in [Workers -> Conns \cup {NoConn}] /\ conn' \in [Conns -> ConnStates]
    BY <1>t, <1>3 DEF Accept, Backlog, ConnStates
  <2>3. QED
    BY <1>p, <1>t, <1>3, <2>1, <2>2, WorkerTypeInv DEF Accept
<1>4. ASSUME NEW w \in Workers, LeaveAcceptMutex(w) PROVE TypeInv'
  <2>1. \E s \in WorkerStates : GoTo(w, s)
    BY <1>4 DEF LeaveAcceptMutex, WorkerStates
  <2>2. semval' \in Nat /\ semadj' \in [Workers -> Int]
    BY <1>t, <1>4 DEF LeaveAcceptMutex, SemUp
  <2>3. QED
    BY <1>p, <1>t, <1>4, <2>1, <2>2, WorkerTypeInv DEF LeaveAcceptMutex
<1>5. ASSUME NEW w \in Workers, TcpmainReturn(w) PROVE TypeInv'
  <2>1. \E s \in WorkerStates : GoTo(w, s)
    BY <1>5 DEF TcpmainReturn, WorkerStates
  <2>2. conn' \in [Conns -> ConnStates]
    BY <1>t, <1>5 DEF TcpmainReturn, ConnStates
  <2>3. faults' \in [FaultKinds -> Nat]
    BY <1>p, <1>f, <1>5 DEF TcpmainReturn
  <2>4. requests' \in [Workers -> Nat] /\ sock' \in [Workers -> Conns \cup {NoConn}]
    BY <1>t, <1>5 DEF TcpmainReturn
  <2>5. QED
    BY <1>p, <1>t, <1>5, <2>1, <2>2, <2>3, <2>4, WorkerTypeInv DEF TcpmainReturn
<1>6. ASSUME NEW w \in Workers, FinalLeave(w) PROVE TypeInv'
  <2>1. GoTo(w, "exit") /\ "exit" \in WorkerStates
    BY <1>6 DEF FinalLeave, WorkerStates
  <2>2. semval' \in Nat /\ semadj' \in [Workers -> Int]
    BY <1>t, <1>6 DEF FinalLeave, SemUp
  <2>3. QED
    BY <1>p, <1>t, <1>6, <2>1, <2>2, WorkerTypeInv DEF FinalLeave
<1>7. ASSUME NEW w \in Workers, WorkerExit(w) \/ WorkerCrash(w) PROVE TypeInv'
  <2>1. WorkerEnds(w) /\ pc[w] # "none" /\ faults' \in [FaultKinds -> Nat]
    BY <1>p, <1>f, <1>7 DEF WorkerExit, WorkerCrash, Alive
  <2>2. "zombie" \in WorkerStates
    BY DEF WorkerStates
  <2>3. semval' \in Nat /\ semadj' \in [Workers -> Int]
    BY <1>t, <2>1 DEF WorkerEnds, UndoneSemval
  <2>4. writers' \in [Workers -> SUBSET Processes]
    BY <1>p, <2>1 DEF WorkerEnds, CloseWriteEndsOf
  <2>5. conn' \in [Conns -> ConnStates] /\ sock' \in [Workers -> Conns \cup {NoConn}]
    BY <1>t, <2>1 DEF WorkerEnds, ConnStates
  <2>6. QED
    BY <1>t, <2>1, <2>2, <2>3, <2>4, <2>5, WorkerTypeInv DEF WorkerEnds
<1>8. ASSUME NEW w \in Workers, WorkerFails(w) PROVE TypeInv'
  <2>1. (\E s \in WorkerStates : GoTo(w, s)) /\ pc[w] # "none"
    BY <1>8 DEF WorkerFails, AcceptFails, EnterAcceptMutexFails, FinalLeaveFails, WorkerStates
  <2>2. faults' \in [FaultKinds -> Nat]
    BY <1>p, <1>f, <1>8 DEF WorkerFails, AcceptFails, EnterAcceptMutexFails, FinalLeaveFails
  <2>3. UNCHANGED <<semVars, sock, requests, pipeVars, mgrVars, conn>>
    BY <1>8 DEF WorkerFails, AcceptFails, EnterAcceptMutexFails, FinalLeaveFails
  <2>4. QED
    BY <1>p, <1>t, <2>1, <2>2, <2>3, WorkerTypeInv
<1>9. ASSUME StartWorker \/ ManageWorkers \/ SignalManager \/ DestroyPool \/ GiveUp
      PROVE  TypeInv'
  <2>1. ManagerAction
    BY <1>9 DEF StartWorker, ManageWorkers, SignalManager, DestroyPool, GiveUp, ManagerAction
  <2>2. PoolTypeOK(WorkerStates)' /\ ManagerInv'
    BY <2>1, ManagerKeepsTypes DEF TypeInv, TypeOK, WorkerStates
  <2>3. requests' \in [Workers -> Nat] /\ accept_mutex' \in BOOLEAN
    <3>1. CASE StartWorker
      <4>1. requests' = [requests EXCEPT ![index] = 0] /\ accept_mutex' = accept_mutex
        BY <3>1 DEF StartWorker
      <4>2. QED
        BY <1>t, <4>1
    <3>2. CASE ManageWorkers \/ SignalManager
      BY <1>t, <3>2 DEF ManageWorkers, SignalManager
    <3>3. CASE DestroyPool \/ GiveUp
      BY <1>t, <3>3 DEF DestroyPool, GiveUp, CleanDaemonEnv_LF
    <3>4. QED
      BY <1>9, <3>1, <3>2, <3>3
  <2>4. UNCHANGED <<semval, semadj, sock, conn>>
    BY <1>9 DEF StartWorker, ManageWorkers, SignalManager, DestroyPool, GiveUp, CleanDaemonEnv_LF
  <2>5. QED
    BY <1>t, <2>2, <2>3, <2>4 DEF TypeInv, TypeOK
<1>10. ASSUME (\E c \in Conns : Connect(c)) \/ UNCHANGED vars PROVE TypeInv'
  <2>1. UNCHANGED <<poolVars, semVars, sock, requests>> /\ conn' \in [Conns -> ConnStates]
    BY <1>t, <1>10 DEF Connect, vars, ConnStates
  <2>2. QED
    BY <2>1 DEF TypeInv, TypeOK, PoolTypeOK, ManagerInv, poolVars, mgrVars
<1>11. QED
  BY <1>1, <1>2, <1>3, <1>4, <1>5, <1>6, <1>7, <1>8, <1>9, <1>10
     DEF Next, WorkerStep, ManagerStep

\* In every reachable state the variables of the pool have their types.
LEMMA TypeInvariant == Spec => []TypeInv
  BY InitTypeInv, NextTypeInv, PTL DEF Spec

\* In every reachable state each variable of the pool has its type: the kernel's
\* semaphore never goes below zero and the manager's index stays inside the pool.
THEOREM TypeCorrect == Spec => []TypeOK
  BY TypeInvariant, PTL DEF TypeInv

-----------------------------------------------------------------------------
(* The inherited write ends form no cycle                                  *)

\* Every step keeps the write ends acyclic.
LEMMA NextPipesAcyclic == TypeInv /\ PipesAcyclic /\ [Next]_vars => PipesAcyclic'
<1> SUFFICES ASSUME TypeInv, PipesAcyclic, [Next]_vars PROVE PipesAcyclic'
  OBVIOUS
<1> USE DEF semVars, pipeVars, GoTo
<1>0. PoolTypeOK(WorkerStates) /\ ManagerInv
  BY DEF TypeInv, TypeOK
<1>1. ASSUME NEW w \in Workers,
             \/ EnterAcceptMutex(w) \/ SelectReturns(w) \/ Accept(w) \/ WorkerFails(w)
             \/ LeaveAcceptMutex(w) \/ TcpmainReturn(w) \/ FinalLeave(w)
      PROVE  PipesAcyclic'
  <2>1. /\ \A x \in Workers : Alive(x)' => Alive(x)
        /\ writers' = writers
    BY <1>0, <1>1 DEF PoolTypeOK, Alive, EnterAcceptMutex, SelectReturns, Accept, WorkerFails,
       AcceptFails, EnterAcceptMutexFails, FinalLeaveFails, LeaveAcceptMutex, TcpmainReturn,
       FinalLeave
  <2>2. QED
    BY <2>1, PipesShrink
<1>2. ASSUME NEW w \in Workers, WorkerExit(w) \/ WorkerCrash(w) PROVE PipesAcyclic'
  <2>1. /\ \A x \in Workers : Alive(x)' => Alive(x)
        /\ \A x \in Workers : writers'[x] \subseteq writers[x]
    BY <1>0, <1>2 DEF PoolTypeOK, Alive, WorkerExit, WorkerCrash, WorkerEnds, CloseWriteEndsOf
  <2>2. QED
    BY <2>1, PipesShrink
<1>3. ASSUME StartWorker \/ ManageWorkers \/ SignalManager \/ DestroyPool \/ GiveUp
      PROVE  PipesAcyclic'
  <2>1. ManagerAction
    BY <1>3 DEF StartWorker, ManageWorkers, SignalManager, DestroyPool, GiveUp, ManagerAction
  <2>2. QED
    BY <1>0, <2>1, ManagerKeepsPipes
<1>4. ASSUME (\E c \in Conns : Connect(c)) \/ UNCHANGED vars PROVE PipesAcyclic'
  <2>1. pc' = pc /\ writers' = writers
    BY <1>4 DEF Connect, vars, poolVars
  <2>2. QED
    BY <2>1 DEF PipesAcyclic, Alive
<1>5. QED
  BY <1>1, <1>2, <1>3, <1>4 DEF Next, WorkerStep, ManagerStep

\* For any number of workers, in any order of deaths and restarts: in every group
\* of running workers there is one whose pipe nobody in the group holds, so that
\* losing everybody else is always noticed by somebody.
THEOREM PipesAlwaysAcyclic == Spec => []PipesAcyclic
<1>1. Init => PipesAcyclic
  BY DEF Init, PoolInit, PipesAcyclic, Alive
<1>2. QED
  BY <1>1, TypeInvariant, NextPipesAcyclic, PTL DEF Spec

-----------------------------------------------------------------------------
(* The accept mutex                                                        *)

\* Workers the kernel would give the mutex back for.
Holders == {w \in Workers : semadj[w] = 1}

\* Workers that will add one to the semaphore while it exists: the holders, and
\* those on the way out of the loop that do not hold it.
Releasers == {w \in Workers : semadj[w] = 1 \/ (pc[w] = "final" /\ semadj[w] = 0)}

\* Where a worker is decides what its adjustment can be.
AdjInv ==
    \A w \in Workers :
        /\ pc[w] \in Critical => semadj[w] = 1
        /\ pc[w] \in {"none", "enter", "tcpmain", "zombie"} => semadj[w] = 0
        /\ pc[w] = "final" => semadj[w] \in {0, 1}
        /\ semadj[w] \in {-1, 0, 1}

\* What is in the semaphore and what will be added to it exceed one by no more than
\* the number of workers that came out of the loop without the mutex.
SemInv ==
    /\ AdjInv
    /\ accept_mutex => semval + Cardinality(Releasers) <= 1 + Spoilt
    /\ Cardinality(Holders) <= 1 + Spoilt

\* The releases by workers without the mutex are counted by a natural number, which
\* only a failed semop or an error return of tcpmain raises, by one.
LEMMA SpoiltType ==
    /\ faults \in [FaultKinds -> Nat] => Spoilt \in Nat
    /\ faults' \in [FaultKinds -> Nat] => Spoilt' \in Nat
  BY DEF FaultKinds, Spoilt

LEMMA SpoiltCounted ==
    ASSUME faults \in [FaultKinds -> Nat], NEW k \in FaultKinds, Fault(k)
    PROVE  /\ k \in {"tcpmain", "semop"} => Spoilt' = Spoilt + 1
           /\ k \notin {"tcpmain", "semop"} => Spoilt' = Spoilt
           /\ Spoilt' >= Spoilt
<1>1. /\ faults["tcpmain"] \in Nat /\ faults["semop"] \in Nat
      /\ "tcpmain" \in FaultKinds /\ "semop" \in FaultKinds
  BY DEF FaultKinds
<1>2. CASE k = "tcpmain"
  <2>1. faults'["tcpmain"] = faults["tcpmain"] + 1 /\ faults'["semop"] = faults["semop"]
    BY <1>1, <1>2, FaultCounted
  <2>2. QED
    BY <1>1, <1>2, <2>1 DEF Spoilt
<1>3. CASE k = "semop"
  <2>1. faults'["semop"] = faults["semop"] + 1 /\ faults'["tcpmain"] = faults["tcpmain"]
    BY <1>1, <1>3, FaultCounted
  <2>2. QED
    BY <1>1, <1>3, <2>1 DEF Spoilt
<1>4. CASE k \notin {"tcpmain", "semop"}
  <2>1. faults'["semop"] = faults["semop"] /\ faults'["tcpmain"] = faults["tcpmain"]
    BY <1>1, <1>4, FaultCounted
  <2>2. QED
    BY <1>1, <1>4, <2>1 DEF Spoilt
<1>5. QED
  BY <1>2, <1>3, <1>4

LEMMA SpoiltKept == faults' = faults => Spoilt' = Spoilt
  BY DEF Spoilt

\* Adjustments follow the program counter through every step.
LEMMA NextAdjInv == TypeInv /\ AdjInv /\ [Next]_vars => AdjInv'
<1> SUFFICES ASSUME TypeInv, AdjInv, [Next]_vars PROVE AdjInv'
  OBVIOUS
<1> USE DEF TypeInv, AdjInv, Critical, semVars, pipeVars, mgrVars, GoTo
<1>0. pc \in [Workers -> WorkerStates] /\ semadj \in [Workers -> Int]
  BY DEF TypeOK, PoolTypeOK
<1>1. ASSUME NEW w \in Workers, EnterAcceptMutex(w) PROVE AdjInv'
  BY <1>0, <1>1 DEF EnterAcceptMutex, SemDown
<1>2. ASSUME NEW w \in Workers, SelectReturns(w) \/ Accept(w) \/ WorkerFails(w) PROVE AdjInv'
  BY <1>0, <1>2 DEF SelectReturns, Accept, WorkerFails, AcceptFails, EnterAcceptMutexFails,
     FinalLeaveFails
<1>3. ASSUME NEW w \in Workers, LeaveAcceptMutex(w) PROVE AdjInv'
  BY <1>0, <1>3 DEF LeaveAcceptMutex, SemUp
<1>4. ASSUME NEW w \in Workers, TcpmainReturn(w) PROVE AdjInv'
  BY <1>0, <1>4 DEF TcpmainReturn
<1>5. ASSUME NEW w \in Workers, FinalLeave(w) PROVE AdjInv'
  BY <1>0, <1>5 DEF FinalLeave, SemUp
<1>6. ASSUME NEW w \in Workers, WorkerExit(w) \/ WorkerCrash(w) PROVE AdjInv'
  BY <1>0, <1>6 DEF WorkerExit, WorkerCrash, WorkerEnds
<1>7. CASE StartWorker
  <2>1. index \in Workers /\ pc[index] = "none" /\ PipeAndFork(index) /\ semadj' = semadj
    BY <1>7 DEF StartWorker, ForkWorker, RebootWorker, ManagerInv, Workers
  <2>2. QED
    BY <1>0, <2>1 DEF PipeAndFork
<1>8. ASSUME ManageWorkers PROVE AdjInv'
  <2>1. \/ pc' = pc
        \/ \E w \in Workers : pc[w] = "zombie" /\ GoTo(w, "none")
    BY <1>8 DEF ManageWorkers, WaitpidChild, ReapWorker, WriteQuit
  <2>2. semadj' = semadj
    BY <1>8 DEF ManageWorkers
  <2>3. QED
    BY <1>0, <2>1, <2>2
<1>9. ASSUME \/ SignalManager \/ DestroyPool \/ GiveUp
             \/ (\E c \in Conns : Connect(c)) \/ UNCHANGED vars
      PROVE  AdjInv'
  <2>1. pc' = pc /\ semadj' = semadj
    BY <1>9 DEF SignalManager, DestroyPool, GiveUp, CleanAndReturn, CleanDaemonEnv_LF, ForkFails,
       ManagerKilled, Sigterm, Connect, vars, poolVars
  <2>2. QED
    BY <2>1
<1>10. QED
  BY <1>1, <1>2, <1>3, <1>4, <1>5, <1>6, <1>7, <1>8, <1>9 DEF Next, WorkerStep, ManagerStep

\* A step that adds no holder, no releaser and nothing to the semaphore.
LEMMA CountsKept ==
    ASSUME TypeInv, SemInv, AdjInv',
           Releasers' \subseteq Releasers, Holders' \subseteq Holders,
           semval' \in Nat, semval' <= semval, accept_mutex' => accept_mutex,
           Spoilt' \in Nat, Spoilt' >= Spoilt
    PROVE  SemInv'
<1>1. /\ Releasers \in SUBSET Workers /\ Releasers' \in SUBSET Releasers
      /\ Holders \in SUBSET Workers /\ Holders' \in SUBSET Holders
      /\ Releasers' \in SUBSET Workers /\ Holders' \in SUBSET Workers
  BY DEF Releasers, Holders
<1>2. /\ Cardinality(Releasers) \in Nat /\ Cardinality(Releasers') \in Nat
      /\ Cardinality(Holders) \in Nat /\ Cardinality(Holders') \in Nat
  BY <1>1, WorkersFinite
<1>3. /\ Cardinality(Releasers') <= Cardinality(Releasers)
      /\ Cardinality(Holders') <= Cardinality(Holders)
  BY <1>1, CardSubset
<1>4. semval \in Nat /\ Spoilt \in Nat
  BY SpoiltType DEF TypeInv, TypeOK, PoolTypeOK
<1>5. QED
  BY <1>2, <1>3, <1>4 DEF SemInv

\* A step in which w, a releaser, is one no more, and adds at most one to the semaphore.
LEMMA CountsReleased ==
    ASSUME TypeInv, SemInv, AdjInv', NEW w \in Workers,
           accept_mutex => w \in Releasers,
           accept_mutex => Releasers' \subseteq Releasers \ {w},
           Holders' \subseteq Holders,
           semval' \in Nat, semval' <= semval + 1, accept_mutex' = accept_mutex,
           Spoilt' = Spoilt
    PROVE  SemInv'
<1>1. /\ Releasers \in SUBSET Workers /\ Releasers' \in SUBSET Workers
      /\ Holders \in SUBSET Workers /\ Holders' \in SUBSET Workers
  BY DEF Releasers, Holders
<1>2. /\ Cardinality(Releasers) \in Nat /\ Cardinality(Releasers') \in Nat
      /\ Cardinality(Holders) \in Nat /\ Cardinality(Holders') \in Nat
  BY <1>1, WorkersFinite
<1>3. accept_mutex => Cardinality(Releasers') <= Cardinality(Releasers) - 1
  BY <1>1, CardRemove
<1>4. Cardinality(Holders') <= Cardinality(Holders)
  BY <1>1, CardSubset
<1>5. semval \in Nat /\ Spoilt \in Nat
  BY SpoiltType DEF TypeInv, TypeOK, PoolTypeOK
<1>6. QED
  BY <1>2, <1>3, <1>4, <1>5 DEF SemInv

\* A step in which w comes out of the loop without the mutex.
LEMMA CountsAdded ==
    ASSUME TypeInv, SemInv, AdjInv', NEW w \in Workers,
           Releasers' \subseteq Releasers \cup {w}, Holders' = Holders,
           semval' = semval, accept_mutex' = accept_mutex, Spoilt' = Spoilt + 1
    PROVE  SemInv'
<1>1. /\ Releasers \in SUBSET Workers /\ Releasers' \in SUBSET Workers
      /\ Releasers' \in SUBSET (Releasers \cup {w}) /\ Holders \in SUBSET Workers
  BY DEF Releasers, Holders
<1>2. Cardinality(Releasers') <= Cardinality(Releasers) + 1
  BY <1>1, CardAdd
<1>3. /\ Cardinality(Releasers) \in Nat /\ Cardinality(Releasers') \in Nat
      /\ Cardinality(Holders) \in Nat
  BY <1>1, WorkersFinite
<1>4. semval \in Nat /\ Spoilt \in Nat
  BY SpoiltType DEF TypeInv, TypeOK, PoolTypeOK
<1>5. QED
  BY <1>2, <1>3, <1>4 DEF SemInv

\* Every step keeps the account of the semaphore.
LEMMA NextSemInv == TypeInv /\ TypeInv' /\ SemInv /\ [Next]_vars => SemInv'
<1> SUFFICES ASSUME TypeInv, TypeInv', SemInv, [Next]_vars PROVE SemInv'
  OBVIOUS
<1>a. AdjInv /\ AdjInv'
  BY NextAdjInv DEF SemInv
<1>t. /\ pc \in [Workers -> WorkerStates] /\ semadj \in [Workers -> Int]
      /\ semval \in Nat /\ semval' \in Nat
      /\ faults \in [FaultKinds -> Nat] /\ faults' \in [FaultKinds -> Nat]
      /\ Spoilt \in Nat /\ Spoilt' \in Nat
  BY SpoiltType DEF TypeInv, TypeOK, PoolTypeOK
<1>k. {"worker", "manager", "fork", "semop", "accept", "tcpmain"} \subseteq FaultKinds
  BY DEF FaultKinds
<1> USE DEF semVars, pipeVars, mgrVars, GoTo
<1>1. ASSUME NEW w \in Workers, EnterAcceptMutex(w) PROVE SemInv'
  <2>1. semadj[w] = 0 /\ w \notin Releasers /\ w \notin Holders
    BY <1>1, <1>a DEF EnterAcceptMutex, AdjInv, Releasers, Holders
  <2>2. CASE accept_mutex
    <3>1. /\ semval > 0 /\ semval' = semval - 1 /\ accept_mutex' = accept_mutex
          /\ Spoilt' = Spoilt
      BY <1>1, <2>2, SpoiltKept DEF EnterAcceptMutex, SemDown
    <3>2. /\ Releasers' \in SUBSET (Releasers \cup {w}) /\ Holders' \in SUBSET (Holders \cup {w})
          /\ Holders \in SUBSET Releasers
      BY <1>1, <1>t, <2>2 DEF EnterAcceptMutex, SemDown, Releasers, Holders
    <3>3. /\ Releasers \in SUBSET Workers /\ Releasers' \in SUBSET Workers
          /\ Holders \in SUBSET Workers /\ Holders' \in SUBSET Workers
      BY DEF Releasers, Holders
    <3>4. /\ Cardinality(Releasers') <= Cardinality(Releasers) + 1
          /\ Cardinality(Holders') <= Cardinality(Holders) + 1
          /\ Cardinality(Holders) <= Cardinality(Releasers)
      BY <3>2, <3>3, CardAdd, CardSubset
    <3>5. /\ Cardinality(Releasers) \in Nat /\ Cardinality(Releasers') \in Nat
          /\ Cardinality(Holders) \in Nat /\ Cardinality(Holders') \in Nat
      BY <3>3, WorkersFinite
    <3>6. QED
      BY <1>a, <1>t, <2>2, <3>1, <3>4, <3>5 DEF SemInv
  <2>3. CASE ~ accept_mutex
    <3>1. Holders' = Holders /\ accept_mutex' = accept_mutex /\ Spoilt' = Spoilt
      BY <1>1, <2>3, SpoiltKept DEF EnterAcceptMutex, Holders
    <3>2. QED
      BY <1>a, <2>3, <3>1 DEF SemInv
  <2>4. QED
    BY <2>2, <2>3
<1>2. ASSUME NEW w \in Workers, SelectReturns(w) \/ Accept(w) \/ AcceptFails(w) PROVE SemInv'
  <2>1. semadj[w] = 1 /\ semadj' = semadj /\ semval' = semval /\ accept_mutex' = accept_mutex
    BY <1>2, <1>a DEF SelectReturns, Accept, AcceptFails, AdjInv, Critical
  <2>2. Releasers' \subseteq Releasers /\ Holders' \subseteq Holders
    BY <1>2, <1>t, <2>1 DEF SelectReturns, Accept, AcceptFails, Releasers, Holders
  <2>3. Spoilt' >= Spoilt
    BY <1>2, <1>t, <1>k, SpoiltCounted, SpoiltKept DEF SelectReturns, Accept, AcceptFails
  <2>4. QED
    BY <1>a, <1>t, <2>1, <2>2, <2>3, CountsKept
<1>3. ASSUME NEW w \in Workers, LeaveAcceptMutex(w) PROVE SemInv'
  <2>1. semadj[w] = 1 /\ Spoilt' = Spoilt /\ accept_mutex' = accept_mutex
    BY <1>3, <1>a, SpoiltKept DEF LeaveAcceptMutex, AdjInv, Critical
  <2>2. CASE accept_mutex
    <3>1. /\ w \in Releasers /\ semval' <= semval + 1
          /\ Releasers' \subseteq Releasers \ {w} /\ Holders' \subseteq Holders
      BY <1>3, <1>t, <2>1, <2>2 DEF LeaveAcceptMutex, SemUp, Releasers, Holders
    <3>2. QED
      BY <1>a, <1>t, <2>1, <3>1, CountsReleased
  <2>3. CASE ~ accept_mutex
    <3>1. Releasers' \subseteq Releasers /\ Holders' \subseteq Holders /\ semval' = semval
      BY <1>3, <1>t, <2>1, <2>3 DEF LeaveAcceptMutex, Releasers, Holders
    <3>2. QED
      BY <1>a, <1>t, <2>1, <2>3, <3>1, CountsKept
  <2>4. QED
    BY <2>2, <2>3
<1>4. ASSUME NEW w \in Workers, TcpmainReturn(w) PROVE SemInv'
  <2>1. semadj[w] = 0 /\ semadj' = semadj /\ semval' = semval /\ accept_mutex' = accept_mutex
    BY <1>4, <1>a DEF TcpmainReturn, AdjInv
  <2>2. CASE Fault("tcpmain")
    <3>1. Spoilt' = Spoilt + 1
      BY <1>t, <1>k, <2>2, SpoiltCounted
    <3>2. Releasers' \subseteq Releasers \cup {w} /\ Holders' = Holders
      BY <1>4, <1>t, <2>1 DEF TcpmainReturn, Releasers, Holders
    <3>3. QED
      BY <1>a, <2>1, <3>1, <3>2, CountsAdded
  <2>3. CASE ~ Fault("tcpmain")
    <3>1. Spoilt' = Spoilt /\ pc'[w] \in {"enter", "exit"}
      BY <1>4, <1>t, <2>3, SpoiltKept DEF TcpmainReturn
    <3>2. Releasers' \subseteq Releasers /\ Holders' \subseteq Holders
      BY <1>4, <1>t, <2>1, <3>1 DEF TcpmainReturn, Releasers, Holders
    <3>3. QED
      BY <1>a, <1>t, <2>1, <3>1, <3>2, CountsKept
  <2>4. QED
    BY <2>2, <2>3
<1>5. ASSUME NEW w \in Workers, FinalLeave(w) PROVE SemInv'
  <2>1. semadj[w] \in {0, 1} /\ Spoilt' = Spoilt /\ accept_mutex' = accept_mutex
    BY <1>5, <1>a, SpoiltKept DEF FinalLeave, AdjInv
  <2>2. CASE accept_mutex
    <3>1. /\ w \in Releasers /\ semval' <= semval + 1
          /\ Releasers' \subseteq Releasers \ {w} /\ Holders' \subseteq Holders
      BY <1>5, <1>t, <2>1, <2>2 DEF FinalLeave, SemUp, Releasers, Holders
    <3>2. QED
      BY <1>a, <1>t, <2>1, <3>1, CountsReleased
  <2>3. CASE ~ accept_mutex
    <3>1. Releasers' \subseteq Releasers /\ Holders' \subseteq Holders /\ semval' = semval
      BY <1>5, <1>t, <2>1, <2>3 DEF FinalLeave, Releasers, Holders
    <3>2. QED
      BY <1>a, <1>t, <2>1, <2>3, <3>1, CountsKept
  <2>4. QED
    BY <2>2, <2>3
<1>6. ASSUME NEW w \in Workers, WorkerExit(w) \/ WorkerCrash(w) PROVE SemInv'
  <2>1. /\ accept_mutex' = accept_mutex /\ semval' = UndoneSemval(w)
        /\ semadj[w] \in {-1, 0, 1}
        /\ Spoilt' = Spoilt
    BY <1>6, <1>a, <1>t, <1>k, SpoiltCounted, SpoiltKept
       DEF WorkerExit, WorkerCrash, WorkerEnds, AdjInv
  <2>2. Releasers' \subseteq Releasers \ {w} /\ Holders' \subseteq Holders \ {w}
    BY <1>6, <1>t DEF WorkerExit, WorkerCrash, WorkerEnds, Releasers, Holders
  <2>3. CASE accept_mutex /\ semadj[w] = 1
    <3>1. w \in Releasers /\ semval' <= semval + 1
      BY <1>t, <2>1, <2>3 DEF UndoneSemval, Releasers
    <3>2. QED
      BY <1>a, <1>t, <2>1, <2>2, <3>1, CountsReleased
  <2>4. CASE ~ (accept_mutex /\ semadj[w] = 1)
    <3>1. semval' <= semval
      BY <1>t, <2>1, <2>4 DEF UndoneSemval
    <3>2. QED
      BY <1>a, <1>t, <2>1, <2>2, <3>1, CountsKept
  <2>5. QED
    BY <2>3, <2>4
<1>7. ASSUME StartWorker \/ ManageWorkers \/ SignalManager \/ DestroyPool \/ GiveUp
      PROVE  SemInv'
  <2>1. semadj' = semadj /\ semval' = semval /\ (accept_mutex' => accept_mutex)
    BY <1>7 DEF StartWorker, ManageWorkers, SignalManager, DestroyPool, GiveUp, CleanDaemonEnv_LF
  <2>2. \A w \in Workers : pc'[w] = "final" => pc[w] = "final"
    <3>1. \/ pc' = pc
          \/ \E w \in Workers, s \in {"none", "enter"} : GoTo(w, s)
          \/ pc' = [pc EXCEPT ![index] = "enter"]
      BY <1>7 DEF StartWorker, ManageWorkers, SignalManager, DestroyPool, GiveUp, ForkWorker,
         RebootWorker, PipeAndFork, WaitpidChild, ReapWorker, WriteQuit, CleanAndReturn, ForkFails,
         ManagerKilled, Sigterm
    <3>2. QED
      BY <1>t, <3>1
  <2>3. Releasers' \subseteq Releasers /\ Holders' \subseteq Holders
    BY <2>1, <2>2 DEF Releasers, Holders
  <2>4. Spoilt' >= Spoilt
    <3>1. faults' = faults \/ \E k \in {"fork", "manager"} : Fault(k)
      BY <1>7 DEF StartWorker, ManageWorkers, SignalManager, DestroyPool, GiveUp, ForkWorker,
         RebootWorker, WaitpidChild, ReapWorker, WriteQuit, CleanAndReturn, ForkFails,
         ManagerKilled, Sigterm
    <3>2. QED
      BY <1>t, <1>k, <3>1, SpoiltCounted, SpoiltKept
  <2>5. QED
    BY <1>a, <1>t, <2>1, <2>3, <2>4, CountsKept
<1>8. ASSUME (\E c \in Conns : Connect(c)) \/ UNCHANGED vars PROVE SemInv'
  <2>1. UNCHANGED <<pc, semadj, semval, accept_mutex, faults>>
    BY <1>8 DEF Connect, vars, poolVars
  <2>2. Releasers' = Releasers /\ Holders' = Holders
    BY <2>1 DEF Releasers, Holders
  <2>3. QED
    BY <1>a, <2>1, <2>2, SpoiltKept DEF SemInv
<1>9. ASSUME NEW w \in Workers, EnterAcceptMutexFails(w) PROVE SemInv'
  <2>1. semadj' = semadj /\ semval' = semval /\ accept_mutex' = accept_mutex
    BY <1>9 DEF EnterAcceptMutexFails
  <2>2. Spoilt' = Spoilt + 1
    BY <1>9, <1>t, <1>k, SpoiltCounted DEF EnterAcceptMutexFails
  <2>3. Releasers' \subseteq Releasers \cup {w} /\ Holders' = Holders
    BY <1>9, <1>t, <2>1 DEF EnterAcceptMutexFails, Releasers, Holders
  <2>4. QED
    BY <1>a, <2>1, <2>2, <2>3, CountsAdded
<1>10. ASSUME NEW w \in Workers, FinalLeaveFails(w) PROVE SemInv'
  <2>1. semadj' = semadj /\ semval' = semval /\ accept_mutex' = accept_mutex
    BY <1>10 DEF FinalLeaveFails
  <2>2. Spoilt' = Spoilt
    BY <1>10, SpoiltKept DEF FinalLeaveFails
  <2>3. Releasers' \subseteq Releasers /\ Holders' \subseteq Holders
    BY <1>10, <1>t, <2>1 DEF FinalLeaveFails, Releasers, Holders
  <2>4. QED
    BY <1>a, <1>t, <2>1, <2>2, <2>3, CountsKept
<1>11. QED
  BY <1>1, <1>2, <1>3, <1>4, <1>5, <1>6, <1>7, <1>8, <1>9, <1>10
     DEF Next, WorkerStep, WorkerFails, ManagerStep

\* The account holds initially: the semaphore is one and nobody holds it.
LEMMA InitSemInv == Init => SemInv
<1> SUFFICES ASSUME Init PROVE SemInv
  OBVIOUS
<1>1. AdjInv
  BY DEF Init, PoolInit, AdjInv, Critical
<1>2. Releasers = {} /\ Holders = {}
  BY DEF Init, PoolInit, Releasers, Holders
<1>3. semval = 1 /\ Spoilt = 0
  BY DEF Init, PoolInit, FaultKinds, Spoilt
<1>4. QED
  BY <1>1, <1>2, <1>3, FS_EmptySet DEF SemInv

\* So it holds in every reachable state.
LEMMA SemInvariant == Spec => []SemInv
<1>1. TypeInv /\ SemInv /\ [Next]_vars => SemInv'
  BY NextTypeInv, NextSemInv
<1>2. QED
  BY <1>1, TypeInvariant, InitSemInv, PTL DEF Spec

\* The workers inside the mutex are among its holders.
LEMMA SemInvBounds == TypeInv /\ SemInv => AcceptMutexBound
<1> SUFFICES ASSUME TypeInv, SemInv PROVE AcceptMutexBound
  OBVIOUS
<1>1. Holders \in SUBSET Workers /\ InCritical \in SUBSET Holders
  BY DEF Holders, InCritical, SemInv, AdjInv
<1>2. Cardinality(InCritical) <= Cardinality(Holders)
  BY <1>1, CardSubset
<1>3. Cardinality(InCritical) \in Nat /\ Cardinality(Holders) \in Nat
  BY <1>1, WorkersFinite
<1>4. Spoilt \in Nat
  BY SpoiltType DEF TypeInv, TypeOK, PoolTypeOK
<1>5. QED
  BY <1>2, <1>3, <1>4 DEF SemInv, AcceptMutexBound

\* For any number of workers and any faults: at most one worker is between taking and
\* releasing the accept mutex, plus one for each worker that so far came to the release
\* after the loop without the mutex, by a failed semop or an error return of tcpmain.
THEOREM AcceptMutexBounded == Spec => []AcceptMutexBound
  BY TypeInvariant, SemInvariant, SemInvBounds, PTL

-----------------------------------------------------------------------------
(* What the manager keeps in every pool                                    *)

\* The manager's steps; what they do to the rest of the pool is no matter here.
ManagerSteps == StartWorker \/ ManageWorkers \/ SignalManager \/ DestroyPool \/ GiveUp

\* All steps are a worker's, the manager's, a client's or none.
LEMMA NextCases ==
    ASSUME [Next]_vars
    PROVE  \/ \E w \in Workers : WorkerStep(w) \/ WorkerFails(w) \/ WorkerCrash(w)
           \/ ManagerSteps /\ ManagerAction
           \/ \E c \in Conns : Connect(c)
           \/ UNCHANGED vars
  BY DEF Next, ManagerStep, ManagerSteps, StartWorker, ManageWorkers, SignalManager, DestroyPool,
     GiveUp, ManagerAction

\* The steps of a worker that runs on.
WorkerRuns(w) ==
    \/ EnterAcceptMutex(w) \/ SelectReturns(w) \/ Accept(w) \/ WorkerFails(w)
    \/ LeaveAcceptMutex(w) \/ TcpmainReturn(w) \/ FinalLeave(w)

\* Workers start no worker, free no slot and close no write end but their own.
LEMMA WorkersLeavePool ==
    ASSUME TypeInv, NEW w \in Workers, WorkerRuns(w) \/ WorkerExit(w) \/ WorkerCrash(w)
    PROVE  /\ UNCHANGED mgrVars /\ quit' = quit /\ accept_mutex' = accept_mutex
           /\ \A x \in Workers : Alive(x)' => Alive(x)
           /\ \A x \in Workers : pc'[x] = "none" <=> pc[x] = "none"
           /\ \A x \in Workers : writers'[x] \in {writers[x], writers[x] \ {w}}
<1>p. pc \in [Workers -> WorkerStates] /\ writers \in [Workers -> SUBSET Processes]
  BY DEF TypeInv, TypeOK, PoolTypeOK
<1> USE DEF GoTo, Alive, semVars, pipeVars
<1>1. CASE EnterAcceptMutex(w) \/ SelectReturns(w) \/ Accept(w) \/ WorkerFails(w)
  BY <1>p, <1>1 DEF EnterAcceptMutex, SelectReturns, Accept, WorkerFails, AcceptFails,
     EnterAcceptMutexFails, FinalLeaveFails
<1>2. CASE LeaveAcceptMutex(w) \/ TcpmainReturn(w) \/ FinalLeave(w)
  BY <1>p, <1>2 DEF LeaveAcceptMutex, TcpmainReturn, FinalLeave
<1>3. CASE WorkerExit(w) \/ WorkerCrash(w)
  BY <1>p, <1>3 DEF WorkerExit, WorkerCrash, WorkerEnds, CloseWriteEndsOf
<1>4. QED
  BY <1>1, <1>2, <1>3 DEF WorkerRuns

\* What the manager knows of the slots, and that it has told nobody to leave.
PoolInv == QuietInv /\ SlotsInv

\* Every step keeps that.
LEMMA NextPoolInv == TypeInv /\ PoolInv /\ [Next]_vars => PoolInv'
<1> SUFFICES ASSUME TypeInv, PoolInv, [Next]_vars PROVE PoolInv'
  OBVIOUS
<1>0. PoolTypeOK(WorkerStates) /\ ManagerInv
  BY DEF TypeInv, TypeOK
<1>1. ASSUME NEW w \in Workers, WorkerRuns(w) \/ WorkerExit(w) \/ WorkerCrash(w)
      PROVE  PoolInv'
  <2>1. \A x \in Workers : Manager \in writers[x] => Manager \in writers'[x]
    BY <1>1, WorkersLeavePool, WorkersFacts
  <2>2. QuietInv'
    BY <1>1, <2>1, WorkersLeavePool, QuietKept DEF PoolInv
  <2>3. SlotsInv'
    BY <1>1, WorkersLeavePool, SlotsKept DEF PoolInv
  <2>4. QED
    BY <2>2, <2>3 DEF PoolInv
<1>2. ASSUME ManagerAction PROVE PoolInv'
  BY <1>0, <1>2, ManagerKeepsQuiet, ManagerKeepsSlots DEF PoolInv
<1>3. ASSUME (\E c \in Conns : Connect(c)) \/ UNCHANGED vars PROVE PoolInv'
  <2>1. UNCHANGED <<pc, quit, writers, mgrVars>>
    BY <1>3 DEF Connect, vars, poolVars, pipeVars
  <2>2. QuietInv' /\ SlotsInv'
    BY <2>1, QuietKept, SlotsKept DEF PoolInv, Alive
  <2>3. QED
    BY <2>2 DEF PoolInv
<1>4. QED
  BY <1>1, <1>2, <1>3, NextCases DEF WorkerStep, WorkerRuns

\* So it holds in every reachable state.
LEMMA PoolInvariant == Spec => []PoolInv
<1>1. Init => PoolInv
  BY PoolInitKept DEF Init, PoolInv
<1>2. QED
  BY <1>1, NextPoolInv, TypeInvariant, PTL DEF Spec

\* For any number of workers: until the manager decides to end the pool, no running
\* worker is told to leave, whoever dies, is restarted or inherits which write ends.
THEOREM QuietWhileWanted == Spec => []NoQuitUnasked
<1>1. PoolInv => NoQuitUnasked
  BY QuietInvImplies DEF PoolInv
<1>2. QED
  BY <1>1, PoolInvariant, PTL

\* For any number of workers: the manager returns from an orderly shutdown only when
\* every worker has ended and been waited for, in whatever order they ended.
THEOREM ShutdownIsClean == Spec => []CleanShutdown
<1>1. PoolInv => CleanShutdown
  BY DEF PoolInv, SlotsInv, CleanShutdown
<1>2. QED
  BY <1>1, PoolInvariant, PTL

-----------------------------------------------------------------------------
(* The accept mutex is not lost                                            *)

\* Workers that have added one more than they took: their end takes it back.
Debtors == {w \in Workers : semadj[w] = -1}

\* While the semaphore exists, what is in it and what the kernel would give back for
\* the holders exceed what the kernel would take back, and no holder is past the loop.
OweInv ==
    accept_mutex =>
        /\ semval + Cardinality(Holders) >= 1 + Cardinality(Debtors)
        /\ \A w \in Workers : pc[w] = "exit" => semadj[w] # 1

\* The workers with adjustment v.
Adjusted(v) == {w \in Workers : semadj[w] = v}

\* When one worker's adjustment changes to a, the workers with adjustment v are one
\* more, one less or as many.
LEMMA CountMoves ==
    ASSUME TypeInv, NEW w \in Workers, NEW a \in Int, NEW v \in Int,
           semadj' = [semadj EXCEPT ![w] = a]
    PROVE  /\ Cardinality(Adjusted(v)) \in Nat /\ Cardinality(Adjusted(v)') \in Nat
           /\ a = v /\ semadj[w] # v =>
                Cardinality(Adjusted(v)') = Cardinality(Adjusted(v)) + 1
           /\ a # v /\ semadj[w] = v =>
                Cardinality(Adjusted(v)') = Cardinality(Adjusted(v)) - 1
           /\ (a = v <=> semadj[w] = v) =>
                Cardinality(Adjusted(v)') = Cardinality(Adjusted(v))
<1>t. semadj \in [Workers -> Int]
  BY DEF TypeInv, TypeOK
<1>1. /\ Adjusted(v) \in SUBSET Workers /\ Adjusted(v)' \in SUBSET Workers
      /\ IsFiniteSet(Adjusted(v)) /\ Cardinality(Adjusted(v)) \in Nat
      /\ IsFiniteSet(Adjusted(v)') /\ Cardinality(Adjusted(v)') \in Nat
  BY WorkersFinite DEF Adjusted
<1>2. CASE a = v /\ semadj[w] # v
  <2>1. Adjusted(v)' = Adjusted(v) \cup {w} /\ w \notin Adjusted(v)
    BY <1>t, <1>2 DEF Adjusted
  <2>2. QED
    BY <1>1, <1>2, <2>1, FS_AddElement
<1>3. CASE a # v /\ semadj[w] = v
  <2>1. Adjusted(v)' = Adjusted(v) \ {w} /\ w \in Adjusted(v)
    BY <1>t, <1>3 DEF Adjusted
  <2>2. QED
    BY <1>1, <1>3, <2>1, FS_RemoveElement
<1>4. CASE a = v <=> semadj[w] = v
  <2>1. Adjusted(v)' = Adjusted(v)
    BY <1>t, <1>4 DEF Adjusted
  <2>2. QED
    BY <1>1, <1>4, <2>1
<1>5. QED
  BY <1>2, <1>3, <1>4

\* The holders and the debtors are such sets.
LEMMA AdjustedSets ==
    /\ Holders = Adjusted(1) /\ Debtors = Adjusted(-1)
    /\ Holders' = Adjusted(1)' /\ Debtors' = Adjusted(-1)'
  BY DEF Holders, Debtors, Adjusted

\* What is taken from one side is added to the other.
LEMMA Balance ==
    \A s, sn, h, hn, d, dn, a, b \in Int :
        s + h >= 1 + d /\ sn >= s + b - a /\ hn - dn = h - d + a - b => sn + hn >= 1 + dn
  OBVIOUS

\* The account when the adjustment of one worker changes and the semaphore with it: what
\* is given back is what was taken, except that the kernel stops at zero.
LEMMA OweMoves ==
    ASSUME TypeInv, TypeInv', AdjInv, NEW w \in Workers, NEW a \in {-1, 0, 1},
           semval + Cardinality(Holders) >= 1 + Cardinality(Debtors),
           semadj' = [semadj EXCEPT ![w] = a],
           semval' >= semval + semadj[w] - a,
           semadj[w] - a \in {-1, 0, 1}
    PROVE  semval' + Cardinality(Holders') >= 1 + Cardinality(Debtors')
<1> DEFINE H == Cardinality(Adjusted(1))
           D == Cardinality(Adjusted(-1))
           Hn == Cardinality(Adjusted(1)')
           Dn == Cardinality(Adjusted(-1)')
<1>1. /\ semval \in Nat /\ semval' \in Nat /\ semadj[w] \in {-1, 0, 1}
      /\ a \in Int /\ 1 \in Int /\ -1 \in Int
  BY DEF TypeInv, TypeOK, AdjInv
<1>2. semval + H >= 1 + D
  BY AdjustedSets
<1>3. /\ H \in Nat /\ Hn \in Nat
      /\ a = 1 /\ semadj[w] # 1 => Hn = H + 1
      /\ a # 1 /\ semadj[w] = 1 => Hn = H - 1
      /\ (a = 1 <=> semadj[w] = 1) => Hn = H
  BY <1>1, CountMoves
<1>4. /\ D \in Nat /\ Dn \in Nat
      /\ a = -1 /\ semadj[w] # -1 => Dn = D + 1
      /\ a # -1 /\ semadj[w] = -1 => Dn = D - 1
      /\ (a = -1 <=> semadj[w] = -1) => Dn = D
  BY <1>1, CountMoves
<1> HIDE DEF H, D, Hn, Dn
<1>5. H \in Int /\ D \in Int /\ Hn \in Int /\ Dn \in Int /\ semval \in Int /\ semval' \in Int
  BY <1>1, <1>3, <1>4
<1>6. Hn - Dn = H - D + a - semadj[w]
  <2>1. CASE semadj[w] = -1
    BY <1>3, <1>4, <1>5, <2>1
  <2>2. CASE semadj[w] = 0
    BY <1>3, <1>4, <1>5, <2>2
  <2>3. CASE semadj[w] = 1
    BY <1>3, <1>4, <1>5, <2>3
  <2>4. QED
    BY <1>1, <2>1, <2>2, <2>3
<1>7. semval' + Hn >= 1 + Dn
  <2>1. PICK s, sn, h, hn, d, dn, b \in Int :
           /\ s = semval /\ sn = semval' /\ b = semadj[w]
           /\ h = H /\ hn = Hn /\ d = D /\ dn = Dn
    BY <1>1, <1>5
  <2>2. s + h >= 1 + d /\ sn >= s + b - a /\ hn - dn = h - d + a - b
    BY <1>2, <1>6, <2>1
  <2>3. sn + hn >= 1 + dn
    BY <1>1, <2>2, Balance
  <2>4. QED
    BY <2>1, <2>3
<1>8. QED
  BY <1>7, AdjustedSets DEF Hn, Dn

\* A step that changes neither the semaphore nor the adjustments, and takes no holder
\* past the loop, keeps the account.
LEMMA OweKept ==
    ASSUME OweInv, semval' = semval, semadj' = semadj, accept_mutex' => accept_mutex,
           \A w \in Workers : pc'[w] = "exit" /\ semadj[w] = 1 => pc[w] = "exit"
    PROVE  OweInv'
<1>1. Holders' = Holders /\ Debtors' = Debtors
  BY DEF Holders, Debtors
<1>2. QED
  BY <1>1 DEF OweInv

\* Every step keeps the account of what is owed.
LEMMA NextOweInv == TypeInv /\ TypeInv' /\ AdjInv /\ OweInv /\ [Next]_vars => OweInv'
<1> SUFFICES ASSUME TypeInv, TypeInv', AdjInv, OweInv, [Next]_vars PROVE OweInv'
  OBVIOUS
<1>t. /\ pc \in [Workers -> WorkerStates] /\ semadj \in [Workers -> Int]
      /\ semval \in Nat /\ semval' \in Nat
  BY DEF TypeInv, TypeOK, PoolTypeOK
<1> USE DEF semVars, pipeVars, mgrVars, GoTo
\* A worker's adjustment goes to a, the semaphore's value follows, and w is no holder
\* past the loop.
<1>m. ASSUME NEW w \in Workers, NEW a \in {-1, 0, 1}, accept_mutex,
             semadj' = [semadj EXCEPT ![w] = a],
             semval' >= semval + semadj[w] - a, semadj[w] - a \in {-1, 0, 1},
             pc'[w] = "exit" => a # 1,
             \A x \in Workers \ {w} : pc'[x] = pc[x]
      PROVE  OweInv'
  <2>1. semval + Cardinality(Holders) >= 1 + Cardinality(Debtors)
    BY <1>m DEF OweInv
  <2>2. semval' + Cardinality(Holders') >= 1 + Cardinality(Debtors')
    BY <1>m, <2>1, OweMoves
  <2>3. \A x \in Workers : pc'[x] = "exit" => semadj'[x] # 1
    BY <1>t, <1>m DEF OweInv
  <2>4. QED
    BY <2>2, <2>3 DEF OweInv
<1>1. ASSUME NEW w \in Workers, EnterAcceptMutex(w) PROVE OweInv'
  <2>1. CASE accept_mutex
    <3>1. /\ semadj' = [semadj EXCEPT ![w] = semadj[w] + 1] /\ semadj[w] = 0
          /\ semval' = semval - 1 /\ pc' = [pc EXCEPT ![w] = "select"]
      BY <1>1, <2>1 DEF EnterAcceptMutex, SemDown, AdjInv
    <3>2. /\ semadj' = [semadj EXCEPT ![w] = 1] /\ semval' >= semval + semadj[w] - 1
          /\ semadj[w] - 1 \in {-1, 0, 1} /\ pc'[w] # "exit"
          /\ \A x \in Workers \ {w} : pc'[x] = pc[x]
      BY <1>t, <3>1
    <3>3. QED
      BY <1>m, <2>1, <3>2
  <2>2. CASE ~ accept_mutex
    BY <1>1, <2>2 DEF EnterAcceptMutex, OweInv
  <2>3. QED
    BY <2>1, <2>2
<1>2. ASSUME NEW w \in Workers,
             SelectReturns(w) \/ Accept(w) \/ WorkerFails(w) \/ TcpmainReturn(w)
      PROVE  OweInv'
  <2>1. semadj' = semadj /\ semval' = semval /\ accept_mutex' = accept_mutex
    BY <1>2 DEF SelectReturns, Accept, TcpmainReturn, WorkerFails, AcceptFails,
       EnterAcceptMutexFails, FinalLeaveFails
  <2>2. \A x \in Workers : pc'[x] = "exit" /\ semadj[x] = 1 => pc[x] = "exit"
    BY <1>t, <1>2 DEF SelectReturns, Accept, TcpmainReturn, WorkerFails, AcceptFails,
       EnterAcceptMutexFails, FinalLeaveFails, AdjInv
  <2>3. QED
    BY <2>1, <2>2, OweKept
<1>3. ASSUME NEW w \in Workers, LeaveAcceptMutex(w) \/ FinalLeave(w) PROVE OweInv'
  <2>1. CASE accept_mutex
    <3>1. /\ semadj' = [semadj EXCEPT ![w] = semadj[w] - 1] /\ semval' = semval + 1
          /\ semadj[w] \in {0, 1} /\ \A x \in Workers \ {w} : pc'[x] = pc[x]
      BY <1>t, <1>3, <2>1 DEF LeaveAcceptMutex, FinalLeave, SemUp, AdjInv, Critical
    <3>2. semadj[w] - 1 \in {-1, 0}
      BY <3>1
    <3>3. /\ semval' >= semval + semadj[w] - (semadj[w] - 1)
          /\ semadj[w] - (semadj[w] - 1) \in {-1, 0, 1}
          /\ semadj[w] - 1 # 1
      BY <1>t, <3>1
    <3>4. QED
      BY <1>m, <2>1, <3>1, <3>2, <3>3
  <2>2. CASE ~ accept_mutex
    BY <1>3, <2>2 DEF LeaveAcceptMutex, FinalLeave, OweInv
  <2>3. QED
    BY <2>1, <2>2
<1>4. ASSUME NEW w \in Workers, WorkerExit(w) \/ WorkerCrash(w) PROVE OweInv'
  <2>1. CASE accept_mutex
    <3>1. /\ semadj' = [semadj EXCEPT ![w] = 0] /\ semval' = UndoneSemval(w)
          /\ pc' = [pc EXCEPT ![w] = "zombie"] /\ semadj[w] \in {-1, 0, 1}
      BY <1>4 DEF WorkerExit, WorkerCrash, WorkerEnds, AdjInv
    <3>2. semval' >= semval + semadj[w] - 0
      BY <1>t, <2>1, <3>1 DEF UndoneSemval
    <3>3. semadj[w] - 0 \in {-1, 0, 1} /\ pc'[w] # "exit"
      BY <1>t, <3>1
    <3>4. QED
      BY <1>t, <1>m, <2>1, <3>1, <3>2, <3>3
  <2>2. CASE ~ accept_mutex
    BY <1>4, <2>2 DEF WorkerExit, WorkerCrash, WorkerEnds, OweInv
  <2>3. QED
    BY <2>1, <2>2
<1>5. ASSUME ManagerSteps, ManagerAction PROVE OweInv'
  <2>1. semadj' = semadj /\ semval' = semval /\ (accept_mutex' => accept_mutex)
    BY <1>5 DEF ManagerSteps, StartWorker, ManageWorkers, SignalManager, DestroyPool, GiveUp,
       CleanDaemonEnv_LF
  <2>2. \A x \in Workers : pc'[x] = "exit" => pc[x] = "exit"
    BY <1>5, ManagerMoves DEF TypeInv, TypeOK
  <2>3. QED
    BY <2>1, <2>2, OweKept
<1>6. ASSUME (\E c \in Conns : Connect(c)) \/ UNCHANGED vars PROVE OweInv'
  <2>1. UNCHANGED <<pc, semadj, semval, accept_mutex>>
    BY <1>6 DEF Connect, vars, poolVars
  <2>2. QED
    BY <2>1, OweKept
<1>7. QED
  BY <1>1, <1>2, <1>3, <1>4, <1>5, <1>6, NextCases DEF WorkerStep

\* So the account holds in every reachable state.
LEMMA OweInvariant == Spec => []OweInv
<1>1. Init => OweInv
  <2> SUFFICES ASSUME Init PROVE OweInv
    OBVIOUS
  <2>1. Holders = {} /\ Debtors = {} /\ semval = 1
    BY DEF Init, Holders, Debtors
  <2>2. \A w \in Workers : semadj[w] # 1
    BY DEF Init
  <2>3. QED
    BY <2>1, <2>2, FS_EmptySet DEF OweInv
<1>2. SemInv => AdjInv
  BY DEF SemInv
<1>3. QED
  BY <1>1, <1>2, NextOweInv, TypeInvariant, SemInvariant, PTL DEF Spec

\* For any number of workers, whatever dies, fails or returns an error: while the
\* semaphore exists and is zero some worker is in the critical section or on its way
\* out of the loop, so the mutex is never lost.
THEOREM MutexIsNeverLost == Spec => []MutexNeverLost
<1>1. ASSUME TypeInv, SemInv, OweInv PROVE MutexNeverLost
  <2> SUFFICES ASSUME accept_mutex, semval = 0
               PROVE  \E w \in Workers : pc[w] \in Critical \cup {"final"}
    BY DEF MutexNeverLost
  <2>1. Holders \in SUBSET Workers /\ Debtors \in SUBSET Workers
    BY DEF Holders, Debtors
  <2>2. Cardinality(Holders) \in Nat /\ Cardinality(Debtors) \in Nat
    BY <2>1, WorkersFinite
  <2>3. Cardinality(Holders) >= 1
    BY <1>1, <2>2 DEF OweInv
  <2>4. Holders # {}
    BY <2>3, FS_EmptySet
  <2>5. PICK w \in Workers : semadj[w] = 1
    BY <2>4 DEF Holders
  <2>6. pc[w] # "exit"
    BY <1>1, <2>5 DEF OweInv
  <2>7. pc[w] \in WorkerStates
    BY <1>1 DEF TypeInv, TypeOK, PoolTypeOK
  <2>8. QED
    BY <1>1, <2>5, <2>6, <2>7 DEF SemInv, AdjInv, WorkerStates, Critical
<1>2. QED
  BY <1>1, TypeInvariant, SemInvariant, OweInvariant, PTL

-----------------------------------------------------------------------------
(* Which connection a worker has                                           *)

\* The worker has a connection that tcpmain has not finished with.
Carrying(w) == sock[w] # NoConn /\ conn[sock[w]] = "accepted"

\* Where a worker is says whether it has a connection; no two workers have the same.
SockInv ==
    \A w \in Workers :
        /\ pc[w] \in {"none", "enter", "select", "accept", "zombie"} => sock[w] = NoConn
        /\ pc[w] \in {"leave", "tcpmain"} => Carrying(w)
        /\ sock[w] # NoConn => conn[sock[w]] \in {"accepted", "served"}
        /\ \A x \in Workers : sock[x] = sock[w] /\ sock[w] # NoConn => x = w

\* Every step keeps each connection with at most one worker.
LEMMA NextSockInv == TypeInv /\ SockInv /\ [Next]_vars => SockInv'
<1> SUFFICES ASSUME TypeInv, SockInv, [Next]_vars PROVE SockInv'
  OBVIOUS
<1>t. /\ pc \in [Workers -> WorkerStates] /\ conn \in [Conns -> ConnStates]
      /\ sock \in [Workers -> Conns \cup {NoConn}] /\ NoConn \notin Conns
  BY LFAssumption DEF TypeInv, TypeOK, PoolTypeOK
<1> USE DEF SockInv, Carrying, semVars, pipeVars, mgrVars, GoTo
<1>1. ASSUME NEW w \in Workers,
             EnterAcceptMutex(w) \/ SelectReturns(w) \/ WorkerFails(w) \/ LeaveAcceptMutex(w)
             \/ FinalLeave(w)
      PROVE  SockInv'
  BY <1>t, <1>1 DEF EnterAcceptMutex, SelectReturns, WorkerFails, AcceptFails,
     EnterAcceptMutexFails, FinalLeaveFails, LeaveAcceptMutex, FinalLeave
<1>2. ASSUME NEW w \in Workers, Accept(w) PROVE SockInv'
  <2>1. PICK c \in Conns : /\ conn[c] = "queued" /\ sock' = [sock EXCEPT ![w] = c]
                           /\ conn' = [conn EXCEPT ![c] = "accepted"]
                           /\ pc' = [pc EXCEPT ![w] = "leave"] /\ pc[w] = "accept"
    BY <1>2 DEF Accept, Backlog
  <2>2. \A x \in Workers : sock[x] # c
    BY <1>t, <2>1
  <2>3. QED
    BY <1>t, <2>1, <2>2
<1>3. ASSUME NEW w \in Workers, TcpmainReturn(w) PROVE SockInv'
  <2>1. /\ pc[w] = "tcpmain" /\ sock[w] \in Conns
        /\ conn' = [conn EXCEPT ![sock[w]] = "served"]
    BY <1>t, <1>3 DEF TcpmainReturn
  <2>2. CASE sock' = [sock EXCEPT ![w] = NoConn]
    <3>1. pc'[w] \in {"enter", "exit", "final"} /\ \A x \in Workers \ {w} : pc'[x] = pc[x]
      BY <1>t, <1>3 DEF TcpmainReturn
    <3>2. QED
      BY <1>t, <2>1, <2>2, <3>1
  <2>3. CASE sock' = sock /\ pc' = [pc EXCEPT ![w] = "final"]
    BY <1>t, <2>1, <2>3
  <2>4. QED
    BY <1>3, <2>2, <2>3 DEF TcpmainReturn
<1>4. ASSUME NEW w \in Workers, WorkerExit(w) \/ WorkerCrash(w) PROVE SockInv'
  <2>1. /\ pc' = [pc EXCEPT ![w] = "zombie"] /\ sock' = [sock EXCEPT ![w] = NoConn]
        /\ conn' = [c \in Conns |->
                      IF c = sock[w] /\ conn[c] = "accepted" THEN "dropped" ELSE conn[c]]
    BY <1>4 DEF WorkerExit, WorkerCrash, WorkerEnds
  <2>2. QED
    BY <1>t, <2>1
<1>5. ASSUME ManagerSteps, ManagerAction PROVE SockInv'
  <2>1. sock' = sock /\ conn' = conn
    BY <1>5 DEF ManagerSteps, StartWorker, ManageWorkers, SignalManager, DestroyPool, GiveUp,
       CleanDaemonEnv_LF
  <2>2. \A w \in Workers : \/ pc'[w] = pc[w]
                           \/ pc[w] = "none" /\ pc'[w] = "enter"
                           \/ pc[w] = "zombie" /\ pc'[w] = "none"
    BY <1>5, ManagerMoves DEF TypeInv, TypeOK
  <2>3. QED
    BY <2>1, <2>2
<1>6. ASSUME NEW c \in Conns, Connect(c) PROVE SockInv'
  BY <1>t, <1>6 DEF Connect, poolVars
<1>7. CASE UNCHANGED vars
  BY <1>7 DEF vars, poolVars
<1>8. QED
  BY <1>1, <1>2, <1>3, <1>4, <1>5, <1>6, <1>7, NextCases DEF WorkerStep

\* So it is in every reachable state.
LEMMA SockInvariant == Spec => []SockInv
<1>1. Init => SockInv
  BY DEF Init, PoolInit, SockInv, Carrying
<1>2. QED
  BY <1>1, NextSockInv, TypeInvariant, PTL DEF Spec

-----------------------------------------------------------------------------
(* The pool implements ConnectionPool                                      *)

\* Initially nobody leads and nobody holds a connection, as in ConnectionPool.
LEMMA InitImplementsPool == Init => Pool!Init
  BY DEF Init, PoolInit, Pool!Init, InCritical, Critical, FaultKinds, Spoilt

\* A worker that takes the mutex finds as many leaders as came out of the loop
\* without it, at most.
LEMMA RoomForLeader ==
    ASSUME TypeInv, SemInv, accept_mutex, semval > 0
    PROVE  Cardinality(InCritical) <= Spoilt
<1>1. InCritical \in SUBSET Releasers /\ Releasers \in SUBSET Workers /\ InCritical \in SUBSET Workers
  BY DEF InCritical, Releasers, SemInv, AdjInv
<1>2. /\ Cardinality(InCritical) <= Cardinality(Releasers)
      /\ Cardinality(Releasers) \in Nat /\ Cardinality(InCritical) \in Nat
  BY <1>1, CardSubset, WorkersFinite
<1>3. semval + Cardinality(Releasers) <= 1 + Spoilt
  BY DEF SemInv
<1>4. PICK s, r, i, k \in Nat : /\ s = semval /\ r = Cardinality(Releasers)
                                /\ i = Cardinality(InCritical) /\ k = Spoilt
  BY <1>2, SpoiltType DEF TypeInv, TypeOK, PoolTypeOK
<1>5. s > 0 /\ s + r <= 1 + k /\ i <= r
  BY <1>2, <1>3, <1>4
<1>6. i <= k
  BY <1>5
<1>7. QED
  BY <1>4, <1>6

\* Each step is a step of ConnectionPool or changes nothing it sees: the semaphore, the
\* pipes and the manager show only in who leads.
LEMMA NextImplementsPool ==
    TypeInv /\ SemInv /\ SockInv /\ [Next]_vars => [Pool!Next]_(Pool!vars)
<1> SUFFICES ASSUME TypeInv, SemInv, SockInv, [Next]_vars
             PROVE  Pool!Next \/ UNCHANGED Pool!vars
  OBVIOUS
<1>t. /\ pc \in [Workers -> WorkerStates] /\ conn \in [Conns -> ConnStates]
      /\ sock \in [Workers -> Conns \cup {NoConn}] /\ NoConn \notin Conns
      /\ faults \in [FaultKinds -> Nat]
  BY LFAssumption DEF TypeInv, TypeOK, PoolTypeOK
<1>k. {"worker", "manager", "fork", "semop", "accept", "tcpmain"} \subseteq FaultKinds
  BY DEF FaultKinds
<1>f. /\ \A k \in FaultKinds \ {"tcpmain", "semop"} : Fault(k) => Spoilt' = Spoilt
      /\ faults' = faults => Spoilt' = Spoilt
  BY <1>t, <1>k, SpoiltCounted, SpoiltKept
<1>v. /\ UNCHANGED Pool!vars <=> /\ InCritical' = InCritical /\ sock' = sock /\ conn' = conn
                                 /\ Spoilt' = Spoilt
  BY DEF Pool!vars
<1>c. \A w \in Workers : w \in InCritical <=> pc[w] \in {"select", "accept", "leave"}
  BY DEF InCritical, Critical
<1>l. ASSUME NEW w \in Workers, NEW s, pc' = [pc EXCEPT ![w] = s]
      PROVE  /\ InCritical' = IF s \in Critical THEN InCritical \cup {w} ELSE InCritical \ {w}
             /\ (s \in Critical <=> w \in InCritical) => InCritical' = InCritical
  BY <1>t, <1>l DEF InCritical
<1> USE DEF semVars, pipeVars, mgrVars, GoTo
<1>1. ASSUME NEW w \in Workers, EnterAcceptMutex(w) PROVE Pool!Next \/ UNCHANGED Pool!vars
  <2>1. /\ w \notin InCritical /\ sock[w] = NoConn /\ UNCHANGED <<sock, conn>>
        /\ Spoilt' = Spoilt
    BY <1>c, <1>f, <1>1 DEF EnterAcceptMutex, SockInv
  <2>2. CASE accept_mutex
    <3>1. InCritical' = InCritical \cup {w}
      BY <1>l, <1>1, <2>2 DEF EnterAcceptMutex, Critical
    <3>2. Cardinality(InCritical) <= Spoilt
      BY <1>1, <2>2, RoomForLeader DEF EnterAcceptMutex, SemDown
    <3>3. Pool!Cardinality(InCritical) = Cardinality(InCritical)
      BY DEF Pool!Cardinality, Cardinality
    <3>4. Pool!Lead(w)
      BY <2>1, <3>1, <3>2, <3>3 DEF Pool!Lead
    <3>5. QED
      BY <3>4 DEF Pool!Next
  <2>3. CASE ~ accept_mutex
    <3>1. InCritical' = InCritical
      BY <1>l, <1>1, <2>1, <2>3 DEF EnterAcceptMutex, Critical
    <3>2. QED
      BY <1>v, <2>1, <3>1
  <2>4. QED
    BY <2>2, <2>3
<1>2. ASSUME NEW w \in Workers, SelectReturns(w) \/ AcceptFails(w) \/ LeaveAcceptMutex(w)
      PROVE  Pool!Next \/ UNCHANGED Pool!vars
  <2>1. w \in InCritical /\ sock' = sock /\ conn' = conn
    BY <1>c, <1>2 DEF SelectReturns, AcceptFails, LeaveAcceptMutex
  <2>2. Spoilt' = Spoilt
    BY <1>k, <1>f, <1>2 DEF SelectReturns, AcceptFails, LeaveAcceptMutex
  <2>3. InCritical' = InCritical \ {w} \/ InCritical' = InCritical
    <3>1. \E s : pc' = [pc EXCEPT ![w] = s]
      BY <1>2 DEF SelectReturns, AcceptFails, LeaveAcceptMutex
    <3>2. QED
      BY <1>l, <2>1, <3>1
  <2>4. CASE InCritical' = InCritical \ {w}
    <3>1. Pool!Follow(w)
      BY <2>1, <2>2, <2>4 DEF Pool!Follow
    <3>2. QED
      BY <3>1 DEF Pool!Next
  <2>5. CASE InCritical' = InCritical
    BY <1>v, <2>1, <2>2, <2>5
  <2>6. QED
    BY <2>3, <2>4, <2>5
<1>3. ASSUME NEW w \in Workers, Accept(w) PROVE Pool!Next
  <2>1. PICK c \in Conns : /\ conn[c] = "queued" /\ sock' = [sock EXCEPT ![w] = c]
                           /\ conn' = [conn EXCEPT ![c] = "accepted"]
    BY <1>3 DEF Accept, Backlog
  <2>2. w \in InCritical /\ sock[w] = NoConn /\ Spoilt' = Spoilt
    BY <1>c, <1>f, <1>3 DEF Accept, SockInv
  <2>3. InCritical' = InCritical
    BY <1>l, <1>3, <2>2 DEF Accept, Critical
  <2>4. Pool!Take(w, c)
    BY <2>1, <2>2, <2>3 DEF Pool!Take
  <2>5. QED
    BY <2>4 DEF Pool!Next
<1>4. ASSUME NEW w \in Workers, TcpmainReturn(w) PROVE Pool!Next
  <2>1. /\ w \notin InCritical /\ sock[w] # NoConn /\ conn[sock[w]] = "accepted"
        /\ conn' = [conn EXCEPT ![sock[w]] = "served"]
    BY <1>c, <1>4 DEF TcpmainReturn, SockInv, Carrying
  <2>2. InCritical' = InCritical
    BY <1>l, <1>4, <2>1 DEF TcpmainReturn, Critical
  <2>3. CASE sock' = [sock EXCEPT ![w] = NoConn] /\ faults' = faults
    <3>1. Pool!Serve(w)
      BY <1>f, <2>1, <2>2, <2>3 DEF Pool!Serve
    <3>2. QED
      BY <3>1 DEF Pool!Next
  <2>4. CASE sock' = sock /\ Fault("tcpmain")
    <3>1. Spoilt' = Spoilt + 1
      BY <1>t, <1>k, <2>4, SpoiltCounted
    <3>2. Pool!Spoil(w)
      BY <2>1, <2>2, <2>4, <3>1 DEF Pool!Spoil
    <3>3. QED
      BY <3>2 DEF Pool!Next
  <2>5. QED
    BY <1>4, <2>3, <2>4 DEF TcpmainReturn
<1>5. ASSUME NEW w \in Workers, FinalLeave(w) PROVE UNCHANGED Pool!vars
  <2>1. w \notin InCritical /\ UNCHANGED <<sock, conn>> /\ Spoilt' = Spoilt
    BY <1>c, <1>f, <1>5 DEF FinalLeave
  <2>2. InCritical' = InCritical
    BY <1>l, <1>5, <2>1 DEF FinalLeave, Critical
  <2>3. QED
    BY <1>v, <2>1, <2>2
<1>6. ASSUME NEW w \in Workers, WorkerExit(w) \/ WorkerCrash(w) PROVE Pool!Next
  <2>1. /\ sock' = [sock EXCEPT ![w] = NoConn]
        /\ conn' = [c \in Conns |->
                      IF c = sock[w] /\ conn[c] = "accepted" THEN "dropped" ELSE conn[c]]
        /\ pc' = [pc EXCEPT ![w] = "zombie"]
    BY <1>6 DEF WorkerExit, WorkerCrash, WorkerEnds
  <2>2. InCritical' = InCritical \ {w}
    BY <1>l, <2>1 DEF Critical
  <2>3. Spoilt' = Spoilt
    BY <1>k, <1>f, <1>6 DEF WorkerExit, WorkerCrash
  <2>4. Pool!End(w)
    BY <2>1, <2>2, <2>3 DEF Pool!End
  <2>5. QED
    BY <2>4 DEF Pool!Next
<1>7. ASSUME ManagerSteps, ManagerAction PROVE UNCHANGED Pool!vars
  <2>1. sock' = sock /\ conn' = conn
    BY <1>7 DEF ManagerSteps, StartWorker, ManageWorkers, SignalManager, DestroyPool, GiveUp,
       CleanDaemonEnv_LF
  <2>2. \A w \in Workers : \/ pc'[w] = pc[w]
                           \/ pc[w] = "none" /\ pc'[w] = "enter"
                           \/ pc[w] = "zombie" /\ pc'[w] = "none"
    BY <1>7, ManagerMoves DEF TypeInv, TypeOK
  <2>3. InCritical' = InCritical
    BY <2>2 DEF InCritical, Critical
  <2>4. Spoilt' = Spoilt
    BY <1>t, <1>7, ManagerFaults DEF Spoilt
  <2>5. QED
    BY <1>v, <2>1, <2>3, <2>4
<1>8. ASSUME NEW c \in Conns, Connect(c) PROVE Pool!Next
  <2>1. InCritical' = InCritical /\ sock' = sock /\ Spoilt' = Spoilt
    BY <1>f, <1>8 DEF Connect, poolVars, InCritical
  <2>2. Pool!Arrive(c)
    BY <1>8, <2>1 DEF Connect, Pool!Arrive
  <2>3. QED
    BY <2>2 DEF Pool!Next
<1>9. CASE UNCHANGED vars
  <2>1. InCritical' = InCritical
    BY <1>9 DEF vars, poolVars, InCritical
  <2>2. QED
    BY <1>v, <1>f, <1>9, <2>1 DEF vars, poolVars
<1>10. ASSUME NEW w \in Workers, EnterAcceptMutexFails(w) PROVE Pool!Next
  <2>1. w \notin InCritical /\ sock[w] = NoConn /\ UNCHANGED <<sock, conn>>
    BY <1>c, <1>10 DEF EnterAcceptMutexFails, SockInv
  <2>2. InCritical' = InCritical
    BY <1>l, <1>10, <2>1 DEF EnterAcceptMutexFails, Critical
  <2>3. Spoilt' = Spoilt + 1
    BY <1>t, <1>k, <1>10, SpoiltCounted DEF EnterAcceptMutexFails
  <2>4. Pool!Spoil(w)
    BY <2>1, <2>2, <2>3 DEF Pool!Spoil
  <2>5. QED
    BY <2>4 DEF Pool!Next
<1>11. ASSUME NEW w \in Workers, FinalLeaveFails(w) PROVE UNCHANGED Pool!vars
  <2>1. w \notin InCritical /\ UNCHANGED <<sock, conn>>
    BY <1>c, <1>11 DEF FinalLeaveFails
  <2>2. InCritical' = InCritical
    BY <1>l, <1>11, <2>1 DEF FinalLeaveFails, Critical
  <2>3. Spoilt' = Spoilt
    BY <1>k, <1>f, <1>11 DEF FinalLeaveFails
  <2>4. QED
    BY <1>v, <2>1, <2>2, <2>3
<1>12. QED
  BY <1>1, <1>2, <1>3, <1>4, <1>5, <1>6, <1>7, <1>8, <1>9, <1>10, <1>11, NextCases
     DEF WorkerStep, WorkerFails

\* The pool implements ConnectionPool for any number of workers and connections: leaders
\* are admitted one at a time, plus one for each release by a worker that did not lead,
\* each connection is taken by one of them, and it is served or lost by the worker that took it.
THEOREM PoolImplementsConnectionPool == Spec => ImplementsPool
  BY InitImplementsPool, NextImplementsPool, TypeInvariant, SemInvariant, SockInvariant, PTL
     DEF Spec, ImplementsPool, Pool!Spec

-----------------------------------------------------------------------------
(* Which connections are lost                                              *)

\* The semaphore is removed when the manager returns, in order or after a failed fork,
\* and a fork fails once.
RemovalInv ==
    /\ accept_mutex <=> mgr \notin {"done", "failed"}
    /\ faults["fork"] = IF mgr = "failed" THEN 1 ELSE 0

\* Lost connections; workers leaving with a connection tcpmain has not had; and those
\* that may come to, once the semaphore is removed.
Dropped == {c \in Conns : conn[c] = "dropped"}
Doomed  == {w \in Workers : pc[w] \in {"final", "exit"} /\ Carrying(w)}
AtRisk  == Doomed \cup InCritical

\* Before a fork fails only crashes lose connections; after it, those that are lost and
\* those that may be are the crashed workers' and the ones inside the mutex at that time.
DropInv ==
    /\ IsFiniteSet(Dropped)
    /\ accept_mutex => Doomed = {}
    /\ mgr # "failed" => Cardinality(Dropped) <= faults["worker"]
    /\ mgr = "failed" => Cardinality(Dropped) + Cardinality(AtRisk)
                            <= faults["worker"] + (1 + Spoilt)

\* Every step keeps what the manager's state says of the semaphore.
LEMMA NextRemovalInv == TypeInv /\ RemovalInv /\ [Next]_vars => RemovalInv'
<1> SUFFICES ASSUME TypeInv, RemovalInv, [Next]_vars PROVE RemovalInv'
  OBVIOUS
<1>t. faults \in [FaultKinds -> Nat] /\ accept_mutex \in BOOLEAN
  BY DEF TypeInv, TypeOK, PoolTypeOK
<1>k. {"worker", "manager", "fork", "semop", "accept", "tcpmain"} \subseteq FaultKinds
  BY DEF FaultKinds
<1>f. \A k \in FaultKinds \ {"fork"} : Fault(k) => faults'["fork"] = faults["fork"]
  BY <1>t, <1>k, FaultCounted
<1>1. ASSUME NEW w \in Workers, WorkerRuns(w) \/ WorkerExit(w) \/ WorkerCrash(w)
      PROVE  RemovalInv'
  <2>1. mgr' = mgr /\ accept_mutex' = accept_mutex
    BY <1>1, WorkersLeavePool DEF mgrVars
  <2>2. faults' = faults \/ \E k \in {"worker", "semop", "accept", "tcpmain"} : Fault(k)
    BY <1>1 DEF WorkerRuns, EnterAcceptMutex, SelectReturns, Accept, WorkerFails, AcceptFails,
       EnterAcceptMutexFails, FinalLeaveFails, LeaveAcceptMutex, TcpmainReturn, FinalLeave,
       WorkerExit, WorkerCrash
  <2>3. faults'["fork"] = faults["fork"]
    BY <1>f, <1>k, <2>2
  <2>4. QED
    BY <2>1, <2>3 DEF RemovalInv
<1>2. ASSUME GiveUp PROVE RemovalInv'
  <2>1. /\ mgr \in {"forking", "rebooting"} /\ mgr' = "failed" /\ accept_mutex' = FALSE
        /\ Fault("fork")
    BY <1>2 DEF GiveUp, ForkFails, CleanDaemonEnv_LF
  <2>2. faults'["fork"] = faults["fork"] + 1
    BY <1>t, <1>k, <2>1, FaultCounted
  <2>3. QED
    BY <2>1, <2>2 DEF RemovalInv
<1>3. ASSUME DestroyPool PROVE RemovalInv'
  BY <1>3 DEF DestroyPool, CleanAndReturn, CleanDaemonEnv_LF, RemovalInv
<1>4. ASSUME StartWorker \/ ManageWorkers \/ SignalManager PROVE RemovalInv'
  <2>1. mgr \notin {"done", "failed"} /\ mgr' \notin {"done", "failed"}
    BY <1>4 DEF StartWorker, ManageWorkers, SignalManager, ForkWorker, RebootWorker, WaitpidChild,
       WriteQuit, ReapWorker, Sigterm, ManagerKilled, PoolWanted, ManagerEnded
  <2>2. accept_mutex' = accept_mutex
    BY <1>4 DEF StartWorker, ManageWorkers, SignalManager, semVars
  <2>3. faults' = faults \/ Fault("manager")
    BY <1>4 DEF StartWorker, ManageWorkers, SignalManager, ForkWorker, RebootWorker, WaitpidChild,
       WriteQuit, ReapWorker, Sigterm, ManagerKilled
  <2>4. faults'["fork"] = faults["fork"]
    BY <1>f, <1>k, <2>3
  <2>5. QED
    BY <2>1, <2>2, <2>4 DEF RemovalInv
<1>5. ASSUME (\E c \in Conns : Connect(c)) \/ UNCHANGED vars PROVE RemovalInv'
  BY <1>5 DEF Connect, vars, poolVars, semVars, mgrVars, RemovalInv
<1>6. QED
  BY <1>1, <1>2, <1>3, <1>4, <1>5, NextCases DEF WorkerStep, WorkerRuns, ManagerSteps

\* The step of a worker that runs on loses no connection, and puts none at risk that
\* was not.
LEMMA RunsLoseNothing ==
    ASSUME TypeInv, SockInv, NEW w \in Workers, WorkerRuns(w)
    PROVE  /\ Dropped' = Dropped
           /\ accept_mutex => Doomed' \subseteq Doomed
           /\ ~ accept_mutex => AtRisk' \subseteq AtRisk
<1>t. /\ pc \in [Workers -> WorkerStates] /\ conn \in [Conns -> ConnStates]
      /\ sock \in [Workers -> Conns \cup {NoConn}] /\ NoConn \notin Conns
  BY LFAssumption DEF TypeInv, TypeOK, PoolTypeOK
<1> USE DEF GoTo, Carrying, semVars, pipeVars, mgrVars
<1>1. CASE EnterAcceptMutex(w) \/ EnterAcceptMutexFails(w)
  <2>1. /\ sock' = sock /\ conn' = conn /\ sock[w] = NoConn
        /\ \A x \in Workers \ {w} : pc'[x] = pc[x]
        /\ ~ accept_mutex => pc'[w] = "final"
    BY <1>t, <1>1 DEF EnterAcceptMutex, EnterAcceptMutexFails, SockInv
  <2>2. QED
    BY <2>1 DEF Dropped, Doomed, AtRisk, InCritical, Critical
<1>2. CASE SelectReturns(w) \/ AcceptFails(w)
  <2>1. /\ sock' = sock /\ conn' = conn /\ sock[w] = NoConn
        /\ pc[w] \in Critical /\ \A x \in Workers \ {w} : pc'[x] = pc[x]
    BY <1>t, <1>2 DEF SelectReturns, AcceptFails, SockInv, Critical
  <2>2. QED
    BY <2>1 DEF Dropped, Doomed, AtRisk, InCritical
<1>3. CASE Accept(w)
  <2>1. PICK c \in Conns : /\ conn[c] = "queued" /\ sock' = [sock EXCEPT ![w] = c]
                           /\ conn' = [conn EXCEPT ![c] = "accepted"]
                           /\ pc' = [pc EXCEPT ![w] = "leave"] /\ pc[w] = "accept"
    BY <1>3 DEF Accept, Backlog
  <2>2. \A x \in Workers : sock[x] # c
    BY <1>t, <2>1 DEF SockInv
  <2>3. Dropped' = Dropped
    BY <1>t, <2>1 DEF Dropped
  <2>4. Doomed' \subseteq Doomed
    BY <1>t, <2>1, <2>2 DEF Doomed
  <2>5. InCritical' \subseteq InCritical
    BY <1>t, <2>1 DEF InCritical, Critical
  <2>6. QED
    BY <2>3, <2>4, <2>5 DEF AtRisk
<1>4. CASE LeaveAcceptMutex(w)
  <2>1. /\ sock' = sock /\ conn' = conn /\ pc[w] \in Critical
        /\ accept_mutex => pc'[w] = "tcpmain"
        /\ \A x \in Workers \ {w} : pc'[x] = pc[x]
    BY <1>t, <1>4 DEF LeaveAcceptMutex, Critical
  <2>2. Dropped' = Dropped
    BY <2>1 DEF Dropped
  <2>3. w \in InCritical /\ InCritical' \subseteq InCritical
    BY <2>1 DEF InCritical, Critical
  <2>4. Doomed' \subseteq Doomed \cup {w}
    BY <2>1 DEF Doomed
  <2>5. accept_mutex => w \notin Doomed'
    BY <2>1 DEF Doomed
  <2>6. QED
    BY <2>2, <2>3, <2>4, <2>5 DEF AtRisk
<1>5. CASE TcpmainReturn(w)
  <2>1. /\ pc[w] = "tcpmain" /\ sock[w] \in Conns /\ conn[sock[w]] = "accepted"
        /\ conn' = [conn EXCEPT ![sock[w]] = "served"]
    BY <1>t, <1>5 DEF TcpmainReturn, SockInv
  <2>2. \A x \in Workers \ {w} : pc'[x] = pc[x] /\ sock'[x] = sock[x]
    BY <1>t, <1>5 DEF TcpmainReturn
  <2>3. sock'[w] \in {NoConn, sock[w]} /\ pc'[w] \in {"enter", "exit", "final"}
    BY <1>t, <1>5 DEF TcpmainReturn
  <2>4. Dropped' = Dropped
    BY <1>t, <2>1 DEF Dropped
  <2>5. Doomed' \subseteq Doomed
    BY <1>t, <2>1, <2>2, <2>3 DEF Doomed
  <2>6. InCritical' \subseteq InCritical
    BY <1>t, <2>2, <2>3 DEF InCritical, Critical
  <2>7. QED
    BY <2>4, <2>5, <2>6 DEF AtRisk
<1>6. CASE FinalLeave(w) \/ FinalLeaveFails(w)
  <2>1. /\ sock' = sock /\ conn' = conn /\ pc[w] = "final" /\ pc' = [pc EXCEPT ![w] = "exit"]
    BY <1>6 DEF FinalLeave, FinalLeaveFails
  <2>2. QED
    BY <1>t, <2>1 DEF Dropped, Doomed, AtRisk, InCritical, Critical
<1>7. QED
  BY <1>1, <1>2, <1>3, <1>4, <1>5, <1>6 DEF WorkerRuns, WorkerFails

\* The end of a worker loses the connection it carries and no other.
LEMMA EndLosesOne ==
    ASSUME TypeInv, SockInv, NEW w \in Workers, WorkerEnds(w)
    PROVE  /\ Dropped' = IF Carrying(w) THEN Dropped \cup {sock[w]} ELSE Dropped
           /\ Doomed' \subseteq Doomed \ {w} /\ AtRisk' \subseteq AtRisk \ {w}
<1>t. /\ pc \in [Workers -> WorkerStates] /\ conn \in [Conns -> ConnStates]
      /\ sock \in [Workers -> Conns \cup {NoConn}] /\ NoConn \notin Conns
  BY LFAssumption DEF TypeInv, TypeOK, PoolTypeOK
<1>1. /\ pc' = [pc EXCEPT ![w] = "zombie"] /\ sock' = [sock EXCEPT ![w] = NoConn]
      /\ conn' = [c \in Conns |->
                    IF c = sock[w] /\ conn[c] = "accepted" THEN "dropped" ELSE conn[c]]
  BY DEF WorkerEnds, GoTo
<1>2. Dropped' = IF Carrying(w) THEN Dropped \cup {sock[w]} ELSE Dropped
  BY <1>t, <1>1 DEF Dropped, Carrying
<1>3. Doomed' \subseteq Doomed \ {w}
  BY <1>t, <1>1 DEF Doomed, Carrying
<1>4. InCritical' \subseteq InCritical \ {w}
  BY <1>t, <1>1 DEF InCritical, Critical
<1>5. QED
  BY <1>2, <1>3, <1>4 DEF AtRisk

\* The account of the losses: what is lost or comes to be at risk beyond what was is
\* set off by crashes.
LEMMA LossesAdd ==
    ASSUME NEW d \in Nat, NEW dn \in Nat, NEW r \in Nat, NEW rn \in Nat, NEW k \in Nat,
           NEW kn \in Nat, NEW t \in Nat, NEW tn \in Nat
    PROVE  /\ d <= k /\ dn + k <= d + kn => dn <= kn
           /\ d + r <= k + (1 + t) /\ (dn + rn) + k <= (d + r) + kn /\ t <= tn
                => dn + rn <= kn + (1 + tn)
  OBVIOUS

\* So it is kept by a step that is no failed fork.
LEMMA LossesMove ==
    ASSUME TypeInv, TypeInv', DropInv, IsFiniteSet(Dropped'),
           mgr' = "failed" <=> mgr = "failed",
           accept_mutex' => Doomed' = {},
           mgr # "failed" =>
               Cardinality(Dropped') + faults["worker"] <= Cardinality(Dropped) + faults'["worker"],
           mgr = "failed" =>
               (Cardinality(Dropped') + Cardinality(AtRisk')) + faults["worker"]
                   <= (Cardinality(Dropped) + Cardinality(AtRisk)) + faults'["worker"],
           Spoilt <= Spoilt'
    PROVE  DropInv'
<1>1. /\ faults["worker"] \in Nat /\ Spoilt \in Nat
      /\ faults'["worker"] \in Nat /\ Spoilt' \in Nat
  BY SpoiltType DEF TypeInv, TypeOK, PoolTypeOK, FaultKinds
<1>2. Cardinality(Dropped) \in Nat /\ Cardinality(Dropped') \in Nat
  BY FS_CardinalityType DEF DropInv
<1>3. Cardinality(AtRisk) \in Nat /\ Cardinality(AtRisk') \in Nat
  <2>1. AtRisk \in SUBSET Workers /\ AtRisk' \in SUBSET Workers
    BY DEF AtRisk, Doomed, InCritical
  <2>2. QED
    BY <2>1, WorkersFinite
<1>4. CASE mgr = "failed"
  <2>1. Cardinality(Dropped) + Cardinality(AtRisk) <= faults["worker"] + (1 + Spoilt)
    BY <1>4 DEF DropInv
  <2>2. Cardinality(Dropped') + Cardinality(AtRisk') <= faults'["worker"] + (1 + Spoilt')
    BY <1>1, <1>2, <1>3, <1>4, <2>1, LossesAdd
  <2>3. QED
    BY <1>4, <2>2 DEF DropInv
<1>5. CASE mgr # "failed"
  <2>1. Cardinality(Dropped) <= faults["worker"]
    BY <1>5 DEF DropInv
  <2>2. Cardinality(Dropped') <= faults'["worker"]
    BY <1>1, <1>2, <1>3, <1>5, <2>1, LossesAdd
  <2>3. QED
    BY <1>5, <2>2 DEF DropInv
<1>6. QED
  BY <1>4, <1>5

\* Every step keeps the account of the connections lost.
LEMMA NextDropInv ==
    TypeInv /\ TypeInv' /\ AcceptMutexBound /\ SockInv /\ PoolInv /\ RemovalInv /\ RemovalInv'
        /\ DropInv /\ [Next]_vars => DropInv'
<1> SUFFICES ASSUME TypeInv, TypeInv', AcceptMutexBound, SockInv, PoolInv, RemovalInv, RemovalInv',
                    DropInv, [Next]_vars
             PROVE  DropInv'
  OBVIOUS
<1>t. /\ faults \in [FaultKinds -> Nat] /\ faults' \in [FaultKinds -> Nat]
      /\ {"worker", "manager", "fork", "semop", "accept", "tcpmain"} \subseteq FaultKinds
      /\ Spoilt \in Nat
  BY SpoiltType DEF TypeInv, TypeOK, PoolTypeOK, FaultKinds
<1>s. /\ Doomed \in SUBSET Workers /\ InCritical \in SUBSET Workers /\ AtRisk \in SUBSET Workers
      /\ Doomed' \in SUBSET Workers /\ InCritical' \in SUBSET Workers /\ AtRisk' \in SUBSET Workers
  BY DEF Doomed, InCritical, AtRisk
<1>c. Cardinality(AtRisk) \in Nat /\ Cardinality(AtRisk') \in Nat
  BY <1>s, WorkersFinite
<1>d. IsFiniteSet(Dropped) /\ Cardinality(Dropped) \in Nat
  BY FS_CardinalityType DEF DropInv
<1>1. ASSUME NEW w \in Workers, WorkerRuns(w) PROVE DropInv'
  <2>1. UNCHANGED mgr /\ accept_mutex' = accept_mutex
    BY <1>1, WorkersLeavePool DEF mgrVars
  <2>2. /\ Dropped' = Dropped
        /\ accept_mutex => Doomed' \subseteq Doomed
        /\ ~ accept_mutex => AtRisk' \subseteq AtRisk
    BY <1>1, RunsLoseNothing
  <2>3. faults' = faults \/ \E k \in {"semop", "accept", "tcpmain"} : Fault(k)
    BY <1>1 DEF WorkerRuns, EnterAcceptMutex, SelectReturns, Accept, WorkerFails, AcceptFails,
       EnterAcceptMutexFails, FinalLeaveFails, LeaveAcceptMutex, TcpmainReturn, FinalLeave
  <2>4. faults'["worker"] = faults["worker"] /\ Spoilt <= Spoilt'
    BY <1>t, <2>3, FaultCounted, SpoiltCounted, SpoiltKept
  <2>5. mgr = "failed" => Cardinality(AtRisk') <= Cardinality(AtRisk)
    BY <1>s, <2>2, CardSubset DEF RemovalInv
  <2>6. QED
    BY <1>t, <1>c, <1>d, <2>1, <2>2, <2>4, <2>5, LossesMove DEF DropInv
<1>2. ASSUME NEW w \in Workers, WorkerExit(w) \/ WorkerCrash(w) PROVE DropInv'
  <2>1. WorkerEnds(w) /\ mgr' = mgr /\ accept_mutex' = accept_mutex
    BY <1>2 DEF WorkerExit, WorkerCrash, WorkerEnds, mgrVars
  <2>2. /\ Dropped' = IF Carrying(w) THEN Dropped \cup {sock[w]} ELSE Dropped
        /\ Doomed' \subseteq Doomed \ {w} /\ AtRisk' \subseteq AtRisk \ {w}
    BY <2>1, EndLosesOne
  <2>3. /\ IsFiniteSet(Dropped')
        /\ Cardinality(Dropped') <= Cardinality(Dropped) + 1
        /\ ~ Carrying(w) => Dropped' = Dropped
    <3>1. CASE Carrying(w)
      <4>1. Dropped' = Dropped \cup {sock[w]}
        BY <2>2, <3>1
      <4>2. /\ IsFiniteSet(Dropped \cup {sock[w]})
            /\ \/ Cardinality(Dropped \cup {sock[w]}) = Cardinality(Dropped)
               \/ Cardinality(Dropped \cup {sock[w]}) = Cardinality(Dropped) + 1
        BY <1>d, FS_AddElement
      <4>3. PICK d \in Nat : d = Cardinality(Dropped)
        BY <1>d
      <4>4. PICK dn \in {d, d + 1} : dn = Cardinality(Dropped')
        BY <4>1, <4>2, <4>3
      <4>5. dn <= d + 1
        OBVIOUS
      <4>6. QED
        BY <3>1, <4>1, <4>2, <4>3, <4>4, <4>5
    <3>2. CASE ~ Carrying(w)
      <4>1. Dropped' = Dropped
        BY <2>2, <3>2
      <4>2. QED
        BY <1>d, <4>1
    <3>3. QED
      BY <3>1, <3>2
  <2>4. Cardinality(AtRisk') <= Cardinality(AtRisk)
    BY <1>s, <2>2, CardSubset
  <2>5. Cardinality(Dropped') \in Nat
    BY <2>3, FS_CardinalityType
  <2>6. CASE WorkerCrash(w)
    <3>1. faults'["worker"] = faults["worker"] + 1 /\ Spoilt' = Spoilt
      BY <1>t, <2>6, FaultCounted, SpoiltCounted DEF WorkerCrash
    <3>2. PICK k, t \in Nat : k = faults["worker"] /\ t = Spoilt
      BY <1>t
    <3>3. PICK d, dn, r, rn \in Nat : /\ d = Cardinality(Dropped) /\ dn = Cardinality(Dropped')
                                     /\ r = Cardinality(AtRisk) /\ rn = Cardinality(AtRisk')
      BY <1>c, <1>d, <2>5
    <3>4. dn <= d + 1 /\ rn <= r
      BY <2>3, <2>4, <3>3
    <3>5. dn + k <= d + (k + 1) /\ (dn + rn) + k <= (d + r) + (k + 1) /\ t <= t
      BY <3>4
    <3>6. QED
      BY <2>1, <2>2, <2>3, <3>1, <3>2, <3>3, <3>5, LossesMove DEF DropInv
  <2>7. CASE WorkerExit(w)
    <3>1. pc[w] = "exit" /\ faults' = faults /\ Spoilt' = Spoilt
      BY <2>7, SpoiltKept DEF WorkerExit
    <3>2. CASE Carrying(w)
      <4>1. w \in Doomed
        BY <3>1, <3>2 DEF Doomed
      <4>2. mgr = "failed"
        BY <3>1, <4>1 DEF DropInv, RemovalInv, PoolInv, SlotsInv
      <4>3. Cardinality(AtRisk') <= Cardinality(AtRisk) - 1
        BY <1>s, <2>2, <4>1, CardRemove DEF AtRisk
      <4>4. PICK k, t \in Nat : k = faults["worker"] /\ t = Spoilt
        BY <1>t
      <4>5. PICK d, dn, r, rn \in Nat : /\ d = Cardinality(Dropped) /\ dn = Cardinality(Dropped')
                                       /\ r = Cardinality(AtRisk) /\ rn = Cardinality(AtRisk')
        BY <1>c, <1>d, <2>5
      <4>6. dn <= d + 1 /\ rn <= r - 1
        BY <2>3, <4>3, <4>5
      <4>7. (dn + rn) + k <= (d + r) + k /\ t <= t
        BY <4>6
      <4>8. QED
        BY <2>1, <2>2, <2>3, <3>1, <4>2, <4>4, <4>5, <4>7, LossesMove DEF DropInv
    <3>3. CASE ~ Carrying(w)
      <4>1. PICK k, t \in Nat : k = faults["worker"] /\ t = Spoilt
        BY <1>t
      <4>2. PICK d, r, rn \in Nat : /\ d = Cardinality(Dropped)
                                   /\ r = Cardinality(AtRisk) /\ rn = Cardinality(AtRisk')
        BY <1>c, <1>d
      <4>3. rn <= r
        BY <2>4, <4>2
      <4>4. d + k <= d + k /\ (d + rn) + k <= (d + r) + k /\ t <= t
        BY <4>3
      <4>5. QED
        BY <2>1, <2>2, <2>3, <3>1, <3>3, <4>1, <4>2, <4>4, LossesMove DEF DropInv
    <3>4. QED
      BY <3>2, <3>3
  <2>8. QED
    BY <1>2, <2>6, <2>7
<1>3. ASSUME GiveUp PROVE DropInv'
  <2>1. /\ pc' = pc /\ sock' = sock /\ conn' = conn /\ mgr \in {"forking", "rebooting"}
        /\ mgr' = "failed" /\ Fault("fork")
    BY <1>3 DEF GiveUp, ForkFails, CleanDaemonEnv_LF
  <2>2. Dropped' = Dropped /\ AtRisk' = AtRisk
    BY <2>1 DEF Dropped, AtRisk, Doomed, InCritical, Carrying
  <2>3. accept_mutex /\ ~ accept_mutex'
    BY <2>1 DEF RemovalInv
  <2>4. AtRisk = InCritical
    BY <2>3 DEF DropInv, AtRisk
  <2>5. faults'["worker"] = faults["worker"] /\ Spoilt' = Spoilt
    BY <1>t, <2>1, FaultCounted, SpoiltCounted
  <2>6. PICK d, r, k, t \in Nat : /\ d = Cardinality(Dropped) /\ r = Cardinality(AtRisk)
                                 /\ k = faults["worker"] /\ t = Spoilt
    BY <1>t, <1>c, <1>d
  <2>7. d <= k /\ r <= 1 + t
    BY <2>1, <2>4, <2>6 DEF DropInv, AcceptMutexBound
  <2>8. d + r <= k + (1 + t)
    BY <2>7
  <2>9. QED
    BY <1>d, <2>1, <2>2, <2>3, <2>5, <2>6, <2>8 DEF DropInv
<1>4. ASSUME StartWorker \/ ManageWorkers \/ SignalManager \/ DestroyPool, ManagerAction
      PROVE  DropInv'
  <2>1. sock' = sock /\ conn' = conn
    BY <1>4 DEF StartWorker, ManageWorkers, SignalManager, DestroyPool, CleanDaemonEnv_LF
  <2>2. mgr # "failed" /\ mgr' # "failed"
    BY <1>4 DEF StartWorker, ManageWorkers, SignalManager, DestroyPool, ForkWorker, RebootWorker,
       WaitpidChild, WriteQuit, ReapWorker, Sigterm, ManagerKilled, CleanAndReturn, PoolWanted,
       ManagerEnded
  <2>3. \A w \in Workers : \/ pc'[w] = pc[w]
                           \/ pc[w] = "none" /\ pc'[w] = "enter"
                           \/ pc[w] = "zombie" /\ pc'[w] = "none"
    BY <1>4, ManagerMoves DEF TypeInv, TypeOK
  <2>4. Dropped' = Dropped /\ Doomed' = Doomed
    BY <2>1, <2>3 DEF Dropped, Doomed, Carrying
  <2>5. accept_mutex' => accept_mutex
    BY <1>4 DEF StartWorker, ManageWorkers, SignalManager, DestroyPool, CleanDaemonEnv_LF, semVars
  <2>6. faults'["worker"] = faults["worker"]
    BY <1>t, <1>4, ManagerFaults
  <2>7. QED
    BY <1>d, <2>2, <2>4, <2>5, <2>6 DEF DropInv
<1>5. ASSUME NEW c \in Conns, Connect(c) PROVE DropInv'
  <2>1. /\ pc' = pc /\ sock' = sock /\ conn[c] = "idle" /\ mgr' = mgr /\ faults' = faults
        /\ accept_mutex' = accept_mutex /\ conn' = [conn EXCEPT ![c] = "queued"]
    BY <1>5 DEF Connect, poolVars, mgrVars, semVars
  <2>2. conn \in [Conns -> ConnStates]
    BY DEF TypeInv, TypeOK
  <2>3. Dropped' = Dropped /\ InCritical' = InCritical
    BY <2>1, <2>2 DEF Dropped, InCritical
  <2>4. \A w \in Workers : sock[w] # c /\ (sock[w] # NoConn => sock[w] \in Conns)
    BY <2>1, LFAssumption DEF SockInv, TypeInv, TypeOK
  <2>5. \A w \in Workers : Carrying(w)' = Carrying(w)
    BY <2>1, <2>2, <2>4 DEF Carrying
  <2>6. Doomed' = Doomed
    BY <2>1, <2>5 DEF Doomed
  <2>7. QED
    BY <1>d, <2>1, <2>3, <2>6, SpoiltKept DEF DropInv, AtRisk
<1>6. CASE UNCHANGED vars
  BY <1>6, SpoiltKept
     DEF vars, poolVars, mgrVars, semVars, DropInv, Dropped, AtRisk, Doomed, InCritical, Carrying
<1>7. QED
  BY <1>1, <1>2, <1>3, <1>4, <1>5, <1>6, NextCases DEF WorkerStep, WorkerRuns, ManagerSteps

\* So both hold in every reachable state.
LEMMA DropInvariant == Spec => [](RemovalInv /\ DropInv)
<1>1. Init => RemovalInv /\ DropInv
  <2> SUFFICES ASSUME Init PROVE RemovalInv /\ DropInv
    OBVIOUS
  <2>1. /\ mgr = "forking" /\ accept_mutex = TRUE /\ faults = [k \in FaultKinds |-> 0]
        /\ conn = [c \in Conns |-> "idle"] /\ sock = [w \in Workers |-> NoConn]
    BY DEF Init, PoolInit
  <2>2. faults["fork"] = 0 /\ faults["worker"] = 0
    BY <2>1 DEF FaultKinds
  <2>3. Dropped = {} /\ Doomed = {}
    BY <2>1 DEF Dropped, Doomed, Carrying
  <2>4. IsFiniteSet(Dropped) /\ Cardinality(Dropped) = 0
    BY <2>3, FS_EmptySet
  <2>5. QED
    BY <2>1, <2>2, <2>3, <2>4 DEF RemovalInv, DropInv
<1>2. TypeInv /\ SemInv => AcceptMutexBound
  BY SemInvBounds
<1>3. QED
  BY <1>1, <1>2, NextRemovalInv, NextDropInv, NextTypeInv, TypeInvariant, SemInvariant,
     SockInvariant, PoolInvariant, PTL DEF Spec

\* For any number of workers and connections and any faults: an accepted connection is
\* lost with a crashed worker, at most one each, or when a failed fork removes the
\* semaphore, and then at most one for each worker the accept mutex may have admitted.
THEOREM LossesAccountedFor == Spec => []DropsAccountedFor
<1>1. ASSUME TypeInv, RemovalInv, DropInv PROVE DropsAccountedFor
  <2>1. /\ faults["worker"] \in Nat /\ Spoilt \in Nat
    BY <1>1, SpoiltType DEF TypeInv, TypeOK, PoolTypeOK, FaultKinds
  <2>2. Cardinality(Dropped) \in Nat
    BY <1>1, FS_CardinalityType DEF DropInv
  <2>3. Cardinality(AtRisk) \in Nat
    <3>1. AtRisk \in SUBSET Workers
      BY DEF AtRisk, Doomed, InCritical
    <3>2. QED
      BY <3>1, WorkersFinite
  <2>4. PICK d, r, k, t \in Nat : /\ d = Cardinality(Dropped) /\ r = Cardinality(AtRisk)
                                 /\ k = faults["worker"] /\ t = Spoilt
    BY <2>1, <2>2, <2>3
  <2>5. CASE mgr = "failed"
    <3>1. d + r <= k + (1 + t) /\ faults["fork"] = 1
      BY <1>1, <2>4, <2>5 DEF DropInv, RemovalInv
    <3>2. d <= k + 1 * (1 + t)
      BY <3>1
    <3>3. QED
      BY <2>4, <3>1, <3>2 DEF DropsAccountedFor, Dropped
  <2>6. CASE mgr # "failed"
    <3>1. d <= k /\ faults["fork"] = 0
      BY <1>1, <2>4, <2>6 DEF DropInv, RemovalInv
    <3>2. d <= k + 0 * (1 + t)
      BY <3>1
    <3>3. QED
      BY <2>4, <3>1, <3>2 DEF DropsAccountedFor, Dropped
  <2>7. QED
    BY <2>5, <2>6
<1>2. QED
  BY <1>1, TypeInvariant, DropInvariant, PTL
=============================================================================
