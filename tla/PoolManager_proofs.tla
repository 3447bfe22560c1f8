-------------------------- MODULE PoolManager_proofs --------------------------
(***************************************************************************)
(* Lemmas about the manager of PoolManager, for any number of workers and  *)
(* whatever the workers do: they serve the proofs about both pools.        *)
(***************************************************************************)
EXTENDS PoolManager, FiniteSetTheorems, TLAPS

\* The manager's steps.
ManagerAction ==
    \/ ForkWorker \/ RebootWorker
    \/ WaitpidChild \/ WriteQuit \/ ReapWorker
    \/ CleanAndReturn \/ ForkFails \/ Sigterm \/ ManagerKilled

\* What the manager's loops know of its index and of the slot it points to.
ManagerInv ==
    /\ mgr = "forking" => index \in Workers /\ \A x \in Workers : x >= index => pc[x] = "none"
    /\ mgr = "rebooting" => index \in Workers /\ pc[index] = "none"
    /\ mgr = "quitting" => index \in Workers

\* The slots are 0 up to the number of workers, and the manager is in none.
LEMMA WorkersFacts ==
    /\ Workers \subseteq Int
    /\ 0 \in Workers
    /\ Manager \notin Workers
    /\ \A i \in Int : i \in Workers <=> 0 <= i /\ i < process_count
  BY PoolAssumption DEF Workers, Manager

-----------------------------------------------------------------------------
(* Types                                                                   *)

\* A fault is counted, and no other fault with it.
LEMMA FaultCounted ==
    ASSUME faults \in [FaultKinds -> Nat], NEW k \in FaultKinds, Fault(k)
    PROVE  /\ faults' \in [FaultKinds -> Nat]
           /\ faults'[k] = faults[k] + 1
           /\ \A j \in FaultKinds \ {k} : faults'[j] = faults[j]
  BY DEF Fault

\* The pool starts with no worker and the manager at slot 0.
LEMMA PoolInitTypes ==
    ASSUME NEW S, "none" \in S, PoolInit
    PROVE  PoolTypeOK(S) /\ ManagerInv
<1> USE PoolAssumption DEF PoolInit
<1>1. 0 \in Workers /\ 0 \in 0 .. process_count
  BY DEF Workers
<1>2. pc \in [Workers -> S] /\ quit \in [Workers -> BOOLEAN]
  OBVIOUS
<1>3. writers \in [Workers -> SUBSET Processes] /\ faults \in [FaultKinds -> Nat]
  OBVIOUS
<1>4. ManagerInv
  BY <1>1 DEF ManagerInv
<1>5. QED
  BY <1>1, <1>2, <1>3, <1>4 DEF PoolTypeOK, ManagerStates

\* Every step of the manager keeps the types, and what it knows of its index.
LEMMA ManagerKeepsTypes ==
    ASSUME NEW S, {"none", "enter"} \subseteq S, PoolTypeOK(S), ManagerInv, ManagerAction
    PROVE  PoolTypeOK(S)' /\ ManagerInv'
<1> USE PoolAssumption
    DEF PoolTypeOK, ManagerInv, ManagerStates, Processes, GoTo, pipeVars, mgrVars
<1>f. \A k \in {"manager", "fork"} : Fault(k) => faults' \in [FaultKinds -> Nat]
  BY FaultCounted DEF FaultKinds
<1>1. CASE ForkWorker
  BY WorkersFacts, <1>1 DEF ForkWorker, PipeAndFork
<1>2. CASE RebootWorker
  BY WorkersFacts, <1>2 DEF RebootWorker, PipeAndFork
<1>3. CASE WaitpidChild
  BY WorkersFacts, <1>3 DEF WaitpidChild
<1>4. CASE WriteQuit
  <2>1. writers' \in [Workers -> SUBSET Processes]
    BY <1>4 DEF WriteQuit, CloseWriteEndsOf
  <2>2. index' \in 0 .. process_count
    BY WorkersFacts, <1>4 DEF WriteQuit
  <2>3. mgr' \in ManagerStates /\ quit' \in [Workers -> BOOLEAN]
    BY <1>4 DEF WriteQuit
  <2>4. ManagerInv'
    BY WorkersFacts, <1>4 DEF WriteQuit
  <2>5. QED
    BY <1>4, <2>1, <2>2, <2>3, <2>4 DEF WriteQuit
<1>5. CASE ReapWorker
  BY WorkersFacts, <1>5 DEF ReapWorker
<1>6. CASE CleanAndReturn
  BY WorkersFacts, <1>6 DEF CleanAndReturn, CloseWriteEndsOf
<1>7. CASE ForkFails
  BY WorkersFacts, <1>f, <1>7 DEF ForkFails, CloseWriteEndsOf
<1>8. CASE Sigterm
  BY WorkersFacts, <1>8 DEF Sigterm
<1>9. CASE ManagerKilled
  BY WorkersFacts, <1>f, <1>9 DEF ManagerKilled, CloseWriteEndsOf
<1>10. QED
  BY <1>1, <1>2, <1>3, <1>4, <1>5, <1>6, <1>7, <1>8, <1>9 DEF ManagerAction

\* So does a step of a worker, which leaves the manager's variables alone.
LEMMA WorkerKeepsTypes ==
    ASSUME NEW S, PoolTypeOK(S), ManagerInv,
           NEW w \in Workers, pc[w] # "none", NEW s \in S, GoTo(w, s),
           quit' = quit, writers' \in [Workers -> SUBSET Processes],
           UNCHANGED mgrVars, faults' \in [FaultKinds -> Nat]
    PROVE  PoolTypeOK(S)' /\ ManagerInv'
  BY WorkersFacts DEF PoolTypeOK, ManagerInv, GoTo, mgrVars

\* The manager starts workers in free slots and frees the slots of ended ones, and
\* that is all it does to where the workers are.
LEMMA ManagerMoves ==
    ASSUME NEW T, PoolTypeOK(T), ManagerInv, ManagerAction, NEW w \in Workers
    PROVE  \/ pc'[w] = pc[w]
           \/ pc[w] = "none" /\ pc'[w] = "enter"
           \/ pc[w] = "zombie" /\ pc'[w] = "none"
<1> USE DEF PoolTypeOK, GoTo
<1>1. CASE ForkWorker \/ RebootWorker
  <2>1. index \in Workers /\ pc[index] = "none" /\ pc' = [pc EXCEPT ![index] = "enter"]
    BY <1>1, WorkersFacts DEF ForkWorker, RebootWorker, PipeAndFork, ManagerInv
  <2>2. QED
    BY <2>1
<1>2. CASE WaitpidChild \/ ReapWorker
  BY <1>2 DEF WaitpidChild, ReapWorker
<1>3. CASE WriteQuit \/ CleanAndReturn \/ ForkFails \/ Sigterm \/ ManagerKilled
  BY <1>3 DEF WriteQuit, CleanAndReturn, ForkFails, Sigterm, ManagerKilled
<1>4. QED
  BY <1>1, <1>2, <1>3 DEF ManagerAction

\* The faults of the manager's steps are its own.
LEMMA ManagerFaults ==
    ASSUME faults \in [FaultKinds -> Nat], ManagerAction,
           NEW k \in {"worker", "semop", "accept", "tcpmain"}
    PROVE  faults'[k] = faults[k]
<1>1. faults' = faults \/ Fault("fork") \/ Fault("manager")
  BY DEF ManagerAction, ForkWorker, RebootWorker, WaitpidChild, WriteQuit, ReapWorker,
     CleanAndReturn, ForkFails, Sigterm, ManagerKilled
<1>2. QED
  BY <1>1, FaultCounted DEF FaultKinds

-----------------------------------------------------------------------------
(* The inherited write ends form no cycle                                  *)

\* A step that starts no worker and opens no pipe keeps them acyclic.
LEMMA PipesShrink ==
    ASSUME PipesAcyclic,
           \A w \in Workers : Alive(w)' => Alive(w),
           \A w \in Workers : writers'[w] \subseteq writers[w]
    PROVE  PipesAcyclic'
<1> SUFFICES ASSUME NEW S \in SUBSET {w \in Workers : Alive(w)'}, S # {}
             PROVE  \E w \in S : writers'[w] \cap S = {}
  BY DEF PipesAcyclic
<1>1. S \in SUBSET {w \in Workers : Alive(w)}
  OBVIOUS
<1>2. PICK w \in S : writers[w] \cap S = {}
  BY <1>1 DEF PipesAcyclic
<1>3. writers'[w] \cap S = {}
  BY <1>2
<1>4. QED
  BY <1>3

\* A new worker holds the ends of others, and of its pipe only the manager does.
LEMMA PipesAtFork ==
    ASSUME NEW T, PoolTypeOK(T), PipesAcyclic, NEW n \in Workers, PipeAndFork(n)
    PROVE  PipesAcyclic'
<1> SUFFICES ASSUME NEW S \in SUBSET {w \in Workers : Alive(w)'}, S # {}
             PROVE  \E w \in S : writers'[w] \cap S = {}
  BY DEF PipesAcyclic
<1>1. \A w \in Workers \ {n} : /\ Alive(w)' => Alive(w)
                                /\ writers'[w] \subseteq writers[w] \cup {n}
  BY DEF PoolTypeOK, PipeAndFork, GoTo, Alive
<1>2. CASE n \in S
  <2>1. writers'[n] = {Manager}
    BY DEF PipeAndFork
  <2>2. Manager \notin S
    BY DEF Manager, Workers
  <2>3. QED
    BY <1>2, <2>1, <2>2
<1>3. CASE n \notin S
  <2>1. S \in SUBSET {w \in Workers : Alive(w)}
    BY <1>1, <1>3
  <2>2. PICK w \in S : writers[w] \cap S = {}
    BY <2>1 DEF PipesAcyclic
  <2>3. writers'[w] \cap S = {}
    BY <1>1, <1>3, <2>2
  <2>4. QED
    BY <2>3
<1>4. QED
  BY <1>2, <1>3

\* Every step of the manager keeps the write ends acyclic.
LEMMA ManagerKeepsPipes ==
    ASSUME NEW T, PoolTypeOK(T), ManagerInv, PipesAcyclic, ManagerAction
    PROVE  PipesAcyclic'
<1> USE DEF pipeVars, mgrVars, GoTo
<1> DEFINE Shrinks == /\ \A w \in Workers : Alive(w)' => Alive(w)
                      /\ \A w \in Workers : writers'[w] \subseteq writers[w]
<1>0. Shrinks => PipesAcyclic'
  BY PipesShrink
<1> HIDE DEF Shrinks
<1>1. CASE ForkWorker \/ RebootWorker
  <2>1. index \in Workers /\ PipeAndFork(index)
    BY <1>1 DEF ForkWorker, RebootWorker, ManagerInv
  <2>2. QED
    BY <2>1, PipesAtFork
<1>2. ASSUME WaitpidChild \/ ReapWorker PROVE Shrinks
  BY <1>2 DEF PoolTypeOK, Shrinks, Alive, WaitpidChild, ReapWorker
<1>3. ASSUME WriteQuit \/ CleanAndReturn \/ ForkFails \/ ManagerKilled \/ Sigterm PROVE Shrinks
  <2>1. pc' = pc
    BY <1>3 DEF WriteQuit, CleanAndReturn, ForkFails, ManagerKilled, Sigterm
  <2>2. QED
    BY <1>3, <2>1 DEF PoolTypeOK, Shrinks, Alive, WriteQuit, CleanAndReturn, ForkFails,
       ManagerKilled, Sigterm, CloseWriteEndsOf
<1>4. QED
  BY <1>0, <1>1, <1>2, <1>3 DEF ManagerAction

-----------------------------------------------------------------------------
(* Sizes of sets of workers                                                *)

\* Sets of workers are finite and their sizes follow their elements.
LEMMA WorkersFinite ==
    ASSUME NEW S \in SUBSET Workers
    PROVE  IsFiniteSet(S) /\ Cardinality(S) \in Nat
<1>1. IsFiniteSet(Workers)
  <2>1. 0 \in Int /\ process_count - 1 \in Int
    BY PoolAssumption
  <2>2. QED
    BY <2>1, FS_Interval DEF Workers
<1>2. IsFiniteSet(S)
  BY <1>1, FS_Subset
<1>3. QED
  BY <1>2, FS_CardinalityType

\* A subset has no more elements.
LEMMA CardSubset ==
    ASSUME NEW S \in SUBSET Workers, NEW T \in SUBSET S
    PROVE  Cardinality(T) <= Cardinality(S)
  BY WorkersFinite, FS_Subset

\* One more worker adds at most one.
LEMMA CardAdd ==
    ASSUME NEW S \in SUBSET Workers, NEW w \in Workers, NEW T \in SUBSET (S \cup {w})
    PROVE  Cardinality(T) <= Cardinality(S) + 1
<1>1. IsFiniteSet(S) /\ Cardinality(S) \in Nat
  BY WorkersFinite
<1>2. Cardinality(S \cup {w}) <= Cardinality(S) + 1
  BY <1>1, FS_AddElement
<1>3. Cardinality(T) <= Cardinality(S \cup {w})
  BY CardSubset
<1>4. /\ Cardinality(T) \in Nat
      /\ Cardinality(S \cup {w}) \in Nat
  BY WorkersFinite
<1>5. QED
  BY <1>1, <1>2, <1>3, <1>4

\* One worker less takes one away.
LEMMA CardRemove ==
    ASSUME NEW S \in SUBSET Workers, NEW w \in S, NEW T \in SUBSET (S \ {w})
    PROVE  Cardinality(T) <= Cardinality(S) - 1
<1>1. IsFiniteSet(S) /\ Cardinality(S) \in Nat
  BY WorkersFinite
<1>2. Cardinality(S \ {w}) = Cardinality(S) - 1
  BY <1>1, FS_RemoveElement
<1>3. Cardinality(T) <= Cardinality(S \ {w})
  BY CardSubset
<1>4. QED
  BY <1>2, <1>3

\* The pool has process_count slots.
LEMMA WorkersCount == Cardinality(Workers) = process_count
<1>1. 0 \in Int /\ process_count - 1 \in Int
  BY PoolAssumption
<1>2. Cardinality(0 .. process_count - 1) =
         IF 0 > process_count - 1 THEN 0 ELSE (process_count - 1) - 0 + 1
  BY <1>1, FS_Interval
<1>3. QED
  BY <1>2, PoolAssumption DEF Workers

-----------------------------------------------------------------------------
(* Nobody is told to leave while the pool is wanted                        *)

\* While the manager keeps the pool, a running worker has no quit byte in its pipe
\* and the manager holds the pipe's write end.
QuietInv == PoolWanted => \A w \in Workers : Alive(w) => ~ quit[w] /\ Manager \in writers[w]

\* A step of anybody but the manager writes no quit byte, closes none of the
\* manager's write ends and starts no worker.
LEMMA QuietKept ==
    ASSUME QuietInv, UNCHANGED mgrVars, quit' = quit,
           \A w \in Workers : Alive(w)' => Alive(w),
           \A w \in Workers : Manager \in writers[w] => Manager \in writers'[w]
    PROVE  QuietInv'
  BY DEF QuietInv, mgrVars, PoolWanted

\* Neither does the manager, to a worker that runs, before it stops wanting the pool.
LEMMA ManagerKeepsQuiet ==
    ASSUME NEW T, PoolTypeOK(T), ManagerInv, QuietInv, ManagerAction
    PROVE  QuietInv'
<1> USE DEF pipeVars, mgrVars, GoTo, PoolTypeOK, PoolWanted
<1>1. CASE ForkWorker \/ RebootWorker
  <2>1. index \in Workers /\ PipeAndFork(index) /\ PoolWanted
    BY <1>1 DEF ForkWorker, RebootWorker, ManagerInv
  <2>2. \A w \in Workers : Alive(w) => ~ quit[w] /\ Manager \in writers[w]
    BY <2>1 DEF QuietInv
  <2>3. ASSUME NEW w \in Workers, Alive(w)' PROVE ~ quit'[w] /\ Manager \in writers'[w]
    <3>1. CASE w = index
      BY <2>1, <3>1 DEF PipeAndFork
    <3>2. CASE w # index
      BY <2>1, <2>2, <2>3, <3>2 DEF PipeAndFork, Alive
    <3>3. QED
      BY <3>1, <3>2
  <2>4. QED
    BY <2>3 DEF QuietInv
<1>2. CASE WaitpidChild
  BY <1>2 DEF WaitpidChild, QuietInv, Alive
<1>3. CASE Sigterm
  BY <1>3 DEF Sigterm, QuietInv, Alive
<1>4. CASE WriteQuit \/ ReapWorker \/ CleanAndReturn \/ ForkFails \/ ManagerKilled
  BY <1>4 DEF WriteQuit, ReapWorker, CleanAndReturn, ForkFails, ManagerKilled, QuietInv
<1>5. QED
  BY <1>1, <1>2, <1>3, <1>4 DEF ManagerAction

\* It says what the property of the pools says.
LEMMA QuietInvImplies == QuietInv => NoQuitUnasked
  BY DEF QuietInv, NoQuitUnasked, AlivePipeReadable

-----------------------------------------------------------------------------
(* The manager knows which slots have a process                            *)

\* Slots without a process, running or unwaited for.
FreeSlots == {w \in Workers : pc[w] = "none"}

\* Where the manager is says which slots are free; while it waits for the workers,
\* its index counts the ones it has waited for.
SlotsInv ==
    /\ mgr = "forking" => \A w \in Workers : pc[w] = "none" <=> w >= index
    /\ mgr = "rebooting" => \A w \in Workers : pc[w] = "none" <=> w = index
    /\ mgr \in {"monitoring", "quitting"} => \A w \in Workers : pc[w] # "none"
    /\ mgr = "reaping" => Cardinality(FreeSlots) = index
    /\ mgr = "done" => \A w \in Workers : pc[w] = "none"

\* A step of anybody but the manager neither frees a slot nor takes one.
LEMMA SlotsKept ==
    ASSUME SlotsInv, UNCHANGED mgrVars, \A w \in Workers : pc'[w] = "none" <=> pc[w] = "none"
    PROVE  SlotsInv'
<1>1. FreeSlots' = FreeSlots
  BY DEF FreeSlots
<1>2. QED
  BY <1>1 DEF SlotsInv, mgrVars

\* Every step of the manager keeps the account of the slots.
LEMMA ManagerKeepsSlots ==
    ASSUME NEW T, PoolTypeOK(T), ManagerInv, SlotsInv, ManagerAction
    PROVE  SlotsInv'
<1> USE PoolAssumption DEF pipeVars, mgrVars, GoTo
<1>t. pc \in [Workers -> T] /\ index \in 0 .. process_count
  BY DEF PoolTypeOK
<1>1. CASE ForkWorker
  <2>1. /\ \A w \in Workers : pc[w] = "none" <=> w >= index
        /\ index \in Workers /\ index' = index + 1
        /\ mgr' = IF index + 1 = process_count THEN "monitoring" ELSE "forking"
        /\ pc' = [pc EXCEPT ![index] = "enter"]
    BY <1>1 DEF ForkWorker, PipeAndFork, SlotsInv, ManagerInv
  <2>2. \A w \in Workers : pc'[w] = "none" <=> w >= index + 1
    BY <1>t, <2>1, WorkersFacts
  <2>3. mgr' = "monitoring" => \A w \in Workers : pc'[w] # "none"
    BY <1>t, <2>1, <2>2, WorkersFacts
  <2>4. QED
    BY <2>1, <2>2, <2>3 DEF SlotsInv
<1>2. CASE RebootWorker
  <2>1. /\ \A w \in Workers : pc[w] = "none" <=> w = index
        /\ mgr' = "monitoring" /\ pc' = [pc EXCEPT ![index] = "enter"]
    BY <1>2 DEF RebootWorker, PipeAndFork, SlotsInv
  <2>2. QED
    BY <1>t, <2>1 DEF SlotsInv
<1>3. CASE WaitpidChild
  <2>1. /\ \A w \in Workers : pc[w] # "none"
        /\ mgr' = "rebooting" /\ index' \in Workers /\ pc' = [pc EXCEPT ![index'] = "none"]
    BY <1>3 DEF WaitpidChild, SlotsInv
  <2>2. QED
    BY <1>t, <2>1 DEF SlotsInv
<1>4. CASE WriteQuit
  <2>1. (\A w \in Workers : pc[w] # "none") /\ pc' = pc
    BY <1>4 DEF WriteQuit, SlotsInv
  <2>2. mgr' \in {"quitting", "killed"} \/ (mgr' = "reaping" /\ index' = 0)
    BY <1>4 DEF WriteQuit
  <2>3. FreeSlots' = {}
    BY <2>1 DEF FreeSlots
  <2>4. QED
    BY <2>1, <2>2, <2>3, FS_EmptySet DEF SlotsInv
<1>5. CASE ReapWorker
  <2>1. PICK w \in Workers : pc[w] = "zombie" /\ pc' = [pc EXCEPT ![w] = "none"]
    BY <1>5 DEF ReapWorker
  <2>2. FreeSlots' = FreeSlots \cup {w} /\ w \notin FreeSlots
    BY <1>t, <2>1 DEF FreeSlots
  <2>3. IsFiniteSet(FreeSlots)
    BY WorkersFinite DEF FreeSlots
  <2>4. Cardinality(FreeSlots') = Cardinality(FreeSlots) + 1
    BY <2>2, <2>3, FS_AddElement
  <2>5. mgr = "reaping" /\ mgr' = "reaping" /\ index' = index + 1
    BY <1>5 DEF ReapWorker
  <2>6. QED
    BY <2>4, <2>5 DEF SlotsInv
<1>6. CASE CleanAndReturn
  <2>1. /\ Cardinality(FreeSlots) = process_count /\ mgr' = "done" /\ pc' = pc
    BY <1>6 DEF CleanAndReturn, SlotsInv
  <2>2. IsFiniteSet(Workers) /\ FreeSlots \subseteq Workers
    BY WorkersFinite DEF FreeSlots
  <2>3. FreeSlots = Workers
    BY <2>1, <2>2, WorkersCount, FS_Subset
  <2>4. QED
    BY <2>1, <2>3 DEF SlotsInv, FreeSlots
<1>7. CASE ForkFails \/ ManagerKilled
  BY <1>7 DEF ForkFails, ManagerKilled, SlotsInv
<1>8. CASE Sigterm
  <2>1. pc' = pc
    BY <1>8 DEF Sigterm
  <2>2. \/ UNCHANGED <<mgr, index>>
        \/ mgr = "monitoring" /\ mgr' = "quitting"
    BY <1>8 DEF Sigterm
  <2>3. FreeSlots' = FreeSlots
    BY <2>1 DEF FreeSlots
  <2>4. QED
    BY <2>1, <2>2, <2>3 DEF SlotsInv
<1>9. QED
  BY <1>1, <1>2, <1>3, <1>4, <1>5, <1>6, <1>7, <1>8 DEF ManagerAction

\* It holds initially, and so does that nobody is told to leave.
LEMMA PoolInitKept == PoolInit => QuietInv /\ SlotsInv
  BY WorkersFacts DEF PoolInit, QuietInv, Alive, SlotsInv
=============================================================================
