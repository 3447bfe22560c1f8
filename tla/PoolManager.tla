----------------------------- MODULE PoolManager -----------------------------
(***************************************************************************)
(* The manager process of a worker pool, which tcpdaemon_LF and            *)
(* tcpdaemon_IOMP share line by line: it forks the workers, waits for the  *)
(* ones that end and restarts them, and on SIGTERM tells all to end and    *)
(* waits for them.  Each worker has a pipe whose write end fd[1] is the    *)
(* manager's: a byte on it, or the loss of its last writer, tells the      *)
(* worker to end.  What the workers do is in the modules that extend this  *)
(* one; here pc only says whether a worker has a process.                  *)
(***************************************************************************)
EXTENDS Integers, FiniteSets

CONSTANTS
    process_count,  \* workers in the pool (-c)
    FaultPlans      \* bound: each plan says how many faults of each kind may happen

\* What may go wrong: a worker is killed, the manager is killed, pipe() or fork()
\* fails, a worker cannot take the accept mutex, another system call of a worker
\* fails, tcpmain returns an unexpected value.
FaultKinds == {"worker", "manager", "fork", "semop", "accept", "tcpmain"}

ASSUME PoolAssumption ==
    /\ process_count \in Nat \ {0}
    /\ FaultPlans \subseteq [FaultKinds -> Nat]

Workers == 0 .. process_count - 1
Manager == -1                   \* the manager as the holder of a descriptor
Processes == Workers \cup {Manager}

VARIABLES
    pc,             \* where each worker is
    quit,           \* quit[w]: the quit byte is in the pipe of w
    writers,        \* writers[w]: the processes with fd[1] of the pipe of w open
    mgr,            \* where the manager is
    index,          \* the manager's p_env->index
    g_EXIT_flag,    \* set by the SIGTERM handler
    faults          \* how many faults of each kind there have been

pipeVars == <<quit, writers>>
mgrVars  == <<mgr, index, g_EXIT_flag>>
poolVars == <<pc, pipeVars, mgrVars, faults>>

ManagerStates == {"forking", "monitoring", "rebooting", "quitting",
                  "reaping", "done", "failed", "killed"}

\* "none": no process; "zombie": ended, not waited for.
Alive(w)     == pc[w] \notin {"none", "zombie"}
ManagerEnded == mgr \in {"done", "failed", "killed"}
PoolWanted   == mgr \in {"forking", "monitoring", "rebooting"}

\* The alive pipe of w is readable: the quit byte, or end of file.
AlivePipeReadable(w) == quit[w] \/ writers[w] = {}

PoolTypeOK(WorkerStates) ==
    /\ pc \in [Workers -> WorkerStates]
    /\ quit \in [Workers -> BOOLEAN]
    /\ writers \in [Workers -> SUBSET Processes]
    /\ mgr \in ManagerStates
    /\ index \in 0 .. process_count
    /\ g_EXIT_flag \in BOOLEAN
    /\ faults \in [FaultKinds -> Nat]

PoolInit ==
    /\ pc = [w \in Workers |-> "none"]
    /\ quit = [w \in Workers |-> FALSE]
    /\ writers = [w \in Workers |-> {}]
    /\ mgr = "forking"
    /\ index = 0
    /\ g_EXIT_flag = FALSE
    /\ faults = [k \in FaultKinds |-> 0]

-----------------------------------------------------------------------------
(* The kernel: fork, pipes, the end of a process                           *)

GoTo(w, s) == pc' = [pc EXCEPT ![w] = s]

Fault(kind) ==
    /\ faults' = [faults EXCEPT ![kind] = @ + 1]
    /\ \E plan \in FaultPlans : \A k \in FaultKinds : faults'[k] <= plan[k]

\* Mutant: the child does not close the write end of its own pipe.
PipeAndForkKeepingEnd(w) ==
    /\ GoTo(w, "enter")
    /\ quit' = [quit EXCEPT ![w] = FALSE]
    /\ writers' = [x \in Workers |->
                     IF x = w THEN {Manager, w}
                     ELSE IF Manager \in writers[x] THEN writers[x] \cup {w}
                     ELSE writers[x]]

\* pipe() and fork(): the child inherits every write end the manager has
\* open and closes the one of its own pipe; the manager closes fd[0].
PipeAndFork(w) ==
    /\ GoTo(w, "enter")
    /\ quit' = [quit EXCEPT ![w] = FALSE]
    /\ writers' = [x \in Workers |->
                     IF x = w THEN {Manager}
                     ELSE IF Manager \in writers[x] THEN writers[x] \cup {w}
                     ELSE writers[x]]

\* A process that ends closes its descriptors.
CloseWriteEndsOf(p) == writers' = [x \in Workers |-> writers[x] \ {p}]

-----------------------------------------------------------------------------
(* The manager                                                             *)

\* Mutant: the loop that creates the pool makes one turn too many.
ForkOneTooMany ==
    /\ mgr = "forking"
    /\ PipeAndFork(index)
    /\ index' = index + 1
    /\ mgr' = IF index = process_count THEN "monitoring" ELSE "forking"
    /\ UNCHANGED <<g_EXIT_flag, faults>>

\* One turn of the loop that creates the pool.
ForkWorker ==
    /\ mgr = "forking"
    /\ PipeAndFork(index)
    /\ index' = index + 1
    /\ mgr' = IF index + 1 = process_count THEN "monitoring" ELSE "forking"
    /\ UNCHANGED <<g_EXIT_flag, faults>>

\* Mutant: the write end that is closed is the next slot's.
WaitpidClosingNext ==
    /\ mgr = "monitoring"
    /\ \E w \in Workers :
         /\ pc[w] = "zombie"
         /\ GoTo(w, "none")
         /\ writers' = [writers EXCEPT ![(w + 1) % process_count] = @ \ {Manager}]
         /\ index' = w
    /\ mgr' = "rebooting"
    /\ UNCHANGED <<quit, g_EXIT_flag, faults>>

\* waitpid returns an ended worker; its slot's fd[1] is closed.
WaitpidChild ==
    /\ mgr = "monitoring"
    /\ \E w \in Workers :
         /\ pc[w] = "zombie"
         /\ GoTo(w, "none")
         /\ writers' = [writers EXCEPT ![w] = @ \ {Manager}]
         /\ index' = w
    /\ mgr' = "rebooting"
    /\ UNCHANGED <<quit, g_EXIT_flag, faults>>

\* Mutant: the new worker goes into the next slot.
RebootNextSlot ==
    /\ mgr = "rebooting"
    /\ PipeAndFork((index + 1) % process_count)
    /\ mgr' = "monitoring"
    /\ UNCHANGED <<index, g_EXIT_flag, faults>>

\* After the one second sleep: a new pipe and a new worker in the slot.
RebootWorker ==
    /\ mgr = "rebooting"
    /\ PipeAndFork(index)
    /\ mgr' = "monitoring"
    /\ UNCHANGED <<index, g_EXIT_flag, faults>>

\* pipe() or fork() fails: the environment is cleaned and the manager
\* returns without a word to the workers.
ForkFails ==
    /\ mgr \in {"forking", "rebooting"}
    /\ Fault("fork")
    /\ mgr' = "failed"
    /\ CloseWriteEndsOf(Manager)
    /\ UNCHANGED <<pc, quit, index, g_EXIT_flag>>

\* SIGTERM. Only a manager blocked in waitpid (so no worker is waiting to be
\* reaped) is interrupted by it; anywhere else the handler merely sets a flag
\* the manager does not read.
Sigterm ==
    /\ PoolWanted
    /\ g_EXIT_flag' = TRUE
    /\ \/ UNCHANGED <<mgr, index>>
       \/ /\ mgr = "monitoring"
          /\ \A w \in Workers : pc[w] # "zombie"
          /\ mgr' = "quitting"
          /\ index' = 0
    /\ UNCHANGED <<pc, pipeVars, faults>>

\* Mutant: the last worker gets no quit byte.
WriteQuitExceptLast ==
    /\ mgr = "quitting"
    /\ Alive(index)
    /\ quit' = [quit EXCEPT ![index] = index + 1 # process_count]
    /\ index' = IF index + 1 = process_count THEN 0 ELSE index + 1
    /\ mgr' = IF index + 1 = process_count THEN "reaping" ELSE "quitting"
    /\ UNCHANGED <<pc, writers, g_EXIT_flag, faults>>

\* One turn of the loop that writes the quit bytes. The pipe of a worker
\* that has ended has no reader: the write raises SIGPIPE, which kills.
WriteQuit ==
    /\ mgr = "quitting"
    /\ \/ /\ Alive(index)
          /\ quit' = [quit EXCEPT ![index] = TRUE]
          /\ index' = IF index + 1 = process_count THEN 0 ELSE index + 1
          /\ mgr' = IF index + 1 = process_count THEN "reaping" ELSE "quitting"
          /\ UNCHANGED writers
       \/ /\ ~ Alive(index)
          /\ mgr' = "killed"
          /\ CloseWriteEndsOf(Manager)
          /\ UNCHANGED <<quit, index>>
    /\ UNCHANGED <<pc, g_EXIT_flag, faults>>

\* One turn of the loop that waits for the workers.
ReapWorker ==
    /\ mgr = "reaping"
    /\ index < process_count
    /\ \E w \in Workers : pc[w] = "zombie" /\ GoTo(w, "none")
    /\ writers' = [writers EXCEPT ![index] = @ \ {Manager}]
    /\ index' = index + 1
    /\ UNCHANGED <<quit, mgr, g_EXIT_flag, faults>>

\* Mutant: the manager cleans up with one worker still to wait for.
CleanOneTooEarly ==
    /\ mgr = "reaping"
    /\ index = process_count - 1
    /\ mgr' = "done"
    /\ CloseWriteEndsOf(Manager)
    /\ UNCHANGED <<pc, quit, index, g_EXIT_flag, faults>>

\* Mutant: the manager cleans up before it waits for the workers.
CleanBeforeWaiting ==
    /\ mgr = "reaping"
    /\ index = 0
    /\ mgr' = "done"
    /\ CloseWriteEndsOf(Manager)
    /\ UNCHANGED <<pc, quit, index, g_EXIT_flag, faults>>

\* The pool is gone: the environment is cleaned and the manager returns.
CleanAndReturn ==
    /\ mgr = "reaping"
    /\ index = process_count
    /\ mgr' = "done"
    /\ CloseWriteEndsOf(Manager)
    /\ UNCHANGED <<pc, quit, index, g_EXIT_flag, faults>>

\* The manager is killed: SIGKILL, or a second SIGTERM once the handler is restored.
ManagerKilled ==
    /\ ~ ManagerEnded
    /\ Fault("manager")
    /\ mgr' = "killed"
    /\ CloseWriteEndsOf(Manager)
    /\ UNCHANGED <<pc, quit, index, g_EXIT_flag>>

-----------------------------------------------------------------------------
(* Properties of every pool                                                *)

\* The write ends the workers inherit from each other form no cycle: in any
\* group of running workers one has a pipe nobody in the group holds, so
\* that once everybody else is gone that one sees the end of its pipe.
PipesAcyclic ==
    \A S \in SUBSET {w \in Workers : Alive(w)} :
        S # {} => \E w \in S : writers[w] \cap S = {}

\* While the manager keeps the pool no running worker finds its alive pipe
\* readable, whichever other workers die and are restarted.
NoQuitUnasked == PoolWanted => \A w \in Workers : Alive(w) => ~ AlivePipeReadable(w)

\* When the manager returns from an orderly shutdown no worker process is
\* left, running or unwaited for.
CleanShutdown == mgr = "done" => \A w \in Workers : pc[w] = "none"

\* While the manager keeps the pool, an ended worker is replaced.
EndedWorkerRestarted ==
    \A w \in Workers : pc[w] = "zombie" ~> pc[w] = "enter" \/ ~ PoolWanted

\* The alive pipe tells the workers that the manager is gone: they end.
OrphansEnd == mgr = "killed" ~> \A w \in Workers : ~ Alive(w)
=============================================================================
