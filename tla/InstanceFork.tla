---------------------------- MODULE InstanceFork ----------------------------
(***************************************************************************)
(* The Instance-Fork model of tcpdaemon (server model "IF"): tcpdaemon_IF, *)
(* a parent that accepts connections and forks a child for each, and its   *)
(* signal handlers.  The SIGCHLD handler waits for ended children and      *)
(* counts them down; it interrupts the parent anywhere, the select() of    *)
(* the main loop and the last wait loop included.  A child lives as long   *)
(* as its connection, so the state of a connection is also the child's.    *)
(***************************************************************************)
EXTENDS Integers, FiniteSets

CONSTANTS
    max_process_count,  \* p_para->process_count (-c): children at most, 0: no limit
    Conns,              \* the client connections
    NoConn,             \* "no accepted socket"
    MaxFaults           \* bound: failed system calls

ASSUME IFAssumption ==
    /\ max_process_count \in Nat
    /\ NoConn \notin Conns
    /\ IsFiniteSet(Conns)
    /\ MaxFaults \in Nat

VARIABLES
    parent,         \* where the parent is
    listen_sock,    \* the parent listens
    accepted_sock,  \* the connection it has just accepted
    process_count,  \* p_env->process_count, the children it has counted
    conn,           \* what became of each connection and of its child
    sigchld,        \* SIGCHLD is pending
    g_EXIT_flag,    \* set by the SIGTERM handler
    faults          \* failed system calls so far

vars == <<parent, listen_sock, accepted_sock, process_count, conn, sigchld, g_EXIT_flag, faults>>

\* The main loop, and the wait for the children after it.
LoopStates == {"select", "accept", "check", "fork", "count", "reap"}
ParentStates == {"init"} \cup LoopStates \cup {"ended", "waitpid", "done"}

\* "running", "zombie", "gone": its child runs, has ended, has been waited for.
ConnStates == {"idle", "queued", "accepted", "refused", "unforked",
               "running", "zombie", "gone"}

Backlog  == {c \in Conns : conn[c] = "queued"}
Running  == {c \in Conns : conn[c] = "running"}
Zombies  == {c \in Conns : conn[c] = "zombie"}
Children == Running \cup Zombies

TypeOK ==
    /\ parent \in ParentStates
    /\ listen_sock \in BOOLEAN
    /\ accepted_sock \in Conns \cup {NoConn}
    /\ process_count \in -1 .. Cardinality(Conns)
    /\ conn \in [Conns -> ConnStates]
    /\ sigchld \in BOOLEAN
    /\ g_EXIT_flag \in BOOLEAN
    /\ faults \in Nat

Init ==
    /\ parent = "init"
    /\ listen_sock = FALSE
    /\ accepted_sock = NoConn
    /\ process_count = 0
    /\ conn = [c \in Conns |-> "idle"]
    /\ sigchld = FALSE
    /\ g_EXIT_flag = FALSE
    /\ faults = 0

Fault == faults < MaxFaults /\ faults' = faults + 1

-----------------------------------------------------------------------------
(* The environment of the server                                           *)

\* The callback is there, the listening socket is bound and listens.
InitDaemonEnv ==
    /\ parent = "init"
    /\ parent' = "select"
    /\ listen_sock' = TRUE
    /\ UNCHANGED <<accepted_sock, process_count, conn, sigchld, g_EXIT_flag, faults>>

\* The listening socket is closed and tcpdaemon_IF returns.
CleanDaemonEnv ==
    /\ parent' = "done"
    /\ listen_sock' = FALSE

\* dlopen, dlsym, socket, bind or listen fails.
InitFails ==
    /\ parent = "init"
    /\ Fault
    /\ CleanDaemonEnv
    /\ UNCHANGED <<accepted_sock, process_count, conn, sigchld, g_EXIT_flag>>

-----------------------------------------------------------------------------
(* The main loop of the parent                                             *)

SelectReadable ==
    /\ parent = "select"
    /\ Backlog # {}
    /\ parent' = "accept"
    /\ UNCHANGED <<listen_sock, accepted_sock, process_count, conn, sigchld, g_EXIT_flag, faults>>

\* One second without a connection.
SelectTimeout ==
    /\ parent = "select"
    /\ Backlog = {}
    /\ parent' = "reap"
    /\ UNCHANGED <<listen_sock, accepted_sock, process_count, conn, sigchld, g_EXIT_flag, faults>>

\* Mutant: waitpid without WNOHANG, which waits for the children that run.
ReapAfterTimeoutBlocks ==
    /\ parent = "reap"
    /\ \/ /\ \E c \in Zombies : conn' = [conn EXCEPT ![c] = "gone"]
          /\ process_count' = process_count - 1
          /\ UNCHANGED parent
       \/ /\ Children = {}
          /\ parent' = "select"
          /\ UNCHANGED <<conn, process_count>>
    /\ UNCHANGED <<listen_sock, accepted_sock, sigchld, g_EXIT_flag, faults>>

\* waitpid WNOHANG after the timeout: one turn of the loop.
ReapAfterTimeout ==
    /\ parent = "reap"
    /\ \/ /\ \E c \in Zombies : conn' = [conn EXCEPT ![c] = "gone"]
          /\ process_count' = process_count - 1
          /\ UNCHANGED parent
       \/ /\ Zombies = {}
          /\ parent' = "select"
          /\ UNCHANGED <<conn, process_count>>
    /\ UNCHANGED <<listen_sock, accepted_sock, sigchld, g_EXIT_flag, faults>>

Accept ==
    /\ parent = "accept"
    /\ \E c \in Backlog :
         /\ accepted_sock' = c
         /\ conn' = [conn EXCEPT ![c] = "accepted"]
    /\ parent' = "check"
    /\ UNCHANGED <<listen_sock, process_count, sigchld, g_EXIT_flag, faults>>

\* Mutant: the child about to be forked is not counted in.
CheckOffByOne ==
    /\ parent = "check"
    /\ IF max_process_count # 0 /\ process_count > max_process_count
         THEN /\ conn' = [conn EXCEPT ![accepted_sock] = "refused"]
              /\ accepted_sock' = NoConn
              /\ parent' = "select"
         ELSE parent' = "fork" /\ UNCHANGED <<conn, accepted_sock>>
    /\ UNCHANGED <<listen_sock, process_count, sigchld, g_EXIT_flag, faults>>

\* Mutant: one child less than allowed.
CheckTooStrict ==
    /\ parent = "check"
    /\ IF max_process_count # 0 /\ process_count + 1 >= max_process_count
         THEN /\ conn' = [conn EXCEPT ![accepted_sock] = "refused"]
              /\ accepted_sock' = NoConn
              /\ parent' = "select"
         ELSE parent' = "fork" /\ UNCHANGED <<conn, accepted_sock>>
    /\ UNCHANGED <<listen_sock, process_count, sigchld, g_EXIT_flag, faults>>

\* "too many sockets": the connection is closed at once.
CheckLimit ==
    /\ parent = "check"
    /\ IF max_process_count # 0 /\ process_count + 1 > max_process_count
         THEN /\ conn' = [conn EXCEPT ![accepted_sock] = "refused"]
              /\ accepted_sock' = NoConn
              /\ parent' = "select"
         ELSE parent' = "fork" /\ UNCHANGED <<conn, accepted_sock>>
    /\ UNCHANGED <<listen_sock, process_count, sigchld, g_EXIT_flag, faults>>

\* From here the child may end, and the handler run, before the parent goes on.
Fork ==
    /\ parent = "fork"
    /\ conn' = [conn EXCEPT ![accepted_sock] = "running"]
    /\ parent' = "count"
    /\ UNCHANGED <<listen_sock, accepted_sock, process_count, sigchld, g_EXIT_flag, faults>>

ForkFails ==
    /\ parent = "fork"
    /\ Fault
    /\ conn' = [conn EXCEPT ![accepted_sock] = "unforked"]
    /\ accepted_sock' = NoConn
    /\ parent' = "select"
    /\ UNCHANGED <<listen_sock, process_count, sigchld, g_EXIT_flag>>

\* process_count++ is one instruction of the build (-O2).
CountChild ==
    /\ parent = "count"
    /\ process_count' = process_count + 1
    /\ accepted_sock' = NoConn
    /\ parent' = "select"
    /\ UNCHANGED <<listen_sock, conn, sigchld, g_EXIT_flag, faults>>

\* select() or accept() fails: the loop is left.
SystemCallFails ==
    /\ parent \in {"select", "accept"}
    /\ Fault
    /\ parent' = "ended"
    /\ UNCHANGED <<listen_sock, accepted_sock, process_count, conn, sigchld, g_EXIT_flag>>

-----------------------------------------------------------------------------
(* The end: wait for the children, as long as the count says there are any  *)

\* Mutant: the last child is not waited for.
TestCountOffByOne ==
    /\ parent = "ended"
    /\ IF process_count > 1 THEN parent' = "waitpid" /\ UNCHANGED listen_sock ELSE CleanDaemonEnv
    /\ UNCHANGED <<accepted_sock, process_count, conn, sigchld, g_EXIT_flag, faults>>

TestCount ==
    /\ parent = "ended"
    /\ IF process_count > 0 THEN parent' = "waitpid" /\ UNCHANGED listen_sock ELSE CleanDaemonEnv
    /\ UNCHANGED <<accepted_sock, process_count, conn, sigchld, g_EXIT_flag, faults>>

\* The blocking waitpid returns an ended child, which it does not count
\* down, or fails because there is no child.
WaitpidReturns ==
    /\ parent = "waitpid"
    /\ \/ \E c \in Zombies : conn' = [conn EXCEPT ![c] = "gone"]
       \/ Children = {} /\ UNCHANGED conn
    /\ parent' = "ended"
    /\ UNCHANGED <<listen_sock, accepted_sock, process_count, sigchld, g_EXIT_flag, faults>>

-----------------------------------------------------------------------------
(* Signals and the rest of the world                                       *)

\* A system call interrupted by a signal looks at g_EXIT_flag: out of the loop, or
\* again. The signal may also arrive just before the call and go unnoticed.
InterruptedIn(calls, exit_flag) ==
    \/ UNCHANGED parent
    \/ parent \in calls /\ exit_flag /\ parent' = "ended"

\* SIGTERM: once the loop is left the handler is not in place any more.
sigproc_SIGTERM ==
    /\ parent \in LoopStates
    /\ g_EXIT_flag' = TRUE
    /\ InterruptedIn({"select", "accept"}, TRUE)
    /\ UNCHANGED <<listen_sock, accepted_sock, process_count, conn, sigchld, faults>>

\* Mutant: the children waited for are counted as one.
sigproc_SIGCHLD_CountsOne ==
    /\ sigchld /\ parent # "done"
    /\ conn' = [c \in Conns |-> IF c \in Zombies THEN "gone" ELSE conn[c]]
    /\ process_count' = IF Zombies = {} THEN process_count ELSE process_count - 1
    /\ sigchld' = FALSE
    /\ InterruptedIn({"select"}, g_EXIT_flag)
    /\ UNCHANGED <<listen_sock, accepted_sock, g_EXIT_flag, faults>>

\* Mutant: the waitpid that finds no more is counted too.
sigproc_SIGCHLD_CountsLast ==
    /\ sigchld /\ parent # "done"
    /\ conn' = [c \in Conns |-> IF c \in Zombies THEN "gone" ELSE conn[c]]
    /\ process_count' = process_count - Cardinality(Zombies) - 1
    /\ sigchld' = FALSE
    /\ InterruptedIn({"select"}, g_EXIT_flag)
    /\ UNCHANGED <<listen_sock, accepted_sock, g_EXIT_flag, faults>>

\* SIGCHLD, with SA_RESTART, which select() does not honour: waits for every ended child.
sigproc_SIGCHLD ==
    /\ sigchld /\ parent # "done"
    /\ conn' = [c \in Conns |-> IF c \in Zombies THEN "gone" ELSE conn[c]]
    /\ process_count' = process_count - Cardinality(Zombies)
    /\ sigchld' = FALSE
    /\ InterruptedIn({"select"}, g_EXIT_flag)
    /\ UNCHANGED <<listen_sock, accepted_sock, g_EXIT_flag, faults>>

\* tcpmain returns, or the child crashes.
ChildEnds(c) ==
    /\ conn[c] = "running"
    /\ conn' = [conn EXCEPT ![c] = "zombie"]
    /\ sigchld' = TRUE
    /\ UNCHANGED <<listen_sock, parent, accepted_sock, process_count, g_EXIT_flag, faults>>

\* A client connects while the parent listens.
Connect(c) ==
    /\ conn[c] = "idle"
    /\ listen_sock
    /\ conn' = [conn EXCEPT ![c] = "queued"]
    /\ UNCHANGED <<listen_sock, parent, accepted_sock, process_count, sigchld, g_EXIT_flag, faults>>

ParentStep ==
    \/ InitDaemonEnv \/ SelectReadable \/ SelectTimeout \/ ReapAfterTimeout
    \/ Accept \/ CheckLimit \/ Fork \/ CountChild
    \/ TestCount \/ WaitpidReturns

Next ==
    \/ ParentStep \/ InitFails \/ ForkFails \/ SystemCallFails
    \/ sigproc_SIGTERM \/ sigproc_SIGCHLD
    \/ \E c \in Conns : ChildEnds(c) \/ Connect(c)

\* The parent runs and a pending signal is delivered; clients, SIGTERM, faults and
\* children, which may serve their connections for ever, owe nothing.
Fairness == WF_vars(ParentStep) /\ WF_vars(sigproc_SIGCHLD)

Spec == Init /\ [][Next]_vars
FairSpec == Spec /\ Fairness

\* The same when every child comes to its end.
EndingSpec == FairSpec /\ \A c \in Conns : WF_vars(ChildEnds(c))

-----------------------------------------------------------------------------
(* Safety                                                                  *)

Uncounted == IF parent = "count" THEN 1 ELSE 0

\* In the main loop the count is the number of children there are, less the one
\* just forked, even when that one has been waited for before it is counted;
\* after the loop it is never less.
CountExact ==
    /\ parent \in LoopStates => process_count = Cardinality(Children) - Uncounted
    /\ parent \notin LoopStates => process_count >= Cardinality(Children)

\* -c limits the child processes there are at any time.
ChildrenBounded == max_process_count # 0 => Cardinality(Children) <= max_process_count

\* The parent does not leave its children behind.
NoChildLeft == parent = "done" => Children = {}

\* No connection is refused while the children there are leave room for one more:
\* children that have ended do not go on counting.
RefusedOnlyWhenFull ==
    [][ \A c \in Conns : conn[c] = "accepted" /\ conn'[c] = "refused"
          => Cardinality(Children) >= max_process_count ]_vars

-----------------------------------------------------------------------------
(* Liveness                                                                *)

\* No ended child stays unwaited for, though signals of several children merge.
ChildrenReaped == \A c \in Conns : conn[c] = "zombie" ~> conn[c] = "gone"

\* While the parent is in its loop every connection is taken from the backlog.
BacklogServed ==
    \A c \in Conns : conn[c] = "queued" ~> conn[c] # "queued" \/ parent \notin LoopStates

-----------------------------------------------------------------------------
(* What the source promises and the code does not keep                     *)

\* "waiting for all children exit starting" is followed by "... ended".
FinalWaitEnds == parent = "ended" ~> parent = "done"
=============================================================================
