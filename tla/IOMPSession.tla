----------------------------- MODULE IOMPSession -----------------------------
(***************************************************************************)
(* The sessions of one worker of the IO-Multiplex pool: the life of a      *)
(* session structure from the preallocated list through epoll, the tree of *)
(* begin timestamps and tcpmain's callbacks back to the list, and the      *)
(* event loop that drives it.  An event holds a pointer to the session it  *)
(* was registered with; the loop closes timed out sessions between         *)
(* epoll_wait and the handling of the events that epoll_wait returned.     *)
(***************************************************************************)
EXTENDS Integers, FiniteSets, SequencesExt

CONSTANTS
    Conns,          \* the client connections
    NoConn,         \* "no connection": the session is unused
    SessionCount,   \* SESSIONCOUNT_OF_ARRAY: sessions allocated at a time
    Timeouts,       \* the values of timeout_seconds to consider, 0: no timeout
    MaxFaults       \* bound: failed calls, and seconds by which the clock is set back

ASSUME SessionAssumption ==
    /\ IsFiniteSet(Conns) /\ NoConn \notin Conns
    /\ SessionCount \in Nat \ {0}
    /\ Timeouts \subseteq Nat
    /\ MaxFaults \in Nat

\* The sessions that may ever be allocated, in the order of allocation.
Sessions == 1 .. SessionCount * (Cardinality(Conns) + 1)

VARIABLES
    timeout_seconds,    \* the parameter: it never changes
    loop,               \* where the event loop is
    allocated,          \* sessions 1 .. allocated exist
    unused,             \* accepted_session_unused_list
    owner,              \* the connection each session is for
    registered,         \* what its socket is registered for in the epoll
    linked,             \* the sessions in the tree of begin timestamps, in its order
    age,                \* seconds since begin_timestamp, up to AgeLimit
    listening,          \* the batch holds the listening socket's event
    batch,              \* the events of sessions still to be handled
    data,               \* what tcpmain made of the connection's data pointer
    closings,           \* calls of tcpmain with IOMP_ON_CLOSING_SOCKET
    conn,               \* what became of each connection
    faults              \* failed calls and set back seconds so far

loopVars    == <<loop, listening, batch>>
sessionVars == <<allocated, unused, owner, registered, linked>>
appVars     == <<data, closings, conn>>
vars == <<timeout_seconds, loopVars, sessionVars, age, appVars, faults>>

LoopStates == {"wait", "scan", "batch", "accept", "returned", "undefined"}
Interests  == {"EPOLLIN", "EPOLLOUT"}
Backlog    == {c \in Conns : conn[c] = "queued"}

\* A session that has timed out still has when the clock has been set back.
AgeLimit == IF timeout_seconds = 0 THEN 0 ELSE timeout_seconds + MaxFaults

TypeOK ==
    /\ timeout_seconds \in Timeouts
    /\ loop \in LoopStates
    /\ allocated \in Sessions
    /\ unused \in Seq(1 .. allocated)
    /\ owner \in [Sessions -> Conns \cup {NoConn}]
    /\ registered \in [Sessions -> Interests \cup {"none"}]
    /\ linked \in Seq(1 .. allocated)
    /\ age \in [Sessions -> -MaxFaults .. AgeLimit]
    /\ listening \in BOOLEAN
    /\ batch \in SUBSET (Sessions \X Conns)
    /\ data \in [Conns -> {"none", "set", "freed", "lost"}]
    /\ closings \in [Conns -> Nat]
    /\ conn \in [Conns -> {"idle", "queued", "open", "closed"}]
    /\ faults \in 0 .. MaxFaults

\* InitDaemonEnv_IOMP preallocates the first array of sessions.
Init ==
    /\ timeout_seconds \in Timeouts
    /\ loop = "wait" /\ listening = FALSE /\ batch = {}
    /\ allocated = SessionCount
    /\ unused = [i \in 1 .. SessionCount |-> i]
    /\ owner = [s \in Sessions |-> NoConn]
    /\ registered = [s \in Sessions |-> "none"]
    /\ linked = <<>>
    /\ age = [s \in Sessions |-> 0]
    /\ data = [c \in Conns |-> "none"]
    /\ closings = [c \in Conns |-> 0]
    /\ conn = [c \in Conns |-> "idle"]
    /\ faults = 0

Fault == faults < MaxFaults /\ faults' = faults + 1

-----------------------------------------------------------------------------
(* Sessions                                                                *)

\* The new session goes after all whose timestamp is not later than its own.
Link(s) ==
    InsertAt(linked, Cardinality({i \in DOMAIN linked : age[linked[i]] >= 0}) + 1, s)

Unlink(s) == RemoveFirst(linked, s)

\* Mutant: the session stays in the tree of begin timestamps.
CloseSessionKeepingLink(s) ==
    /\ data' = [data EXCEPT ![owner[s]] = "freed"]
    /\ closings' = [closings EXCEPT ![owner[s]] = @ + 1]
    /\ conn' = [conn EXCEPT ![owner[s]] = "closed"]
    /\ owner' = [owner EXCEPT ![s] = NoConn]
    /\ registered' = [registered EXCEPT ![s] = "none"]
    /\ unused' = Append(unused, s)
    /\ UNCHANGED <<allocated, linked>>

\* Mutant: the session goes back to the list but its socket stays in the epoll.
CloseSessionKeepingEvents(s) ==
    /\ data' = [data EXCEPT ![owner[s]] = "freed"]
    /\ closings' = [closings EXCEPT ![owner[s]] = @ + 1]
    /\ conn' = [conn EXCEPT ![owner[s]] = "closed"]
    /\ linked' = Unlink(s)
    /\ unused' = Append(unused, s)
    /\ UNCHANGED <<allocated, owner, registered>>

\* CloseTcpdaemonAcceptedSession: tcpmain is told and frees its data, the socket leaves
\* the epoll and is closed, the session leaves the tree and is the last unused one.
CloseSession(s) ==
    /\ data' = [data EXCEPT ![owner[s]] = "freed"]
    /\ closings' = [closings EXCEPT ![owner[s]] = @ + 1]
    /\ conn' = [conn EXCEPT ![owner[s]] = "closed"]
    /\ owner' = [owner EXCEPT ![s] = NoConn]
    /\ registered' = [registered EXCEPT ![s] = "none"]
    /\ linked' = Unlink(s)
    /\ unused' = Append(unused, s)
    /\ UNCHANGED allocated

\* IncreaseTcpdaemonAcceptedSessions when the list is empty: one more array.
Unused ==
    IF unused = <<>> THEN [i \in 1 .. SessionCount |-> allocated + i] ELSE unused

\* Mutant: the new array is not accounted for.
AllocatedNotGrown == allocated

Allocated == IF unused = <<>> THEN allocated + SessionCount ELSE allocated

-----------------------------------------------------------------------------
(* The event loop                                                          *)

\* epoll_wait: any registered socket may be ready, or none within the second.
EpollWait ==
    /\ loop = "wait"
    /\ \E ready \in SUBSET {s \in Sessions : registered[s] # "none"} :
         batch' = {<<s, owner[s]>> : s \in ready}
    /\ listening' \in {FALSE, Backlog # {}}
    /\ loop' = IF timeout_seconds > 0 THEN "scan" ELSE "batch"
    /\ UNCHANGED <<timeout_seconds, sessionVars, age, appVars, faults>>

\* The first session of the tree, if it has timed out.
GetTimeoutAcceptedSession ==
    IF linked # <<>> /\ age[Head(linked)] >= timeout_seconds THEN {Head(linked)} ELSE {}

\* One turn of the timeout scan, which is over when there is no such session.
ScanTimeouts ==
    /\ loop = "scan"
    /\ \/ /\ \E s \in GetTimeoutAcceptedSession : CloseSession(s)
          /\ UNCHANGED loop
       \/ /\ GetTimeoutAcceptedSession = {}
          /\ loop' = "batch"
          /\ UNCHANGED <<sessionVars, appVars>>
    /\ UNCHANGED <<timeout_seconds, listening, batch, age, faults>>

\* Mutant: activity starts the timeout anew.
OnSessionRefreshing ==
    /\ loop = "batch"
    /\ \E e \in batch :
         LET s == e[1]
         IN  /\ batch' = batch \ {e}
             /\ owner[s] # NoConn
             /\ age' = [age EXCEPT ![s] = 0]
             /\ \/ /\ \E interest \in Interests :
                        registered' = [registered EXCEPT ![s] = interest]
                   /\ UNCHANGED <<allocated, unused, owner, linked, appVars>>
                \/ CloseSession(s)
    /\ UNCHANGED <<timeout_seconds, loop, listening, faults>>

\* tcpmain is called for an event of a session and has the session go on,
\* waiting for what it did or for something else, or be closed.
OnSession ==
    /\ loop = "batch"
    /\ \E e \in batch :
         LET s == e[1]
         IN  /\ batch' = batch \ {e}
             /\ owner[s] # NoConn
             /\ \/ /\ \E interest \in Interests :
                        registered' = [registered EXCEPT ![s] = interest]
                   /\ UNCHANGED <<allocated, unused, owner, linked, appVars>>
                \/ CloseSession(s)
    /\ UNCHANGED <<timeout_seconds, loop, listening, age, faults>>

\* The session of the event is an unused one: tcpmain is called with a data pointer it
\* has freed, and what happens from here on is undefined.
OnClosedSession ==
    /\ loop = "batch"
    /\ \E e \in batch : owner[e[1]] = NoConn
    /\ loop' = "undefined"
    /\ UNCHANGED <<timeout_seconds, listening, batch, sessionVars, age, appVars, faults>>

OnListenSocket ==
    /\ loop = "batch"
    /\ listening
    /\ listening' = FALSE
    /\ loop' = "accept"
    /\ UNCHANGED <<timeout_seconds, batch, sessionVars, age, appVars, faults>>

\* tcpmain does not set a data pointer: the socket is closed without more ado.
AcceptWithoutData ==
    /\ loop = "accept"
    /\ \E c \in Backlog : conn' = [conn EXCEPT ![c] = "closed"]
    /\ UNCHANGED <<timeout_seconds, loopVars, sessionVars, age, data, closings, faults>>

\* A session is fetched from the list and linked, and waits for what tcpmain asks for.
AcceptSession ==
    /\ loop = "accept"
    /\ \E c \in Backlog, interest \in Interests :
         LET s == Head(Unused)
         IN  /\ data' = [data EXCEPT ![c] = "set"]
             /\ conn' = [conn EXCEPT ![c] = "open"]
             /\ owner' = [owner EXCEPT ![s] = c]
             /\ registered' = [registered EXCEPT ![s] = interest]
             /\ linked' = Link(s)
             /\ age' = [age EXCEPT ![s] = 0]
    /\ unused' = Tail(Unused)
    /\ allocated' = Allocated
    /\ UNCHANGED <<timeout_seconds, loopVars, closings, faults>>

\* tcpmain returns CLOSE, NEXT or ERROR for the new connection: the session fetched for
\* it is closed at once and becomes the last of the list.
AcceptAndClose ==
    /\ loop = "accept"
    /\ \E c \in Backlog :
         /\ data' = [data EXCEPT ![c] = "freed"]
         /\ closings' = [closings EXCEPT ![c] = @ + 1]
         /\ conn' = [conn EXCEPT ![c] = "closed"]
    /\ unused' = Append(Tail(Unused), Head(Unused))
    /\ allocated' = Allocated
    /\ age' = [age EXCEPT ![Head(Unused)] = 0]
    /\ UNCHANGED <<timeout_seconds, loopVars, owner, registered, linked, faults>>

\* There is no unused session and no memory for more: the socket is closed, and
\* tcpmain, which has set its data, is not told.
AcceptWithoutMemory ==
    /\ loop = "accept"
    /\ unused = <<>>
    /\ Fault
    /\ \E c \in Backlog : /\ data' = [data EXCEPT ![c] = "lost"]
                          /\ conn' = [conn EXCEPT ![c] = "closed"]
    /\ UNCHANGED <<timeout_seconds, loopVars, sessionVars, age, closings>>

\* epoll_wait, accept or epoll_ctl fails, or an event is none the loop knows: the
\* worker returns, its process ends, and tcpmain is told of nothing.
SystemCallFails ==
    /\ loop \in {"wait", "accept", "batch"}
    /\ loop = "batch" => batch # {}
    /\ Fault
    /\ loop' = "returned"
    /\ UNCHANGED <<timeout_seconds, listening, batch, sessionVars, age, appVars>>

AcceptedAll ==
    /\ loop = "accept"
    /\ Backlog = {}
    /\ loop' = "batch"
    /\ UNCHANGED <<timeout_seconds, listening, batch, sessionVars, age, appVars, faults>>

\* Back to epoll_wait, unless the alive pipe was among the events (quit_flag).
BatchDone ==
    /\ loop = "batch"
    /\ batch = {} /\ ~ listening
    /\ loop' \in {"wait", "returned"}
    /\ UNCHANGED <<timeout_seconds, listening, batch, sessionVars, age, appVars, faults>>

-----------------------------------------------------------------------------
\* A second passes. Within a scan time stands still: now_timestamp is read once.
Tick ==
    /\ loop # "scan"
    /\ age' = [s \in Sessions |-> IF s \in ToSet(linked) /\ age[s] < AgeLimit
                                    THEN age[s] + 1 ELSE age[s]]
    /\ UNCHANGED <<timeout_seconds, loopVars, sessionVars, appVars, faults>>

\* The clock is set back by a second.
ClockSetBack ==
    /\ loop # "scan"
    /\ Fault
    /\ age' = [s \in Sessions |-> IF s \in ToSet(linked) THEN age[s] - 1 ELSE age[s]]
    /\ UNCHANGED <<timeout_seconds, loopVars, sessionVars, appVars>>

Connect(c) ==
    /\ conn[c] = "idle"
    /\ conn' = [conn EXCEPT ![c] = "queued"]
    /\ UNCHANGED <<timeout_seconds, loopVars, sessionVars, age, data, closings, faults>>

LoopStep ==
    \/ EpollWait \/ ScanTimeouts
    \/ OnSession \/ OnClosedSession \/ OnListenSocket \/ BatchDone
    \/ AcceptWithoutData \/ AcceptSession \/ AcceptAndClose \/ AcceptedAll

Next == LoopStep \/ AcceptWithoutMemory \/ SystemCallFails \/ Tick \/ ClockSetBack \/ \E c \in Conns : Connect(c)

\* The loop runs, as tcpmain does not block, and time passes whatever it does.
Fairness == WF_vars(LoopStep) /\ SF_vars(Tick)

Spec == Init /\ [][Next]_vars
FairSpec == Spec /\ Fairness

-----------------------------------------------------------------------------
(* Properties, of all that happens before anything undefined does          *)

InUse == {s \in 1 .. allocated : owner[s] # NoConn}

\* Every session is in the unused list, once, or in use, in the tree of timestamps
\* and in the epoll, for a connection of its own: none is lost, none is shared. The
\* tree has the oldest session first, though the clock has been set back.
SessionsAccounted ==
    /\ ToSet(unused) = (1 .. allocated) \ InUse
    /\ Len(unused) = Cardinality(ToSet(unused))
    /\ ToSet(linked) = InUse
    /\ Len(linked) = Cardinality(InUse)
    /\ \A i, j \in DOMAIN linked : i < j => age[linked[i]] >= age[linked[j]]
    /\ \A s \in Sessions : registered[s] # "none" <=> s \in InUse
    /\ {owner[s] : s \in InUse} = {c \in Conns : conn[c] = "open"}
    /\ \A s, t \in InUse : owner[s] = owner[t] => s = t

\* tcpmain is told of the end of each connection it has set data for, once, and
\* of no other, but for one for each time that there was no memory for sessions.
ClosedOnce ==
    /\ \A c \in Conns : /\ data[c] = "set" <=> conn[c] = "open"
                        /\ closings[c] = IF data[c] = "freed" THEN 1 ELSE 0
    /\ Cardinality({c \in Conns : data[c] = "lost"}) <= faults

\* Without a timeout every event reaches the connection it is of, though sessions
\* are closed and taken into use again while events wait.
EventsOfOpenSessions == \A e \in batch : owner[e[1]] = e[2]
EventsReachTheirSession == timeout_seconds = 0 => EventsOfOpenSessions

\* With a timeout no connection stays open for ever while the worker runs, however busy
\* it is and wherever it is in the tree.
SessionsTimeOut ==
    \A c \in Conns :
        timeout_seconds > 0 /\ conn[c] = "open" ~> conn[c] # "open" \/ loop \in {"returned", "undefined"}

-----------------------------------------------------------------------------
(* What the source promises and the code does not keep                     *)

\* A session that has been closed gets no more events.
NoEventAfterClosing == loop # "undefined"
=============================================================================
