--------------------------- MODULE ConnectionPool ---------------------------
(***************************************************************************)
(* What the Leader-Follower pool promises, without semaphore, pipes or     *)
(* manager.  Leaders stand at the listening socket and take connections    *)
(* from it; a worker holds at most one connection, each connection goes to *)
(* one worker, and it is served or lost with the worker that held it.      *)
(* There is one leader at a time; spoilt counts the releases by workers    *)
(* that did not lead, each of which makes room for one leader more.        *)
(***************************************************************************)
EXTENDS Integers, FiniteSets

CONSTANTS Workers, Conns, NoConn

VARIABLES
    leaders,    \* the workers at the listening socket
    holds,      \* the connection each worker holds
    conn,       \* what became of each connection
    spoilt      \* releases by workers that did not lead

vars == <<leaders, holds, conn, spoilt>>

Init ==
    /\ leaders = {}
    /\ holds = [w \in Workers |-> NoConn]
    /\ conn = [c \in Conns |-> "idle"]
    /\ spoilt = 0

\* A client connects.
Arrive(c) ==
    /\ conn[c] = "idle"
    /\ conn' = [conn EXCEPT ![c] = "queued"]
    /\ UNCHANGED <<leaders, holds, spoilt>>

\* A follower becomes a leader.
Lead(w) ==
    /\ w \notin leaders
    /\ holds[w] = NoConn
    /\ Cardinality(leaders) <= spoilt
    /\ leaders' = leaders \cup {w}
    /\ UNCHANGED <<holds, conn, spoilt>>

\* A leader takes a connection.
Take(w, c) ==
    /\ w \in leaders
    /\ holds[w] = NoConn
    /\ conn[c] = "queued"
    /\ holds' = [holds EXCEPT ![w] = c]
    /\ conn' = [conn EXCEPT ![c] = "accepted"]
    /\ UNCHANGED <<leaders, spoilt>>

\* A leader makes room for the next.
Follow(w) ==
    /\ w \in leaders
    /\ leaders' = leaders \ {w}
    /\ UNCHANGED <<holds, conn, spoilt>>

\* A worker that does not lead serves its connection and lets go of it.
Serve(w) ==
    /\ w \notin leaders
    /\ holds[w] # NoConn
    /\ conn[holds[w]] = "accepted"
    /\ conn' = [conn EXCEPT ![holds[w]] = "served"]
    /\ holds' = [holds EXCEPT ![w] = NoConn]
    /\ UNCHANGED <<leaders, spoilt>>

\* A worker that does not lead is about to release what it does not hold: it has
\* served a connection without letting go of it, or has not been let in.
Spoil(w) ==
    /\ w \notin leaders
    /\ \/ /\ holds[w] # NoConn
          /\ conn[holds[w]] = "accepted"
          /\ conn' = [conn EXCEPT ![holds[w]] = "served"]
       \/ /\ holds[w] = NoConn
          /\ UNCHANGED conn
    /\ spoilt' = spoilt + 1
    /\ UNCHANGED <<leaders, holds>>

\* A worker ends, and with it a connection it has not served.
End(w) ==
    /\ leaders' = leaders \ {w}
    /\ holds' = [holds EXCEPT ![w] = NoConn]
    /\ conn' = [c \in Conns |->
                  IF c = holds[w] /\ conn[c] = "accepted" THEN "dropped" ELSE conn[c]]
    /\ UNCHANGED spoilt

Next ==
    \/ \E c \in Conns : Arrive(c)
    \/ \E w \in Workers : \/ Lead(w) \/ Follow(w) \/ Serve(w) \/ Spoil(w) \/ End(w)
                          \/ \E c \in Conns : Take(w, c)

Spec == Init /\ [][Next]_vars
=============================================================================
