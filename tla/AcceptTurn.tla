----------------------------- MODULE AcceptTurn -----------------------------
(***************************************************************************)
(* What the IO-Multiplex pool promises, without epolls, events, pipes or   *)
(* manager.  Accepting goes round: it is the turn of one worker, who takes *)
(* connections and passes the turn to the next.  A connection becomes a    *)
(* session of the worker who took it and of no other, until that worker    *)
(* closes it or ends.  The turn may be lost, by the worker whose it is.    *)
(***************************************************************************)
EXTENDS Integers

CONSTANTS Conns, process_count

Workers == 0 .. process_count - 1
NoTurn  == -1

VARIABLES
    turn,       \* the worker who may accept
    sessions,   \* the sessions of each worker
    conn        \* what became of each connection

vars == <<turn, sessions, conn>>

Init ==
    /\ turn = 0
    /\ sessions = [w \in Workers |-> {}]
    /\ conn = [c \in Conns |-> "idle"]

\* A client connects.
Arrive(c) ==
    /\ conn[c] = "idle"
    /\ conn' = [conn EXCEPT ![c] = "queued"]
    /\ UNCHANGED <<turn, sessions>>

\* The worker takes a connection, for a session or to close it at once.
Take(w, c) ==
    /\ turn = w
    /\ conn[c] = "queued"
    /\ \/ /\ conn' = [conn EXCEPT ![c] = "open"]
          /\ sessions' = [sessions EXCEPT ![w] = @ \cup {c}]
       \/ /\ conn' = [conn EXCEPT ![c] = "closed"]
          /\ UNCHANGED sessions
    /\ UNCHANGED turn

\* Only a worker closes its session, whether or not it is its turn.
Close(w, c) ==
    /\ c \in sessions[w]
    /\ sessions' = [sessions EXCEPT ![w] = @ \ {c}]
    /\ conn' = [conn EXCEPT ![c] = "closed"]
    /\ UNCHANGED turn

\* It is the next worker's turn.
Pass(w) ==
    /\ turn = w
    /\ turn' = (w + 1) % process_count
    /\ UNCHANGED <<sessions, conn>>

\* A call of the worker fails before it has passed the turn on.
Lose(w) ==
    /\ turn = w
    /\ turn' = NoTurn
    /\ UNCHANGED <<sessions, conn>>

\* A worker ends, with its sessions and possibly the turn.
End(w) ==
    /\ turn' = turn \/ (turn = w /\ turn' = NoTurn)
    /\ sessions' = [sessions EXCEPT ![w] = {}]
    /\ conn' = [c \in Conns |-> IF c \in sessions[w] THEN "dropped" ELSE conn[c]]

Next ==
    \/ \E c \in Conns : Arrive(c)
    \/ \E w \in Workers : \/ Pass(w) \/ Lose(w) \/ End(w)
                          \/ \E c \in Conns : Take(w, c) \/ Close(w, c)

Spec == Init /\ [][Next]_vars
=============================================================================
