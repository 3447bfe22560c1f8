------------------------- MODULE InstanceFork_proofs -------------------------
(***************************************************************************)
(* Proofs about InstanceFork, for any limit of children, any finite set of *)
(* connections and any number of failed calls.  The invariant says what    *)
(* the count knows of the children at each place of the parent, with the   *)
(* SIGCHLD handler between any two of them.                                *)
(***************************************************************************)
EXTENDS InstanceFork, FiniteSetTheorems, TLAPS

\* What the parent knows of the connection it has accepted and has not forked for.
AcceptedInv ==
    parent \in {"check", "fork"} => accepted_sock \in Conns /\ conn[accepted_sock] = "accepted"

\* There is room for the child about to be forked; before the loop there is none.
RoomInv ==
    /\ parent = "fork" => max_process_count = 0 \/ process_count < max_process_count
    /\ parent = "init" => process_count = 0

IFInv == /\ TypeOK /\ AcceptedInv /\ RoomInv
         /\ CountExact /\ ChildrenBounded /\ NoChildLeft

-----------------------------------------------------------------------------
(* The children                                                            *)

\* The children are finitely many, no more than connections, and none if they count 0.
LEMMA ChildrenFacts ==
    /\ IsFiniteSet(Children) /\ IsFiniteSet(Zombies)
    /\ Cardinality(Children) \in Nat /\ Cardinality(Zombies) \in Nat
    /\ Cardinality(Zombies) <= Cardinality(Children)
    /\ Cardinality(Children) <= Cardinality(Conns)
    /\ Cardinality(Conns) \in Nat
    /\ Cardinality(Children) = 0 => Children = {}
<1>1. IsFiniteSet(Conns) /\ Children \in SUBSET Conns /\ Zombies \in SUBSET Children
  BY IFAssumption DEF Children, Running, Zombies
<1>2. IsFiniteSet(Children) /\ Cardinality(Children) <= Cardinality(Conns)
  BY <1>1, FS_Subset
<1>3. IsFiniteSet(Zombies) /\ Cardinality(Zombies) <= Cardinality(Children)
  BY <1>1, <1>2, FS_Subset
<1>4. Cardinality(Conns) \in Nat /\ Cardinality(Children) \in Nat /\ Cardinality(Zombies) \in Nat
  BY <1>1, <1>2, <1>3, FS_CardinalityType
<1>5. QED
  BY <1>2, <1>3, <1>4, FS_EmptySet

\* A connection without a child that gets another state without a child leaves the
\* children as they are.
LEMMA ChildrenSame ==
    ASSUME conn \in [Conns -> ConnStates], NEW c \in Conns, NEW s,
           c \notin Children, s \notin {"running", "zombie"},
           conn' = [conn EXCEPT ![c] = s]
    PROVE  Children' = Children /\ Cardinality(Children') = Cardinality(Children)
  BY DEF Children, Running, Zombies

\* A forked child is one more.
LEMMA ChildrenForked ==
    ASSUME conn \in [Conns -> ConnStates], NEW c \in Conns,
           conn[c] = "accepted",
           conn' = [conn EXCEPT ![c] = "running"]
    PROVE  Cardinality(Children') = Cardinality(Children) + 1
<1>1. Children' = Children \cup {c} /\ c \notin Children
  BY DEF Children, Running, Zombies
<1>2. QED
  BY <1>1, ChildrenFacts, FS_AddElement

\* A child that is waited for is one less.
LEMMA ChildrenWaitedFor ==
    ASSUME conn \in [Conns -> ConnStates], NEW c \in Zombies,
           conn' = [conn EXCEPT ![c] = "gone"]
    PROVE  Cardinality(Children') = Cardinality(Children) - 1
<1>1. Children' = Children \ {c} /\ c \in Children
  BY DEF Children, Running, Zombies
<1>2. QED
  BY <1>1, ChildrenFacts, FS_RemoveElement

\* The handler waits for as many children as have ended.
LEMMA ChildrenHandled ==
    ASSUME conn \in [Conns -> ConnStates],
           conn' = [c \in Conns |-> IF c \in Zombies THEN "gone" ELSE conn[c]]
    PROVE  /\ Cardinality(Children') = Cardinality(Children) - Cardinality(Zombies)
           /\ Children' \subseteq Children
<1>1. Children' = Children \ Zombies /\ Children \cap Zombies = Zombies
  BY DEF Children, Running, Zombies
<1>2. QED
  BY <1>1, ChildrenFacts, FS_Difference

\* Only its end makes a running child another one: the children stay the same.
LEMMA ChildrenEnded ==
    ASSUME conn \in [Conns -> ConnStates], NEW c \in Conns,
           conn[c] = "running",
           conn' = [conn EXCEPT ![c] = "zombie"]
    PROVE  Children' = Children /\ Cardinality(Children') = Cardinality(Children)
  BY DEF Children, Running, Zombies

-----------------------------------------------------------------------------
(* The invariant                                                           *)

LEMMA InitIFInv == Init => IFInv
<1> SUFFICES ASSUME Init PROVE IFInv
  OBVIOUS
<1>1. Children = {}
  BY DEF Init, Children, Running, Zombies
<1>2. Cardinality(Children) = 0
  BY <1>1, FS_EmptySet
<1>3. TypeOK
  <2>1. process_count \in -1 .. Cardinality(Conns) /\ faults \in Nat
    BY ChildrenFacts DEF Init
  <2>2. conn \in [Conns -> ConnStates]
    BY DEF Init, ConnStates
  <2>3. QED
    BY <2>1, <2>2 DEF Init, TypeOK, ParentStates
<1>4. QED
  BY <1>1, <1>2, <1>3, IFAssumption
     DEF Init, IFInv, AcceptedInv, RoomInv, CountExact, ChildrenBounded, NoChildLeft, LoopStates

\* The steps of the parent in its loop.
LEMMA LoopKeepsIFInv ==
    ASSUME IFInv,
           \/ InitDaemonEnv \/ SelectReadable \/ SelectTimeout \/ ReapAfterTimeout
           \/ Accept \/ CheckLimit \/ Fork \/ ForkFails \/ CountChild
    PROVE  IFInv'
<1> USE ChildrenFacts, IFAssumption
    DEF IFInv, TypeOK, AcceptedInv, RoomInv, CountExact, Uncounted, ChildrenBounded, NoChildLeft,
        ParentStates, LoopStates
<1>0. ASSUME UNCHANGED conn
      PROVE  Children' = Children /\ Cardinality(Children') = Cardinality(Children)
  BY <1>0 DEF Children, Running, Zombies
<1>1. CASE InitDaemonEnv
  BY <1>0, <1>1 DEF InitDaemonEnv
<1>2. CASE SelectReadable
  BY <1>0, <1>2 DEF SelectReadable
<1>3. CASE SelectTimeout
  BY <1>0, <1>3 DEF SelectTimeout
<1>4. CASE ReapAfterTimeout
  <2>1. CASE \E c \in Zombies : conn' = [conn EXCEPT ![c] = "gone"]
    <3>1. PICK c \in Zombies : conn' = [conn EXCEPT ![c] = "gone"]
      BY <2>1
    <3>2. Cardinality(Children') = Cardinality(Children) - 1
      BY <3>1, ChildrenWaitedFor
    <3>3. conn' \in [Conns -> ConnStates]
      BY <3>1 DEF ConnStates
    <3>4. process_count' = process_count - 1 /\ parent' = parent
      BY <1>4, <3>1, <3>3 DEF ReapAfterTimeout, Zombies
    <3>5. QED
      BY <1>4, <3>2, <3>3, <3>4 DEF ReapAfterTimeout
  <2>2. CASE UNCHANGED <<conn, process_count>> /\ parent' = "select"
    BY <1>0, <1>4, <2>2 DEF ReapAfterTimeout
  <2>3. QED
    BY <1>4, <2>1, <2>2 DEF ReapAfterTimeout
<1>5. CASE Accept
  <2>1. PICK c \in Backlog : accepted_sock' = c /\ conn' = [conn EXCEPT ![c] = "accepted"]
    BY <1>5 DEF Accept
  <2>2. c \in Conns /\ c \notin Children
    BY <2>1 DEF Backlog, Children, Running, Zombies
  <2>3. Children' = Children /\ Cardinality(Children') = Cardinality(Children)
    BY <2>1, <2>2, ChildrenSame
  <2>4. conn' \in [Conns -> ConnStates] /\ conn'[c] = "accepted"
    BY <2>1, <2>2 DEF ConnStates
  <2>5. QED
    BY <1>5, <2>1, <2>2, <2>3, <2>4 DEF Accept
<1>6. CASE CheckLimit
  <2>1. CASE max_process_count # 0 /\ process_count + 1 > max_process_count
    <3>1. accepted_sock \in Conns /\ accepted_sock \notin Children
      BY <1>6 DEF CheckLimit, Children, Running, Zombies
    <3>2. conn' = [conn EXCEPT ![accepted_sock] = "refused"]
      BY <1>6, <2>1 DEF CheckLimit
    <3>3. Cardinality(Children') = Cardinality(Children)
      BY <3>1, <3>2, ChildrenSame
    <3>4. conn' \in [Conns -> ConnStates]
      BY <3>2 DEF ConnStates
    <3>5. QED
      BY <1>6, <2>1, <3>3, <3>4 DEF CheckLimit
  <2>2. CASE max_process_count = 0 \/ process_count + 1 <= max_process_count
    BY <1>0, <1>6, <2>2 DEF CheckLimit
  <2>3. QED
    BY <2>1, <2>2
<1>7. CASE Fork
  <2>1. Cardinality(Children') = Cardinality(Children) + 1
    BY <1>7, ChildrenForked DEF Fork
  <2>2. conn' \in [Conns -> ConnStates]
    BY <1>7 DEF Fork, ConnStates
  <2>3. QED
    BY <1>7, <2>1, <2>2, ChildrenFacts DEF Fork
<1>8. CASE ForkFails
  <2>1. accepted_sock \in Conns /\ accepted_sock \notin Children
    BY <1>8 DEF ForkFails, Children, Running, Zombies
  <2>2. Cardinality(Children') = Cardinality(Children)
    BY <1>8, <2>1, ChildrenSame DEF ForkFails
  <2>3. conn' \in [Conns -> ConnStates]
    BY <1>8 DEF ForkFails, ConnStates
  <2>4. QED
    BY <1>8, <2>2, <2>3 DEF ForkFails, Fault
<1>9. CASE CountChild
  BY <1>0, <1>9 DEF CountChild
<1>10. QED
  BY <1>1, <1>2, <1>3, <1>4, <1>5, <1>6, <1>7, <1>8, <1>9

\* The end of the loop, the signal handlers, and what goes on outside of the parent.
LEMMA OthersKeepIFInv ==
    ASSUME IFInv,
           \/ InitFails \/ SystemCallFails \/ TestCount \/ WaitpidReturns
           \/ sigproc_SIGTERM \/ sigproc_SIGCHLD
           \/ \E c \in Conns : ChildEnds(c) \/ Connect(c)
    PROVE  IFInv'
<1> USE ChildrenFacts, IFAssumption
    DEF IFInv, TypeOK, AcceptedInv, RoomInv, CountExact, Uncounted, ChildrenBounded, NoChildLeft,
        ParentStates, LoopStates
<1>0. ASSUME UNCHANGED conn
      PROVE  Children' = Children /\ Cardinality(Children') = Cardinality(Children)
  BY <1>0 DEF Children, Running, Zombies
<1>1. CASE InitFails
  <2>1. faults' \in Nat
    BY <1>1 DEF InitFails, Fault
  <2>2. Children' = {}
    BY <1>0, <1>1 DEF InitFails
  <2>3. QED
    BY <1>0, <1>1, <2>1, <2>2 DEF InitFails, CleanDaemonEnv
<1>2. CASE SystemCallFails
  <2>1. faults' \in Nat
    BY <1>2 DEF SystemCallFails, Fault
  <2>2. QED
    BY <1>0, <1>2, <2>1 DEF SystemCallFails
<1>3. CASE TestCount
  <2>1. CASE process_count > 0
    BY <1>0, <1>3, <2>1 DEF TestCount
  <2>2. CASE process_count <= 0
    <3>1. Children = {}
      BY <1>3, <2>2 DEF TestCount
    <3>2. parent' = "done" /\ listen_sock' = FALSE /\ UNCHANGED <<accepted_sock, process_count, conn, sigchld, g_EXIT_flag, faults>>
      BY <1>3, <2>2 DEF TestCount, CleanDaemonEnv
    <3>3. QED
      BY <1>0, <1>3, <3>1, <3>2 DEF TestCount
  <2>3. QED
    BY <2>1, <2>2
<1>4. CASE WaitpidReturns
  <2>1. CASE \E c \in Zombies : conn' = [conn EXCEPT ![c] = "gone"]
    <3>1. PICK c \in Zombies : conn' = [conn EXCEPT ![c] = "gone"]
      BY <2>1
    <3>2. Cardinality(Children') = Cardinality(Children) - 1
      BY <3>1, ChildrenWaitedFor
    <3>3. conn' \in [Conns -> ConnStates]
      BY <3>1 DEF ConnStates
    <3>4. QED
      BY <1>4, <3>2, <3>3 DEF WaitpidReturns
  <2>2. CASE UNCHANGED conn
    BY <1>0, <1>4, <2>2 DEF WaitpidReturns
  <2>3. QED
    BY <1>4, <2>1, <2>2 DEF WaitpidReturns
<1>5. CASE sigproc_SIGTERM
  BY <1>0, <1>5 DEF sigproc_SIGTERM, InterruptedIn
<1>6. CASE sigproc_SIGCHLD
  <2>1. Cardinality(Children') = Cardinality(Children) - Cardinality(Zombies)
    BY <1>6, ChildrenHandled DEF sigproc_SIGCHLD
  <2>2. /\ conn' \in [Conns -> ConnStates]
        /\ \A c \in Conns : conn[c] = "accepted" => conn'[c] = "accepted"
    BY <1>6 DEF sigproc_SIGCHLD, ConnStates, Zombies
  <2>3. /\ parent' = parent \/ (parent = "select" /\ parent' = "ended")
        /\ parent # "done"
        /\ process_count' = process_count - Cardinality(Zombies)
        /\ accepted_sock' = accepted_sock
    BY <1>6 DEF sigproc_SIGCHLD, InterruptedIn
  <2>4. Cardinality(Children') \in Nat /\ Cardinality(Children') <= Cardinality(Conns)
    BY <2>1
  <2>5. TypeOK'
    <3>1. process_count' \in -1 .. Cardinality(Conns)
      BY <2>3
    <3>2. parent' \in ParentStates /\ accepted_sock' \in Conns \cup {NoConn}
      BY <2>3
    <3>3. sigchld' \in BOOLEAN /\ UNCHANGED <<listen_sock, g_EXIT_flag, faults>>
      BY <1>6 DEF sigproc_SIGCHLD
    <3>4. QED
      BY <2>2, <3>1, <3>2, <3>3
  <2>6. AcceptedInv' /\ RoomInv'
    BY <2>2, <2>3
  <2>7. CountExact' /\ ChildrenBounded' /\ NoChildLeft'
    BY <2>1, <2>3, <2>4
  <2>8. QED
    BY <2>5, <2>6, <2>7
<1>7. ASSUME NEW c \in Conns, ChildEnds(c)
      PROVE  IFInv'
  <2>1. Children' = Children /\ Cardinality(Children') = Cardinality(Children)
    BY <1>7, ChildrenEnded DEF ChildEnds
  <2>2. /\ conn' \in [Conns -> ConnStates]
        /\ \A d \in Conns : conn[d] = "accepted" => conn'[d] = "accepted"
    BY <1>7 DEF ChildEnds, ConnStates
  <2>3. QED
    BY <1>7, <2>1, <2>2 DEF ChildEnds
<1>8. ASSUME NEW c \in Conns, Connect(c)
      PROVE  IFInv'
  <2>1. c \notin Children
    BY <1>8 DEF Connect, Children, Running, Zombies
  <2>2. Children' = Children /\ Cardinality(Children') = Cardinality(Children)
    BY <1>8, <2>1, ChildrenSame DEF Connect
  <2>3. /\ conn' \in [Conns -> ConnStates]
        /\ \A d \in Conns : conn[d] = "accepted" => conn'[d] = "accepted"
    BY <1>8 DEF Connect, ConnStates
  <2>4. QED
    BY <1>8, <2>2, <2>3 DEF Connect
<1>9. QED
  BY <1>1, <1>2, <1>3, <1>4, <1>5, <1>6, <1>7, <1>8

\* The invariant, and that it does not look at the faults, which others may have.
LEMMA NextIFInv == IFInv /\ [Next]_vars => IFInv'
<1> SUFFICES ASSUME IFInv, [Next]_vars PROVE IFInv'
  OBVIOUS
<1>1. CASE Next
  BY <1>1, LoopKeepsIFInv, OthersKeepIFInv DEF Next, ParentStep
<1>2. CASE UNCHANGED vars
  BY <1>2 DEF vars, IFInv, TypeOK, AcceptedInv, RoomInv, CountExact, Uncounted, ChildrenBounded,
              NoChildLeft, Children, Running, Zombies
<1>3. QED
  BY <1>1, <1>2

\* The invariant holds in every reachable state.
LEMMA IFInvariant == Spec => []IFInv
  BY InitIFInv, NextIFInv, PTL DEF Spec
-----------------------------------------------------------------------------
(* The properties                                                          *)

\* Every reachable state of the parent and its children is well typed.
THEOREM TypeCorrect == Spec => []TypeOK
  BY IFInvariant, PTL DEF IFInv

\* However the handler and the loop interleave, process_count is the number of
\* children in the loop (1056-1137), and after it no less (1146).
THEOREM CountIsExact == Spec => []CountExact
  BY IFInvariant, PTL DEF IFInv

\* There are never more children than -c allows (1056-1061).
THEOREM ChildrenLimited == Spec => []ChildrenBounded
  BY IFInvariant, PTL DEF IFInv

\* tcpdaemon_IF does not return while it has children (1146-1156).
THEOREM NoChildIsLeft == Spec => []NoChildLeft
  BY IFInvariant, PTL DEF IFInv

\* Only the test of the limit refuses a connection, and it counts exactly.
LEMMA RefusedByTheLimit ==
    ASSUME IFInv, [Next]_vars,
           NEW c \in Conns, conn[c] = "accepted", conn'[c] = "refused"
    PROVE  Cardinality(Children) >= max_process_count
<1> USE DEF IFInv, TypeOK
<1>1. CASE CheckLimit
  <2>1. max_process_count # 0 /\ process_count + 1 > max_process_count
    BY <1>1 DEF CheckLimit
  <2>2. process_count = Cardinality(Children)
    BY <1>1, ChildrenFacts DEF CheckLimit, CountExact, Uncounted, LoopStates
  <2>3. QED
    BY <2>1, <2>2, ChildrenFacts, IFAssumption
<1>2. CASE conn' = conn
  BY <1>2
<1>3. CASE \E d \in Conns, s \in ConnStates \ {"refused"} : conn' = [conn EXCEPT ![d] = s]
  BY <1>3
<1>4. CASE sigproc_SIGCHLD
  BY <1>4 DEF sigproc_SIGCHLD
<1>5. CheckLimit \/ sigproc_SIGCHLD \/ conn' = conn
        \/ \E d \in Conns, s \in ConnStates \ {"refused"} : conn' = [conn EXCEPT ![d] = s]
  <2>1. CASE InitDaemonEnv \/ InitFails \/ SelectReadable \/ SelectTimeout \/ CountChild
             \/ TestCount \/ SystemCallFails \/ sigproc_SIGTERM \/ UNCHANGED vars
    BY <2>1 DEF InitDaemonEnv, InitFails, SelectReadable, SelectTimeout, CountChild, TestCount,
                SystemCallFails, sigproc_SIGTERM, vars
  <2>2. CASE ReapAfterTimeout \/ WaitpidReturns
    BY <2>2 DEF ReapAfterTimeout, WaitpidReturns, Zombies, ConnStates
  <2>3. CASE Accept
    BY <2>3 DEF Accept, Backlog, ConnStates
  <2>4. CASE Fork \/ ForkFails
    BY <2>4 DEF Fork, ForkFails, AcceptedInv, ConnStates
  <2>5. CASE \E d \in Conns : ChildEnds(d) \/ Connect(d)
    BY <2>5 DEF ChildEnds, Connect, ConnStates
  <2>6. QED
    BY <2>1, <2>2, <2>3, <2>4, <2>5 DEF Next, ParentStep
<1>6. QED
  BY <1>1, <1>2, <1>3, <1>4, <1>5

\* No connection is refused (1056-1061) while there is room for its child, though
\* children that have ended may not have been waited for yet.
THEOREM RefusedIsFull == Spec => RefusedOnlyWhenFull
<1>1. IFInv /\ [Next]_vars =>
        [ \A c \in Conns : conn[c] = "accepted" /\ conn'[c] = "refused"
            => Cardinality(Children) >= max_process_count ]_vars
  BY RefusedByTheLimit
<1>2. QED
  BY <1>1, IFInvariant, PTL DEF Spec, RefusedOnlyWhenFull
=============================================================================
