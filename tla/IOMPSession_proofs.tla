-------------------------- MODULE IOMPSession_proofs --------------------------
(***************************************************************************)
(* Proofs about the sessions of an IOMP worker, for any number of          *)
(* connections, sessions per array, failed calls and any timeouts: every   *)
(* session is in the unused list or in use for a connection of its own,    *)
(* tcpmain is told once of the end of each connection, and without a       *)
(* timeout every event reaches the connection it is of.                    *)
(***************************************************************************)
EXTENDS IOMPSession, SequenceLemmas, FiniteSetTheorems, SequenceTheorems, TLAPS

-----------------------------------------------------------------------------
(* The invariant                                                           *)

\* The session is in use for a connection.
Carries(s) == owner[s] # NoConn

\* The list has the allocated sessions that are not in use, the tree and the epoll those
\* that are, each once, and these have the open connections, one each.
SessionInv ==
    /\ IsInjective(unused) /\ ToSet(unused) = {s \in 1 .. allocated : ~ Carries(s)}
    /\ IsInjective(linked) /\ ToSet(linked) = {s \in Sessions : Carries(s)}
    /\ \A s \in Sessions :
          /\ Carries(s) => s <= allocated /\ conn[owner[s]] = "open"
          /\ registered[s] # "none" <=> Carries(s)
          /\ \A t \in Sessions : Carries(s) /\ owner[t] = owner[s] => t = s
    /\ \A c \in Conns : conn[c] = "open" => \E s \in Sessions : owner[s] = c

\* Sessions in the tree stand by their age, and an age is below zero only by the
\* seconds the clock was set back.
OrderInv ==
    /\ \A i, j \in DOMAIN linked : i < j => age[linked[i]] >= age[linked[j]]
    /\ \A s \in Sessions : age[s] >= - faults

\* The sessions that may be are numbers, and the first array is among them.
LEMMA SessionsFacts ==
    /\ Cardinality(Conns) \in Nat
    /\ SessionCount * (Cardinality(Conns) + 1) \in Nat
    /\ Sessions \subseteq Nat
    /\ \A n \in Int : n \in Sessions <=> 1 <= n /\ n <= SessionCount * (Cardinality(Conns) + 1)
    /\ \A n \in Nat : n < Cardinality(Conns) =>
           n + SessionCount <= SessionCount * (Cardinality(Conns) + 1)
<1>1. PICK k \in Nat : k = Cardinality(Conns)
  BY SessionAssumption, FS_CardinalityType
<1>2. SessionCount \in Nat /\ SessionCount >= 1
  BY SessionAssumption
<1>3. SessionCount * (k + 1) \in Nat
  BY <1>2
<1>4. \A n \in Nat : n < k => n + SessionCount <= SessionCount * (k + 1)
  <2>1. SessionCount * (k + 1) = SessionCount * k + SessionCount
    BY <1>2
  <2>2. SessionCount * k >= k /\ SessionCount * k \in Nat
    BY <1>2
  <2>3. QED
    BY <1>2, <2>1, <2>2
<1>5. QED
  BY <1>1, <1>3, <1>4 DEF Sessions

\* When the list is empty and a connection waits there is room for one more array: every
\* allocated session has an open connection of its own.
LEMMA RoomForArray ==
    ASSUME TypeOK, SessionInv, unused = <<>>, Backlog # {}
    PROVE  allocated + SessionCount \in Sessions
<1>1. PICK c \in Conns : conn[c] = "queued"
  BY DEF Backlog
<1>2. allocated \in Sessions /\ allocated \in Nat /\ 1 .. allocated \subseteq Sessions
  <2>1. allocated \in Sessions /\ allocated \in Nat
    BY SessionsFacts DEF TypeOK
  <2>2. \A s \in 1 .. allocated : s \in Sessions
    BY <2>1, SessionsFacts
  <2>3. QED
    BY <2>1, <2>2
<1>3. \A s \in 1 .. allocated : Carries(s)
  BY DEF SessionInv, ToSet
<1>4. \A s \in 1 .. allocated : owner[s] \in Conns \ {c}
  BY <1>1, <1>2, <1>3 DEF SessionInv, TypeOK, Carries
<1>5. [s \in 1 .. allocated |-> owner[s]] \in Injection(1 .. allocated, Conns \ {c})
  <2> DEFINE f == [s \in 1 .. allocated |-> owner[s]]
  <2>1. f \in [1 .. allocated -> Conns \ {c}]
    BY <1>4
  <2>2. IsInjective(f)
    BY <1>2, <1>3 DEF SessionInv, IsInjective
  <2>3. QED
    BY <2>1, <2>2 DEF Injection
<1>6. IsFiniteSet(Conns \ {c}) /\ Cardinality(Conns \ {c}) = Cardinality(Conns) - 1
  BY SessionAssumption, FS_RemoveElement
<1>7. Cardinality(1 .. allocated) <= Cardinality(Conns) - 1
  BY <1>5, <1>6, FS_Injection
<1>8. Cardinality(1 .. allocated) = allocated
  <2>1. 1 \in Int /\ allocated \in Int /\ allocated >= 1
    BY <1>2, SessionsFacts
  <2>2. Cardinality(1 .. allocated) = IF 1 > allocated THEN 0 ELSE allocated - 1 + 1
    BY <2>1, FS_Interval
  <2>3. QED
    BY <2>1, <2>2
<1>9. allocated < Cardinality(Conns)
  BY <1>2, <1>7, <1>8, SessionsFacts
<1>10. QED
  BY <1>2, <1>9, SessionsFacts, SessionAssumption

\* The list a session is fetched from has one, and has all that are not in use, once.
LEMMA UnusedFacts ==
    ASSUME TypeOK, SessionInv, Backlog # {}
    PROVE  /\ Allocated \in Sessions /\ allocated <= Allocated
           /\ Unused \in Seq(1 .. Allocated) /\ Unused # <<>>
           /\ IsInjective(Unused)
           /\ ToSet(Unused) = {s \in 1 .. Allocated : ~ Carries(s)}
<1>1. CASE unused # <<>>
  <2>1. Unused = unused /\ Allocated = allocated
    BY <1>1 DEF Unused, Allocated
  <2>2. allocated \in Sessions /\ allocated \in Nat
    BY SessionsFacts DEF TypeOK
  <2>3. QED
    BY <1>1, <2>1, <2>2 DEF SessionInv, TypeOK
<1>2. CASE unused = <<>>
  <2> DEFINE array == [i \in 1 .. SessionCount |-> allocated + i]
  <2>1. Allocated = allocated + SessionCount /\ Unused = array
    BY <1>2 DEF Unused, Allocated
  <2>2. PICK n \in Nat : n = allocated /\ n \in Sessions
    BY SessionsFacts DEF TypeOK
  <2>3. PICK k \in Nat \ {0} : k = SessionCount
    BY SessionAssumption
  <2>4. n + k \in Sessions
    BY <1>2, <2>2, <2>3, RoomForArray
  <2>5. array = [i \in 1 .. k |-> n + i]
    BY <2>2, <2>3
  <2> HIDE DEF array
  <2>6. array \in Seq(1 .. n + k) /\ array # <<>> /\ IsInjective(array)
    <3>1. array \in [1 .. k -> 1 .. n + k]
      <4>1. \A i \in 1 .. k : n + i \in 1 .. n + k
        OBVIOUS
      <4>2. QED
        BY <2>5, <4>1
    <3>2. array \in Seq(1 .. n + k)
      BY <3>1, SeqDef
    <3>3. array # <<>>
      <4>1. 1 \in DOMAIN array
        BY <3>1
      <4>2. QED
        BY <4>1
    <3>4. IsInjective(array)
      BY <2>5 DEF IsInjective
    <3>5. QED
      BY <3>2, <3>3, <3>4
  <2>7. ToSet(array) = n + 1 .. n + k
    <3>1. ASSUME NEW x \in n + 1 .. n + k PROVE x \in ToSet(array)
      <4>1. x - n \in 1 .. k /\ n + (x - n) = x
        OBVIOUS
      <4>2. QED
        BY <2>5, <4>1 DEF ToSet
    <3>2. ASSUME NEW x \in ToSet(array) PROVE x \in n + 1 .. n + k
      <4>1. PICK i \in 1 .. k : x = n + i
        BY <2>5 DEF ToSet
      <4>2. QED
        BY <4>1
    <3>3. QED
      BY <3>1, <3>2
  <2>8. \A s \in 1 .. n : Carries(s)
    BY <1>2, <2>2 DEF SessionInv, ToSet
  <2>9. \A s \in n + 1 .. n + k : ~ Carries(s)
    <3> SUFFICES ASSUME NEW s \in n + 1 .. n + k PROVE ~ Carries(s)
      OBVIOUS
    <3>1. s \in Sessions /\ ~ (s <= n)
      BY <2>2, <2>4, SessionsFacts
    <3>2. QED
      BY <2>2, <3>1 DEF SessionInv
  <2>10. {s \in 1 .. n + k : ~ Carries(s)} = n + 1 .. n + k
    BY <2>8, <2>9
  <2>11. QED
    BY <2>1, <2>2, <2>3, <2>4, <2>6, <2>7, <2>10
<1>3. QED
  BY <1>1, <1>2

-----------------------------------------------------------------------------
(* What the steps do to the sessions                                       *)

\* Sessions may wait for something else, and nothing more.
SessionsKept ==
    /\ UNCHANGED <<allocated, unused, owner, linked>>
    /\ registered' \in [Sessions -> Interests \cup {"none"}]
    /\ \A s \in Sessions : registered'[s] # "none" <=> registered[s] # "none"
    /\ \A c \in Conns : conn'[c] = "open" <=> conn[c] = "open"

\* A session the scan or the handling of an event closes is one in use, and only that
\* one changes; where none is closed tcpmain and its connection go on.
LEMMA HandlingCases ==
    ASSUME TypeOK, SessionInv, ScanTimeouts \/ OnSession
    PROVE  \/ \E s \in Sessions : Carries(s) /\ CloseSession(s) /\ age' = age
           \/ SessionsKept /\ UNCHANGED appVars
<1>t. /\ owner \in [Sessions -> Conns \cup {NoConn}] /\ batch \in SUBSET (Sessions \X Conns)
      /\ registered \in [Sessions -> Interests \cup {"none"}]
      /\ conn \in [Conns -> {"idle", "queued", "open", "closed"}]
  BY DEF TypeOK
<1>1. CASE ScanTimeouts
  <2>1. CASE UNCHANGED <<sessionVars, appVars>>
    BY <1>t, <2>1 DEF SessionsKept, sessionVars, appVars
  <2>2. CASE \E s \in GetTimeoutAcceptedSession : CloseSession(s)
    <3>1. PICK s : s \in GetTimeoutAcceptedSession /\ CloseSession(s)
      BY <2>2
    <3>2. linked # <<>> /\ s = Head(linked)
      BY <3>1 DEF GetTimeoutAcceptedSession
    <3>3. s \in ToSet(linked)
      BY <3>2, Tailed DEF TypeOK
    <3>4. s \in Sessions /\ Carries(s)
      BY <3>3 DEF SessionInv
    <3>5. QED
      BY <1>1, <3>1, <3>4 DEF ScanTimeouts
  <2>3. QED
    BY <1>1, <2>1, <2>2 DEF ScanTimeouts
<1>2. CASE OnSession
  <2>1. PICK e \in batch :
          /\ owner[e[1]] # NoConn
          /\ \/ /\ \E interest \in Interests :
                      registered' = [registered EXCEPT ![e[1]] = interest]
                /\ UNCHANGED <<allocated, unused, owner, linked, appVars>>
             \/ CloseSession(e[1])
    BY <1>2 DEF OnSession
  <2>2. e[1] \in Sessions /\ age' = age
    BY <1>t, <1>2 DEF OnSession
  <2>3. CASE CloseSession(e[1])
    BY <2>1, <2>2, <2>3 DEF Carries
  <2>4. CASE /\ \E interest \in Interests :
                   registered' = [registered EXCEPT ![e[1]] = interest]
             /\ UNCHANGED <<allocated, unused, owner, linked, appVars>>
    <3>1. registered[e[1]] # "none"
      BY <2>1, <2>2 DEF SessionInv, Carries
    <3>2. PICK interest \in Interests : registered' = [registered EXCEPT ![e[1]] = interest]
      BY <2>4
    <3>3. interest # "none"
      BY DEF Interests
    <3>4. QED
      BY <1>t, <2>2, <2>4, <3>1, <3>2, <3>3 DEF SessionsKept, appVars
  <2>5. QED
    BY <2>1, <2>3, <2>4
<1>3. QED
  BY <1>1, <1>2

\* All steps but the closing of a session in use and the two ways to take a connection
\* leave the sessions alone.
LEMMA SessionCases ==
    ASSUME TypeOK, SessionInv, [Next]_vars
    PROVE  \/ SessionsKept
           \/ \E s \in Sessions : Carries(s) /\ CloseSession(s) /\ age' = age
           \/ AcceptSession
           \/ AcceptAndClose
<1>t. /\ owner \in [Sessions -> Conns \cup {NoConn}] /\ batch \in SUBSET (Sessions \X Conns)
      /\ registered \in [Sessions -> Interests \cup {"none"}]
      /\ conn \in [Conns -> {"idle", "queued", "open", "closed"}]
  BY DEF TypeOK
<1>1. CASE EpollWait \/ OnClosedSession \/ OnListenSocket \/ BatchDone \/ AcceptedAll
           \/ SystemCallFails \/ Tick \/ ClockSetBack \/ UNCHANGED vars
  <2>1. UNCHANGED <<sessionVars, conn>>
    BY <1>1 DEF EpollWait, OnClosedSession, OnListenSocket, BatchDone, AcceptedAll,
       SystemCallFails, Tick, ClockSetBack, vars, appVars
  <2>2. QED
    BY <1>t, <2>1 DEF SessionsKept, sessionVars
<1>2. CASE AcceptWithoutData \/ AcceptWithoutMemory \/ \E c \in Conns : Connect(c)
  <2>1. UNCHANGED sessionVars
    BY <1>2 DEF AcceptWithoutData, AcceptWithoutMemory, Connect
  <2>2. PICK c \in Conns, v \in {"closed", "queued"} :
          conn[c] # "open" /\ conn' = [conn EXCEPT ![c] = v]
    BY <1>2 DEF AcceptWithoutData, AcceptWithoutMemory, Connect, Backlog
  <2>3. QED
    BY <1>t, <2>1, <2>2 DEF SessionsKept, sessionVars
<1>3. CASE ScanTimeouts \/ OnSession
  BY <1>3, HandlingCases
<1>4. QED
  BY <1>1, <1>2, <1>3 DEF Next, LoopStep

-----------------------------------------------------------------------------
(* Every session is accounted for                                          *)

\* Closing a session takes it from the tree to the list.
LEMMA CloseKeepsSessions ==
    ASSUME TypeOK, SessionInv, NEW s \in Sessions, Carries(s), CloseSession(s)
    PROVE  /\ SessionInv'
           /\ allocated' = allocated /\ unused' \in Seq(1 .. allocated)
           /\ linked' \in Seq(1 .. allocated)
<1>t. /\ owner \in [Sessions -> Conns \cup {NoConn}] /\ NoConn \notin Conns
      /\ registered \in [Sessions -> Interests \cup {"none"}]
      /\ conn \in [Conns -> {"idle", "queued", "open", "closed"}]
      /\ unused \in Seq(1 .. allocated) /\ linked \in Seq(1 .. allocated)
      /\ allocated \in Nat /\ 1 .. allocated \subseteq Sessions
  <2>1. allocated \in Sessions /\ allocated \in Nat
    BY SessionsFacts DEF TypeOK
  <2>2. \A x \in 1 .. allocated : x \in Sessions
    BY <2>1, SessionsFacts
  <2>3. QED
    BY <2>1, <2>2, SessionAssumption DEF TypeOK
<1>1. PICK c \in Conns : owner[s] = c
  BY <1>t DEF Carries
<1>2. /\ owner' = [owner EXCEPT ![s] = NoConn] /\ conn' = [conn EXCEPT ![c] = "closed"]
      /\ registered' = [registered EXCEPT ![s] = "none"] /\ allocated' = allocated
      /\ unused' = Append(unused, s) /\ linked' = RemoveFirst(linked, s)
  BY <1>1 DEF CloseSession, Unlink
<1>3. /\ ~ Carries(s)' /\ \A x \in Sessions \ {s} : Carries(x)' = Carries(x) /\ owner'[x] = owner[x]
  BY <1>t, <1>2 DEF Carries
<1>4. s \in 1 .. allocated /\ s \in ToSet(linked) /\ s \notin ToSet(unused)
  BY SessionsFacts, <1>t DEF SessionInv
<1>5. /\ unused' \in Seq(1 .. allocated) /\ ToSet(unused') = ToSet(unused) \cup {s}
      /\ IsInjective(unused')
  BY <1>t, <1>2, <1>4, Appended DEF SessionInv
<1>6. /\ linked' \in Seq(1 .. allocated) /\ ToSet(linked') = ToSet(linked) \ {s}
      /\ IsInjective(linked')
  BY <1>t, <1>2, <1>4, Removed DEF SessionInv
<1>7. ToSet(unused') = {x \in 1 .. allocated : ~ Carries(x)'}
  <2>1. \A x \in 1 .. allocated : x # s => Carries(x)' = Carries(x)
    BY <1>t, <1>3
  <2>2. ToSet(unused) = {x \in 1 .. allocated : ~ Carries(x)}
    BY DEF SessionInv
  <2>3. QED
    BY <1>3, <1>4, <1>5, <2>1, <2>2
<1>8. ToSet(linked') = {x \in Sessions : Carries(x)'}
  BY <1>3, <1>6 DEF SessionInv
<1>9. ASSUME NEW x \in Sessions
      PROVE  /\ Carries(x)' => x <= allocated' /\ conn'[owner'[x]] = "open"
             /\ registered'[x] # "none" <=> Carries(x)'
             /\ \A t \in Sessions : Carries(x)' /\ owner'[t] = owner'[x] => t = x
  <2>1. CASE x = s
    BY <1>t, <1>2, <1>3, <2>1
  <2>2. CASE x # s
    <3>1. Carries(x)' = Carries(x) /\ owner'[x] = owner[x] /\ registered'[x] = registered[x]
      BY <1>t, <1>2, <1>3, <2>2
    <3>2. Carries(x) => owner[x] # c /\ owner[x] \in Conns
      BY <1>t, <1>1, <2>2 DEF SessionInv, Carries
    <3>3. Carries(x)' => x <= allocated' /\ conn'[owner'[x]] = "open"
      BY <1>t, <1>2, <3>1, <3>2 DEF SessionInv
    <3>4. ASSUME NEW t \in Sessions, Carries(x)', owner'[t] = owner'[x] PROVE t = x
      <4>1. t # s
        BY <1>3, <3>4, <1>t, <1>2 DEF Carries
      <4>2. owner[t] = owner[x]
        BY <1>3, <3>1, <3>4, <4>1
      <4>3. QED
        BY <3>1, <3>4, <4>2 DEF SessionInv
    <3>5. QED
      BY <3>1, <3>3, <3>4 DEF SessionInv
  <2>3. QED
    BY <2>1, <2>2
<1>10. ASSUME NEW d \in Conns, conn'[d] = "open" PROVE \E x \in Sessions : owner'[x] = d
  <2>1. d # c /\ conn[d] = "open"
    BY <1>t, <1>2, <1>10
  <2>2. PICK x \in Sessions : owner[x] = d
    BY <2>1 DEF SessionInv
  <2>3. x # s
    BY <1>1, <2>1, <2>2
  <2>4. QED
    BY <1>3, <2>2, <2>3
<1>11. QED
  BY <1>2, <1>5, <1>6, <1>7, <1>8, <1>9, <1>10 DEF SessionInv

\* The place of a new session in the tree: the older ones are those before it.
LEMMA LinkFacts ==
    ASSUME TypeOK, OrderInv, NEW A, allocated <= A, A \in Sessions, NEW s \in 1 .. A
    PROVE  \E k \in 1 .. Len(linked) + 1 :
              /\ Link(s) = InsertAt(linked, k, s) /\ linked \in Seq(1 .. A)
              /\ \A i \in DOMAIN linked : i < k <=> age[linked[i]] >= 0
<1>1. /\ linked \in Seq(1 .. allocated) /\ allocated \in Nat /\ A \in Nat
      /\ age \in [Sessions -> -MaxFaults .. AgeLimit]
      /\ DOMAIN linked = 1 .. Len(linked) /\ Len(linked) \in Nat
  BY SessionsFacts DEF TypeOK
<1>2. 1 .. allocated \subseteq 1 .. A /\ \A x \in 1 .. A : x \in Sessions
  BY <1>1, SessionsFacts
<1>3. linked \in Seq(1 .. A)
  BY <1>1, <1>2, SeqMonotonic
<1>4. \A i \in DOMAIN linked : linked[i] \in Sessions /\ age[linked[i]] \in Int
  <2>1. \A x \in Sessions : age[x] \in Int
    BY <1>1, SessionAssumption DEF AgeLimit, TypeOK
  <2>2. QED
    BY <1>1, <1>2, <1>3, <2>1
<1> DEFINE D == {i \in DOMAIN linked : age[linked[i]] >= 0}
<1>5. \A j \in D : \A i \in 1 .. Len(linked) : i < j => i \in D
  BY <1>1, <1>4 DEF OrderInv
<1>6. D \in SUBSET (1 .. Len(linked))
  BY <1>1
<1> HIDE DEF D
<1>7. Cardinality(D) \in 0 .. Len(linked) /\ D = 1 .. Cardinality(D)
  BY <1>1, <1>5, <1>6, InitialPart
<1>8. PICK k \in 1 .. Len(linked) + 1 : k = Cardinality(D) + 1
  BY <1>1, <1>7
<1>9. \A i \in DOMAIN linked : i < k <=> i \in D
  BY <1>1, <1>7, <1>8
<1>10. Link(s) = InsertAt(linked, k, s)
  BY <1>8 DEF Link, D
<1>11. QED
  BY <1>3, <1>9, <1>10 DEF D

\* A session that is fetched for a connection goes from the list into the tree.
LEMMA AcceptKeepsSessions ==
    ASSUME TypeOK, SessionInv, OrderInv, AcceptSession
    PROVE  /\ SessionInv'
           /\ allocated' \in Sessions /\ unused' \in Seq(1 .. allocated')
           /\ linked' \in Seq(1 .. allocated')
<1>t. /\ owner \in [Sessions -> Conns \cup {NoConn}] /\ NoConn \notin Conns
      /\ registered \in [Sessions -> Interests \cup {"none"}]
      /\ conn \in [Conns -> {"idle", "queued", "open", "closed"}]
  BY SessionAssumption DEF TypeOK
<1>0. Backlog # {}
  BY DEF AcceptSession
<1>s. PICK s : s = Head(Unused)
  OBVIOUS
<1>1. PICK c \in Conns, interest \in Interests :
        /\ conn[c] = "queued" /\ conn' = [conn EXCEPT ![c] = "open"]
        /\ owner' = [owner EXCEPT ![s] = c]
        /\ registered' = [registered EXCEPT ![s] = interest]
        /\ linked' = Link(s)
  BY <1>s DEF AcceptSession, Backlog
<1>2. unused' = Tail(Unused) /\ allocated' = Allocated
  BY DEF AcceptSession
<1>3. /\ Allocated \in Sessions /\ allocated <= Allocated
      /\ Unused \in Seq(1 .. Allocated) /\ Unused # <<>> /\ IsInjective(Unused)
      /\ ToSet(Unused) = {x \in 1 .. Allocated : ~ Carries(x)}
  BY <1>0, UnusedFacts
<1>4. /\ s \in 1 .. Allocated /\ s \in ToSet(Unused) /\ Tail(Unused) \in Seq(1 .. Allocated)
      /\ ToSet(Tail(Unused)) = ToSet(Unused) \ {s} /\ IsInjective(Tail(Unused))
  BY <1>s, <1>3, Tailed
<1>5. /\ Allocated \in Nat /\ allocated \in Nat /\ \A x \in 1 .. Allocated : x \in Sessions
  BY <1>3, SessionsFacts DEF TypeOK
<1>6. s \in Sessions /\ ~ Carries(s)
  BY <1>3, <1>4, <1>5
<1>7. s \notin ToSet(linked)
  BY <1>6 DEF SessionInv
<1>8. /\ linked' \in Seq(1 .. Allocated) /\ ToSet(linked') = ToSet(linked) \cup {s}
      /\ IsInjective(linked')
  <2>1. PICK k \in 1 .. Len(linked) + 1 :
          Link(s) = InsertAt(linked, k, s) /\ linked \in Seq(1 .. Allocated)
    BY <1>3, <1>4, LinkFacts
  <2>2. QED
    <3>1. IsInjective(linked) /\ s \in 1 .. Allocated
      BY <1>4 DEF SessionInv
    <3>2. PICK A, q : A = 1 .. Allocated /\ q = linked
      OBVIOUS
    <3>3. /\ s \in A /\ q \in Seq(A) /\ k \in 1 .. Len(q) + 1
          /\ IsInjective(q) /\ s \notin ToSet(q)
      BY <1>7, <2>1, <3>1, <3>2
    <3>4. /\ InsertAt(q, k, s) \in Seq(A)
          /\ ToSet(InsertAt(q, k, s)) = ToSet(q) \cup {s} /\ IsInjective(InsertAt(q, k, s))
      BY <3>3, Inserted
    <3>5. QED
      BY <1>1, <2>1, <3>2, <3>4
<1>9. /\ Carries(s)' /\ owner'[s] = c
      /\ \A x \in Sessions \ {s} : Carries(x)' = Carries(x) /\ owner'[x] = owner[x]
  BY <1>t, <1>1, <1>6 DEF Carries
<1>10. ToSet(unused') = {x \in 1 .. allocated' : ~ Carries(x)'}
  BY <1>2, <1>3, <1>4, <1>5, <1>9
<1>11. ToSet(linked') = {x \in Sessions : Carries(x)'}
  BY <1>6, <1>8, <1>9 DEF SessionInv
<1>12. ASSUME NEW x \in Sessions
       PROVE  /\ Carries(x)' => x <= allocated' /\ conn'[owner'[x]] = "open"
              /\ registered'[x] # "none" <=> Carries(x)'
              /\ \A t \in Sessions : Carries(x)' /\ owner'[t] = owner'[x] => t = x
  <2>c. \A y \in Sessions : Carries(y) => owner[y] # c /\ owner[y] \in Conns
    BY <1>t, <1>1 DEF SessionInv, Carries
  <2>1. CASE x = s
    <3>1. s <= allocated' /\ conn'[owner'[s]] = "open"
      BY <1>t, <1>1, <1>2, <1>4, <1>5, <1>9
    <3>2. registered'[s] # "none"
      BY <1>t, <1>1, <1>6 DEF Interests
    <3>3. ASSUME NEW t \in Sessions, owner'[t] = owner'[s] PROVE t = s
      <4>1. SUFFICES ASSUME t # s PROVE FALSE
        OBVIOUS
      <4>2. owner[t] = c /\ Carries(t)
        BY <1>t, <1>9, <3>3, <4>1 DEF Carries
      <4>3. QED
        BY <2>c, <4>2
    <3>4. QED
      BY <1>9, <2>1, <3>1, <3>2, <3>3
  <2>2. CASE x # s
    <3>1. Carries(x)' = Carries(x) /\ owner'[x] = owner[x] /\ registered'[x] = registered[x]
      BY <1>t, <1>1, <1>9, <2>2
    <3>2. Carries(x) => x <= allocated' /\ conn'[owner[x]] = "open"
      <4> SUFFICES ASSUME Carries(x) PROVE x <= allocated' /\ conn'[owner[x]] = "open"
        OBVIOUS
      <4>1. x <= allocated /\ conn[owner[x]] = "open" /\ x \in Nat
        BY SessionsFacts DEF SessionInv
      <4>2. QED
        BY <1>t, <1>1, <1>2, <1>3, <1>5, <2>c, <4>1
    <3>3. ASSUME NEW t \in Sessions, Carries(x)', owner'[t] = owner'[x] PROVE t = x
      <4>1. t # s
        BY <1>9, <2>c, <3>1, <3>3
      <4>2. owner[t] = owner[x]
        BY <1>9, <3>1, <3>3, <4>1
      <4>3. QED
        BY <3>1, <3>3, <4>2 DEF SessionInv
    <3>4. QED
      BY <3>1, <3>2, <3>3 DEF SessionInv
  <2>3. QED
    BY <2>1, <2>2
<1>13. ASSUME NEW d \in Conns, conn'[d] = "open" PROVE \E x \in Sessions : owner'[x] = d
  <2>1. CASE d = c
    BY <1>6, <1>9, <2>1
  <2>2. CASE d # c
    <3>1. PICK x \in Sessions : owner[x] = d
      BY <1>t, <1>1, <1>13, <2>2 DEF SessionInv
    <3>2. x # s
      BY <1>t, <1>6, <3>1 DEF Carries
    <3>3. QED
      BY <1>9, <3>1, <3>2
  <2>3. QED
    BY <2>1, <2>2
<1>14. QED
  BY <1>2, <1>3, <1>4, <1>8, <1>10, <1>11, <1>12, <1>13 DEF SessionInv

\* A session that is fetched and closed at once goes to the end of the list.
LEMMA AcceptAndCloseKeepsSessions ==
    ASSUME TypeOK, SessionInv, AcceptAndClose
    PROVE  /\ SessionInv'
           /\ allocated' \in Sessions /\ unused' \in Seq(1 .. allocated')
           /\ linked' \in Seq(1 .. allocated')
           /\ Head(Unused) \in Sessions /\ Head(Unused) \notin ToSet(linked)
<1>t. /\ owner \in [Sessions -> Conns \cup {NoConn}] /\ NoConn \notin Conns
      /\ conn \in [Conns -> {"idle", "queued", "open", "closed"}]
  BY SessionAssumption DEF TypeOK
<1>0. Backlog # {}
  BY DEF AcceptAndClose
<1>s. PICK s : s = Head(Unused)
  OBVIOUS
<1>1. PICK c \in Conns : conn[c] = "queued" /\ conn' = [conn EXCEPT ![c] = "closed"]
  BY DEF AcceptAndClose, Backlog
<1>2. /\ unused' = Append(Tail(Unused), s) /\ allocated' = Allocated
      /\ UNCHANGED <<owner, registered, linked>>
  BY <1>s DEF AcceptAndClose
<1>3. /\ Allocated \in Sessions /\ allocated <= Allocated
      /\ Unused \in Seq(1 .. Allocated) /\ Unused # <<>> /\ IsInjective(Unused)
      /\ ToSet(Unused) = {x \in 1 .. Allocated : ~ Carries(x)}
  BY <1>0, UnusedFacts
<1>4. /\ s \in 1 .. Allocated /\ s \in ToSet(Unused) /\ Tail(Unused) \in Seq(1 .. Allocated)
      /\ ToSet(Tail(Unused)) = ToSet(Unused) \ {s} /\ IsInjective(Tail(Unused))
  BY <1>s, <1>3, Tailed
<1>5. /\ unused' \in Seq(1 .. allocated') /\ ToSet(unused') = ToSet(Unused)
      /\ IsInjective(unused')
  <2>1. s \notin ToSet(Tail(Unused)) /\ ToSet(Tail(Unused)) \cup {s} = ToSet(Unused)
    BY <1>4
  <2>2. /\ Append(Tail(Unused), s) \in Seq(1 .. Allocated)
        /\ ToSet(Append(Tail(Unused), s)) = ToSet(Tail(Unused)) \cup {s}
        /\ IsInjective(Append(Tail(Unused), s))
    <3>1. PICK A, q : A = 1 .. Allocated /\ q = Tail(Unused)
      OBVIOUS
    <3>2. s \in A /\ q \in Seq(A) /\ IsInjective(q) /\ s \notin ToSet(q)
      BY <1>4, <2>1, <3>1
    <3>3. /\ Append(q, s) \in Seq(A) /\ ToSet(Append(q, s)) = ToSet(q) \cup {s}
          /\ IsInjective(Append(q, s))
      BY <3>2, Appended
    <3>4. QED
      BY <3>1, <3>3
  <2>3. QED
    BY <1>2, <2>1, <2>2
<1>6. \A x : Carries(x)' = Carries(x)
  BY <1>2 DEF Carries
<1>7. ToSet(unused') = {x \in 1 .. allocated' : ~ Carries(x)'}
  BY <1>2, <1>3, <1>5, <1>6
<1>8. Allocated \in Nat /\ allocated \in Nat /\ \A x \in 1 .. Allocated : x \in Sessions
  BY <1>3, SessionsFacts DEF TypeOK
<1>9. linked' \in Seq(1 .. allocated')
  <2>1. linked \in Seq(1 .. allocated) /\ 1 .. allocated \subseteq 1 .. Allocated
    BY <1>3, <1>8 DEF TypeOK
  <2>2. QED
    BY <1>2, <2>1, SeqMonotonic
<1>10. s \in Sessions /\ s \notin ToSet(linked)
  BY <1>3, <1>4, <1>8 DEF SessionInv
<1>11. \A d \in Conns : conn'[d] = "open" <=> conn[d] = "open"
  BY <1>t, <1>1
<1>12. ASSUME NEW x \in Sessions, Carries(x) PROVE x <= allocated' /\ conn'[owner[x]] = "open"
  <2>1. x <= allocated /\ conn[owner[x]] = "open" /\ x \in Nat /\ owner[x] \in Conns
    BY <1>t, <1>12, SessionsFacts DEF SessionInv, Carries
  <2>2. QED
    BY <1>2, <1>3, <1>8, <1>11, <2>1
<1>13. SessionInv'
  BY <1>2, <1>5, <1>6, <1>7, <1>11, <1>12 DEF SessionInv
<1>14. QED
  BY <1>s, <1>2, <1>3, <1>5, <1>9, <1>10, <1>13

\* Every step keeps the account of the sessions.
LEMMA NextSessionInv ==
    ASSUME TypeOK, SessionInv, OrderInv, [Next]_vars
    PROVE  /\ SessionInv'
           /\ allocated' \in Sessions /\ unused' \in Seq(1 .. allocated')
           /\ linked' \in Seq(1 .. allocated')
<1>1. CASE SessionsKept
  <2>1. /\ allocated' = allocated /\ unused' = unused /\ owner' = owner /\ linked' = linked
    BY <1>1 DEF SessionsKept
  <2>2. \A x : Carries(x)' = Carries(x)
    BY <2>1 DEF Carries
  <2>3. \A x \in Sessions : Carries(x) => owner[x] \in Conns
    BY DEF TypeOK, Carries
  <2>4. SessionInv'
    BY <1>1, <2>1, <2>2, <2>3 DEF SessionInv, SessionsKept
  <2>5. QED
    BY <2>1, <2>4 DEF TypeOK
<1>2. CASE \E s \in Sessions : Carries(s) /\ CloseSession(s) /\ age' = age
  BY <1>2, CloseKeepsSessions DEF TypeOK
<1>3. QED
  BY <1>1, <1>2, SessionCases, AcceptKeepsSessions, AcceptAndCloseKeepsSessions

-----------------------------------------------------------------------------
(* The ages of the sessions                                                *)

\* The types of the ages and of what they are compared with.
LEMMA AgeFacts ==
    ASSUME TypeOK
    PROVE  /\ timeout_seconds \in Nat /\ MaxFaults \in Nat /\ AgeLimit \in Nat
           /\ age \in [Sessions -> -MaxFaults .. AgeLimit]
           /\ \A s \in Sessions : age[s] \in Int
           /\ faults \in 0 .. MaxFaults
           /\ DOMAIN linked = 1 .. Len(linked) /\ Len(linked) \in Nat
           /\ \A i \in DOMAIN linked : linked[i] \in ToSet(linked)
<1>1. timeout_seconds \in Nat /\ MaxFaults \in Nat
  BY SessionAssumption DEF TypeOK
<1>2. AgeLimit \in Nat
  BY <1>1 DEF AgeLimit
<1>3. age \in [Sessions -> -MaxFaults .. AgeLimit] /\ faults \in 0 .. MaxFaults
  BY DEF TypeOK
<1>4. \A s \in Sessions : age[s] \in Int
  BY <1>1, <1>2, <1>3
<1>5. linked \in Seq(1 .. allocated)
  BY DEF TypeOK
<1>6. QED
  BY <1>1, <1>2, <1>3, <1>4, <1>5 DEF ToSet

\* The steps that change no age.
LEMMA AgeCases ==
    ASSUME TypeOK, [Next]_vars
    PROVE  \/ /\ age' = age /\ timeout_seconds' = timeout_seconds
              /\ \/ faults' = faults
                 \/ Fault /\ UNCHANGED <<owner, linked>>
           \/ Tick \/ ClockSetBack \/ AcceptSession \/ AcceptAndClose
  BY DEF Next, LoopStep, EpollWait, ScanTimeouts, OnSession, OnClosedSession, OnListenSocket,
     BatchDone, AcceptWithoutData, AcceptedAll, AcceptWithoutMemory, SystemCallFails, Connect, vars,
     Fault, sessionVars

\* Every step keeps the tree in order and ages in their limits.
LEMMA NextOrderInv ==
    ASSUME TypeOK, SessionInv, OrderInv, [Next]_vars
    PROVE  /\ OrderInv' /\ timeout_seconds' = timeout_seconds
           /\ age' \in [Sessions -> -MaxFaults .. AgeLimit] /\ faults' \in 0 .. MaxFaults
<1>t. /\ timeout_seconds \in Nat /\ MaxFaults \in Nat /\ AgeLimit \in Nat
      /\ age \in [Sessions -> -MaxFaults .. AgeLimit]
      /\ \A s \in Sessions : age[s] \in Int
      /\ faults \in 0 .. MaxFaults
      /\ DOMAIN linked = 1 .. Len(linked) /\ Len(linked) \in Nat
      /\ \A i \in DOMAIN linked : linked[i] \in ToSet(linked)
  BY AgeFacts
<1>l. ToSet(linked) \subseteq Sessions
  BY DEF SessionInv
<1>o. /\ \A i, j \in DOMAIN linked : i < j => age[linked[i]] >= age[linked[j]]
      /\ \A s \in Sessions : age[s] >= - faults
  BY DEF OrderInv
<1>1. CASE Tick
  <2>1. /\ age' = [s \in Sessions |-> IF s \in ToSet(linked) /\ age[s] < AgeLimit
                                        THEN age[s] + 1 ELSE age[s]]
        /\ linked' = linked /\ faults' = faults /\ timeout_seconds' = timeout_seconds
    BY <1>1 DEF Tick, sessionVars
  <2>2. \A s \in Sessions : age'[s] >= age[s] /\ age'[s] <= AgeLimit /\ age'[s] \in Int
    BY <1>t, <2>1
  <2>3. \A s \in Sessions : age'[s] >= - faults'
    BY <1>t, <1>o, <2>1, <2>2
  <2>4. ASSUME NEW i \in DOMAIN linked, NEW j \in DOMAIN linked, i < j
        PROVE  age'[linked[i]] >= age'[linked[j]]
    <3>1. age[linked[i]] >= age[linked[j]] /\ linked[i] \in Sessions /\ linked[j] \in Sessions
      BY <1>t, <1>l, <1>o, <2>4
    <3>2. PICK a, b \in Int : a = age[linked[i]] /\ b = age[linked[j]]
      BY <1>t, <3>1
    <3>3. /\ age'[linked[i]] = IF a < AgeLimit THEN a + 1 ELSE a
          /\ age'[linked[j]] = IF b < AgeLimit THEN b + 1 ELSE b
      BY <1>t, <2>1, <3>1, <3>2
    <3>4. a >= b
      BY <3>1, <3>2
    <3>5. QED
      BY <1>t, <3>3, <3>4
  <2>5. age' \in [Sessions -> -MaxFaults .. AgeLimit]
    <3>1. \A s \in Sessions : age'[s] \in -MaxFaults .. AgeLimit
      BY <1>t, <2>2
    <3>2. QED
      BY <2>1, <3>1
  <2>6. QED
    BY <1>t, <2>1, <2>3, <2>4, <2>5 DEF OrderInv
<1>2. CASE ClockSetBack
  <2>1. /\ age' = [s \in Sessions |-> IF s \in ToSet(linked) THEN age[s] - 1 ELSE age[s]]
        /\ linked' = linked /\ faults < MaxFaults /\ faults' = faults + 1
        /\ timeout_seconds' = timeout_seconds
    BY <1>2 DEF ClockSetBack, Fault, sessionVars
  <2>2. faults' \in 0 .. MaxFaults
    BY <1>t, <2>1
  <2>3. \A s \in Sessions : age'[s] >= - faults' /\ age'[s] <= AgeLimit /\ age'[s] \in Int
    BY <1>t, <1>o, <2>1
  <2>4. ASSUME NEW i \in DOMAIN linked, NEW j \in DOMAIN linked, i < j
        PROVE  age'[linked[i]] >= age'[linked[j]]
    <3>1. age[linked[i]] >= age[linked[j]] /\ linked[i] \in Sessions /\ linked[j] \in Sessions
      BY <1>t, <1>l, <1>o, <2>4
    <3>2. age'[linked[i]] = age[linked[i]] - 1 /\ age'[linked[j]] = age[linked[j]] - 1
      BY <1>t, <2>1, <3>1
    <3>3. QED
      BY <1>t, <3>1, <3>2
  <2>5. age' \in [Sessions -> -MaxFaults .. AgeLimit]
    <3>1. \A s \in Sessions : age'[s] \in -MaxFaults .. AgeLimit
      BY <1>t, <2>2, <2>3
    <3>2. QED
      BY <2>1, <3>1
  <2>6. QED
    BY <1>t, <2>1, <2>2, <2>3, <2>4, <2>5 DEF OrderInv
<1>3. CASE AcceptSession
  <2>s. PICK s : s = Head(Unused)
    OBVIOUS
  <2>0. Backlog # {}
    BY <1>3 DEF AcceptSession
  <2>1. /\ age' = [age EXCEPT ![s] = 0] /\ linked' = Link(s)
        /\ faults' = faults /\ timeout_seconds' = timeout_seconds
    BY <1>3, <2>s DEF AcceptSession
  <2>2. /\ Allocated \in Sessions /\ allocated <= Allocated
        /\ Unused \in Seq(1 .. Allocated) /\ Unused # <<>>
        /\ ToSet(Unused) = {x \in 1 .. Allocated : ~ Carries(x)}
    BY <2>0, UnusedFacts
  <2>3. s \in 1 .. Allocated /\ s \in ToSet(Unused)
    BY <2>s, <2>2, Tailed
  <2>4. s \in Sessions /\ s \notin ToSet(linked)
    BY <2>2, <2>3, SessionsFacts DEF SessionInv
  <2>5. PICK A : A = 1 .. Allocated
    OBVIOUS
  <2>6. PICK k \in 1 .. Len(linked) + 1 :
           /\ Link(s) = InsertAt(linked, k, s) /\ linked \in Seq(A) /\ s \in A
           /\ \A i \in DOMAIN linked : i < k <=> age[linked[i]] >= 0
    BY <2>2, <2>3, <2>5, LinkFacts
  <2>7. /\ DOMAIN linked' = 1 .. Len(linked) + 1
        /\ \A i \in 1 .. Len(linked) + 1 :
              linked'[i] = IF i < k THEN linked[i] ELSE IF i = k THEN s ELSE linked[i - 1]
    <3>1. PICK q : q = linked
      OBVIOUS
    <3>2. q \in Seq(A) /\ k \in 1 .. Len(q) + 1 /\ s \in A
      BY <2>6, <3>1
    <3>3. /\ DOMAIN InsertAt(q, k, s) = 1 .. Len(q) + 1
          /\ \A i \in 1 .. Len(q) + 1 :
                InsertAt(q, k, s)[i] = IF i < k THEN q[i] ELSE IF i = k THEN s ELSE q[i - 1]
      BY <3>2, Inserted
    <3>4. QED
      BY <2>1, <2>6, <3>1, <3>3
  <2>8. \A x \in Sessions \ {s} : age'[x] = age[x]
    BY <1>t, <2>1
  <2>9. age'[s] = 0 /\ age' \in [Sessions -> -MaxFaults .. AgeLimit]
    BY <1>t, <2>1, <2>4
  <2>10. \A x \in Sessions : age'[x] >= - faults'
    BY <1>t, <1>o, <2>1, <2>8, <2>9
  <2>11. \A i \in DOMAIN linked : age'[linked[i]] = age[linked[i]] /\ age[linked[i]] \in Int
    BY <1>t, <1>l, <2>4, <2>8
  <2>12. ASSUME NEW i \in 1 .. Len(linked) + 1, NEW j \in 1 .. Len(linked) + 1, i < j
         PROVE  age'[linked'[i]] >= age'[linked'[j]]
    <3>1. CASE j < k
      <4>1. i \in DOMAIN linked /\ j \in DOMAIN linked /\ i < k
        BY <1>t, <2>12, <3>1
      <4>2. linked'[i] = linked[i] /\ linked'[j] = linked[j]
        BY <2>7, <3>1, <4>1
      <4>3. age[linked[i]] >= age[linked[j]]
        BY <1>o, <2>12, <4>1
      <4>4. QED
        BY <2>11, <4>1, <4>2, <4>3
    <3>2. CASE j = k
      <4>1. i \in DOMAIN linked /\ i < k
        BY <1>t, <2>12, <3>2
      <4>2. linked'[i] = linked[i] /\ linked'[j] = s
        BY <2>7, <3>2, <4>1
      <4>3. age[linked[i]] >= 0
        BY <2>6, <4>1
      <4>4. QED
        BY <2>9, <2>11, <4>1, <4>2, <4>3
    <3>3. CASE i = k
      <4>1. j - 1 \in DOMAIN linked /\ ~ (j - 1 < k) /\ ~ (j < k) /\ j # k
        BY <1>t, <2>12, <3>3
      <4>2. linked'[j] = linked[j - 1] /\ linked'[i] = s
        BY <2>7, <3>3, <4>1
      <4>3. ~ (age[linked[j - 1]] >= 0)
        BY <2>6, <4>1
      <4>4. QED
        BY <2>9, <2>11, <4>1, <4>2, <4>3
    <3>4. CASE i < k /\ j > k
      <4>1. i \in DOMAIN linked /\ j - 1 \in DOMAIN linked /\ ~ (j - 1 < k) /\ ~ (j < k) /\ j # k
        BY <1>t, <2>12, <3>4
      <4>2. linked'[i] = linked[i] /\ linked'[j] = linked[j - 1]
        BY <2>7, <3>4, <4>1
      <4>3. age[linked[i]] >= 0 /\ ~ (age[linked[j - 1]] >= 0)
        BY <2>6, <3>4, <4>1
      <4>4. QED
        BY <2>11, <4>1, <4>2, <4>3
    <3>5. CASE i > k
      <4>1. /\ i - 1 \in DOMAIN linked /\ j - 1 \in DOMAIN linked /\ i - 1 < j - 1
            /\ ~ (i < k) /\ i # k /\ ~ (j < k) /\ j # k
        BY <1>t, <2>12, <3>5
      <4>2. linked'[i] = linked[i - 1] /\ linked'[j] = linked[j - 1]
        BY <2>7, <4>1
      <4>3. age[linked[i - 1]] >= age[linked[j - 1]]
        BY <1>o, <4>1
      <4>4. QED
        BY <2>11, <4>1, <4>2, <4>3
    <3>6. QED
      BY <1>t, <2>12, <3>1, <3>2, <3>3, <3>4, <3>5
  <2>13. QED
    BY <1>t, <2>1, <2>7, <2>9, <2>10, <2>12 DEF OrderInv
<1>4. CASE AcceptAndClose
  <2>s. PICK s : s = Head(Unused)
    OBVIOUS
  <2>1. /\ age' = [age EXCEPT ![s] = 0] /\ linked' = linked
        /\ faults' = faults /\ timeout_seconds' = timeout_seconds
    BY <1>4, <2>s DEF AcceptAndClose
  <2>2. s \in Sessions /\ s \notin ToSet(linked)
    BY <1>4, <2>s, AcceptAndCloseKeepsSessions
  <2>3. age' \in [Sessions -> -MaxFaults .. AgeLimit] /\ \A x \in Sessions : age'[x] >= - faults'
    BY <1>t, <1>o, <2>1, <2>2
  <2>4. \A i \in DOMAIN linked : age'[linked[i]] = age[linked[i]]
    BY <1>t, <1>l, <2>1, <2>2
  <2>5. QED
    BY <1>t, <1>o, <2>1, <2>3, <2>4 DEF OrderInv
<1>5. CASE /\ age' = age /\ timeout_seconds' = timeout_seconds
           /\ \/ faults' = faults
              \/ Fault /\ UNCHANGED <<owner, linked>>
  <2>1. faults' \in 0 .. MaxFaults /\ \A s \in Sessions : age'[s] >= - faults'
    BY <1>t, <1>o, <1>5 DEF Fault
  <2>2. CASE linked' = linked
    BY <1>t, <1>o, <1>5, <2>1, <2>2 DEF OrderInv
  <2>3. CASE \E s \in Sessions : Carries(s) /\ CloseSession(s) /\ age' = age
    <3>1. PICK s \in Sessions : Carries(s) /\ linked' = RemoveFirst(linked, s)
      BY <2>3 DEF CloseSession, Unlink
    <3>2. PICK A : A = 1 .. allocated /\ linked \in Seq(A)
      BY DEF TypeOK
    <3>3. IsInjective(linked) /\ s \in ToSet(linked)
      BY <3>1 DEF SessionInv
    <3>4. PICK p \in DOMAIN linked :
             /\ DOMAIN linked' = 1 .. Len(linked) - 1
             /\ \A i \in 1 .. Len(linked) - 1 :
                   linked'[i] = IF i < p THEN linked[i] ELSE linked[i + 1]
      BY <3>1, <3>2, <3>3, Removed
    <3>5. ASSUME NEW i \in 1 .. Len(linked) - 1, NEW j \in 1 .. Len(linked) - 1, i < j
          PROVE  age[linked'[i]] >= age[linked'[j]]
      <4>1. PICK a \in DOMAIN linked : linked'[i] = linked[a] /\ a = IF i < p THEN i ELSE i + 1
        BY <1>t, <3>4
      <4>2. PICK b \in DOMAIN linked : linked'[j] = linked[b] /\ b = IF j < p THEN j ELSE j + 1
        BY <1>t, <3>4
      <4>3. a < b
        BY <1>t, <3>5, <4>1, <4>2
      <4>4. QED
        BY <1>o, <4>1, <4>2, <4>3
    <3>6. QED
      BY <1>t, <1>5, <2>1, <3>4, <3>5 DEF OrderInv
  <2>4. CASE AcceptSession \/ AcceptAndClose
    BY <1>3, <1>4, <2>4
  <2>5. QED
    BY <2>2, <2>3, <2>4, SessionCases DEF SessionsKept
<1>6. QED
  BY <1>1, <1>2, <1>3, <1>4, <1>5, AgeCases

-----------------------------------------------------------------------------
(* Types                                                                   *)

\* The steps that change what tcpmain knows or what became of a connection.
LEMMA AppCases ==
    ASSUME TypeOK, SessionInv, [Next]_vars
    PROVE  \/ \E s \in Sessions : Carries(s) /\ CloseSession(s) /\ age' = age
           \/ AcceptWithoutData \/ AcceptSession \/ AcceptAndClose \/ AcceptWithoutMemory
           \/ \E c \in Conns : Connect(c)
           \/ UNCHANGED appVars
<1>1. CASE ScanTimeouts \/ OnSession
  BY <1>1, HandlingCases
<1>2. CASE \/ EpollWait \/ OnClosedSession \/ OnListenSocket \/ BatchDone \/ AcceptedAll
           \/ SystemCallFails \/ Tick \/ ClockSetBack \/ UNCHANGED vars
  BY <1>2 DEF EpollWait, OnClosedSession, OnListenSocket, BatchDone, AcceptedAll, SystemCallFails,
     Tick, ClockSetBack, vars
<1>3. QED
  BY <1>1, <1>2 DEF Next, LoopStep

\* Only epoll_wait puts events into the batch.
LEMMA BatchCases ==
    ASSUME [Next]_vars
    PROVE  EpollWait \/ batch' \subseteq batch
  BY DEF Next, LoopStep, ScanTimeouts, OnSession, OnClosedSession, OnListenSocket, BatchDone,
     AcceptWithoutData, AcceptSession, AcceptAndClose, AcceptedAll, AcceptWithoutMemory,
     SystemCallFails, Tick, ClockSetBack, Connect, vars, loopVars

\* Every step keeps the types.
LEMMA NextTypeOK == TypeOK /\ SessionInv /\ OrderInv /\ [Next]_vars => TypeOK'
<1> SUFFICES ASSUME TypeOK, SessionInv, OrderInv, [Next]_vars PROVE TypeOK'
  OBVIOUS
<1>t. /\ owner \in [Sessions -> Conns \cup {NoConn}]
      /\ registered \in [Sessions -> Interests \cup {"none"}]
      /\ batch \in SUBSET (Sessions \X Conns)
      /\ data \in [Conns -> {"none", "set", "freed", "lost"}] /\ closings \in [Conns -> Nat]
      /\ conn \in [Conns -> {"idle", "queued", "open", "closed"}]
      /\ loop \in LoopStates /\ listening \in BOOLEAN /\ allocated \in Sessions
  BY DEF TypeOK
<1>1. /\ allocated' \in Sessions /\ unused' \in Seq(1 .. allocated')
      /\ linked' \in Seq(1 .. allocated')
  BY NextSessionInv
<1>2. /\ timeout_seconds' \in Timeouts /\ age' \in [Sessions -> -MaxFaults .. AgeLimit']
      /\ faults' \in 0 .. MaxFaults
  <2>1. timeout_seconds' = timeout_seconds
    BY NextOrderInv
  <2>2. AgeLimit' = AgeLimit
    BY <2>1 DEF AgeLimit
  <2>3. QED
    BY <2>1, <2>2, NextOrderInv DEF TypeOK
<1>3. /\ owner' \in [Sessions -> Conns \cup {NoConn}]
      /\ registered' \in [Sessions -> Interests \cup {"none"}]
  <2>1. CASE SessionsKept
    BY <1>t, <2>1 DEF SessionsKept
  <2>2. CASE \E s \in Sessions : Carries(s) /\ CloseSession(s) /\ age' = age
    BY <1>t, <2>2 DEF CloseSession
  <2>3. CASE AcceptSession \/ AcceptAndClose
    <3>1. CASE AcceptSession
      <4>1. PICK c \in Conns, interest \in Interests :
              /\ owner' = [owner EXCEPT ![Head(Unused)] = c]
              /\ registered' = [registered EXCEPT ![Head(Unused)] = interest]
        BY <3>1 DEF AcceptSession, Backlog
      <4>2. QED
        BY <1>t, <4>1
    <3>2. CASE AcceptAndClose
      BY <1>t, <3>2 DEF AcceptAndClose
    <3>3. QED
      BY <2>3, <3>1, <3>2
  <2>4. QED
    BY <2>1, <2>2, <2>3, SessionCases
<1>4. /\ data' \in [Conns -> {"none", "set", "freed", "lost"}] /\ closings' \in [Conns -> Nat]
      /\ conn' \in [Conns -> {"idle", "queued", "open", "closed"}]
  <2>1. CASE \E s \in Sessions : Carries(s) /\ CloseSession(s) /\ age' = age
    <3>1. PICK s \in Sessions : Carries(s) /\ CloseSession(s)
      BY <2>1
    <3>2. PICK c \in Conns : c = owner[s]
      BY <1>t, <3>1 DEF Carries
    <3>3. /\ data' = [data EXCEPT ![c] = "freed"] /\ closings' = [closings EXCEPT ![c] = @ + 1]
          /\ conn' = [conn EXCEPT ![c] = "closed"]
      BY <3>1, <3>2 DEF CloseSession
    <3>4. QED
      BY <1>t, <3>3
  <2>2. CASE \/ AcceptWithoutData \/ AcceptSession \/ AcceptAndClose \/ AcceptWithoutMemory
             \/ \E c \in Conns : Connect(c)
    <3>1. PICK c \in Conns :
            /\ \E v \in {"queued", "open", "closed"} : conn' = [conn EXCEPT ![c] = v]
            /\ \/ data' = data
               \/ \E v \in {"set", "freed", "lost"} : data' = [data EXCEPT ![c] = v]
            /\ closings' = closings \/ closings' = [closings EXCEPT ![c] = @ + 1]
      BY <2>2 DEF AcceptWithoutData, AcceptSession, AcceptAndClose, AcceptWithoutMemory, Connect,
         Backlog
    <3>2. QED
      BY <1>t, <3>1
  <2>3. CASE UNCHANGED appVars
    BY <1>t, <2>3 DEF appVars
  <2>4. QED
    BY <2>1, <2>2, <2>3, AppCases
<1>5. loop' \in LoopStates /\ listening' \in BOOLEAN
  <2> USE <1>t DEF LoopStates, loopVars
  <2>1. CASE EpollWait \/ ScanTimeouts \/ OnSession \/ OnClosedSession \/ OnListenSocket \/ BatchDone
    BY <2>1 DEF EpollWait, ScanTimeouts, OnSession, OnClosedSession, OnListenSocket, BatchDone
  <2>2. CASE \/ AcceptWithoutData \/ AcceptSession \/ AcceptAndClose \/ AcceptedAll
             \/ AcceptWithoutMemory \/ SystemCallFails
    BY <2>2 DEF AcceptWithoutData, AcceptSession, AcceptAndClose, AcceptedAll, AcceptWithoutMemory,
       SystemCallFails
  <2>3. CASE Tick \/ ClockSetBack \/ (\E c \in Conns : Connect(c)) \/ UNCHANGED vars
    BY <2>3 DEF Tick, ClockSetBack, Connect, vars
  <2>4. QED
    BY <2>1, <2>2, <2>3 DEF Next, LoopStep
<1>6. batch' \in SUBSET (Sessions \X Conns)
  <2>1. CASE EpollWait
    <3>1. PICK ready \in SUBSET {s \in Sessions : registered[s] # "none"} :
            batch' = {<<s, owner[s]>> : s \in ready}
      BY <2>1 DEF EpollWait
    <3>2. \A s \in ready : s \in Sessions /\ owner[s] \in Conns
      BY <1>t DEF SessionInv, Carries
    <3>3. QED
      BY <3>1, <3>2
  <2>2. CASE batch' \subseteq batch
    BY <1>t, <2>2
  <2>3. QED
    BY <2>1, <2>2, BatchCases
<1>7. QED
  BY <1>1, <1>2, <1>3, <1>4, <1>5, <1>6 DEF TypeOK

\* The invariants of the sessions hold together in every reachable state.
LEMMA SessionInvariant == Spec => [](TypeOK /\ SessionInv /\ OrderInv)
<1>1. Init => TypeOK /\ SessionInv /\ OrderInv
  <2> SUFFICES ASSUME Init PROVE TypeOK /\ SessionInv /\ OrderInv
    OBVIOUS
  <2>1. PICK n \in Nat \ {0} : n = SessionCount
    BY SessionAssumption
  <2>2. n \in Sessions /\ \A x \in 1 .. n : x \in Sessions
    <3>1. PICK k, m \in Nat : k = Cardinality(Conns) /\ m = n * (k + 1)
      BY SessionsFacts
    <3>2. n <= m
      BY <3>1
    <3>3. \A x \in 1 .. n : 1 <= x /\ x <= SessionCount * (Cardinality(Conns) + 1)
      BY <2>1, <3>1, <3>2
    <3>4. QED
      BY <3>3, SessionsFacts
  <2>3. /\ allocated = n /\ unused = [i \in 1 .. n |-> i] /\ linked = <<>>
        /\ owner = [s \in Sessions |-> NoConn] /\ registered = [s \in Sessions |-> "none"]
        /\ age = [s \in Sessions |-> 0] /\ faults = 0 /\ conn = [c \in Conns |-> "idle"]
    BY <2>1 DEF Init
  <2>4. unused \in Seq(1 .. n) /\ IsInjective(unused) /\ ToSet(unused) = 1 .. n
    <3>1. unused \in [1 .. n -> 1 .. n]
      BY <2>3
    <3>2. unused \in Seq(1 .. n)
      BY <3>1, SeqDef
    <3>3. QED
      BY <2>3, <3>2 DEF IsInjective, ToSet
  <2>5. linked \in Seq(1 .. n) /\ IsInjective(linked) /\ ToSet(linked) = {} /\ DOMAIN linked = {}
    BY <2>3 DEF IsInjective, ToSet
  <2>6. \A x \in Sessions : ~ Carries(x)
    BY <2>3 DEF Carries
  <2>7. SessionInv
    BY <2>2, <2>3, <2>4, <2>5, <2>6 DEF SessionInv
  <2>8. OrderInv
    BY <2>3, <2>5 DEF OrderInv
  <2>9. age \in [Sessions -> -MaxFaults .. AgeLimit] /\ faults \in 0 .. MaxFaults
    <3>1. timeout_seconds \in Nat /\ MaxFaults \in Nat
      BY SessionAssumption DEF Init
    <3>2. AgeLimit \in Nat
      BY <3>1 DEF AgeLimit
    <3>3. 0 \in -MaxFaults .. AgeLimit
      BY <3>1, <3>2
    <3>4. QED
      BY <2>3, <3>1, <3>3
  <2>10. TypeOK
    <3>1. /\ allocated \in Sessions
          /\ unused \in Seq(1 .. allocated) /\ linked \in Seq(1 .. allocated)
      BY <2>2, <2>3, <2>4, <2>5
    <3>2. /\ owner \in [Sessions -> Conns \cup {NoConn}]
          /\ registered \in [Sessions -> Interests \cup {"none"}]
          /\ conn \in [Conns -> {"idle", "queued", "open", "closed"}]
      BY <2>3
    <3>3. /\ timeout_seconds \in Timeouts /\ loop \in LoopStates /\ listening \in BOOLEAN
          /\ batch \in SUBSET (Sessions \X Conns)
      BY DEF Init, LoopStates
    <3>4. /\ data \in [Conns -> {"none", "set", "freed", "lost"}]
          /\ closings \in [Conns -> Nat]
      BY DEF Init
    <3>5. QED
      BY <2>9, <3>1, <3>2, <3>3, <3>4 DEF TypeOK
  <2>11. QED
    BY <2>7, <2>8, <2>10
<1>2. TypeOK /\ SessionInv /\ OrderInv /\ [Next]_vars => SessionInv' /\ OrderInv'
  BY NextSessionInv, NextOrderInv
<1>3. QED
  BY <1>1, <1>2, NextTypeOK, PTL DEF Spec

\* The variables keep their types, for any number of connections, sessions per array and
\* faults: the arrays of sessions never outgrow the connections.
THEOREM TypeCorrect == Spec => []TypeOK
  BY SessionInvariant, PTL

\* Every session is in the unused list, once, or in use, in the tree of timestamps and
\* in the epoll, for an open connection of its own, and the tree has the oldest session
\* first: for any number of connections and sessions per array, whatever fails and
\* however often the clock is set back.
THEOREM EverySessionAccounted == Spec => []SessionsAccounted
<1>1. ASSUME TypeOK, SessionInv, OrderInv PROVE SessionsAccounted
  <2>1. allocated \in Nat /\ \A x \in 1 .. allocated : x \in Sessions
    <3>1. allocated \in Sessions
      BY <1>1 DEF TypeOK
    <3>2. QED
      BY <3>1, SessionsFacts
  <2>2. InUse = {s \in Sessions : Carries(s)}
    <3>1. \A s \in Sessions : Carries(s) => s \in 1 .. allocated
      BY <1>1, <2>1, SessionsFacts DEF SessionInv
    <3>2. QED
      BY <2>1, <3>1 DEF InUse, Carries
  <2>3. ToSet(unused) = (1 .. allocated) \ InUse /\ ToSet(linked) = InUse
    <3>1. ToSet(unused) = {s \in 1 .. allocated : ~ Carries(s)}
      BY <1>1 DEF SessionInv
    <3>2. (1 .. allocated) \ InUse = {s \in 1 .. allocated : ~ Carries(s)}
      BY <2>1, <2>2
    <3>3. ToSet(linked) = InUse
      BY <1>1, <2>2 DEF SessionInv
    <3>4. QED
      BY <3>1, <3>2, <3>3
  <2>4. Len(unused) = Cardinality(ToSet(unused)) /\ Len(linked) = Cardinality(InUse)
    <3>1. PICK A : A = 1 .. allocated
      OBVIOUS
    <3>2. /\ unused \in Seq(A) /\ linked \in Seq(A) /\ IsInjective(unused) /\ IsInjective(linked)
      BY <1>1, <3>1 DEF TypeOK, SessionInv
    <3>3. QED
      BY <2>3, <3>2, InjectiveLen
  <2>5. \A s \in Sessions : registered[s] # "none" <=> s \in InUse
    BY <1>1, <2>2 DEF SessionInv
  <2>6. {owner[s] : s \in InUse} = {c \in Conns : conn[c] = "open"}
    <3>1. \A s \in InUse : owner[s] \in Conns /\ conn[owner[s]] = "open"
      BY <1>1, <2>2 DEF SessionInv, TypeOK, Carries
    <3>2. ASSUME NEW c \in Conns, conn[c] = "open" PROVE \E s \in InUse : owner[s] = c
      <4>1. PICK s \in Sessions : owner[s] = c
        BY <1>1, <3>2 DEF SessionInv
      <4>2. Carries(s)
        BY <4>1, SessionAssumption DEF Carries
      <4>3. QED
        BY <2>2, <4>1, <4>2
    <3>3. QED
      BY <3>1, <3>2
  <2>7. \A s, t \in InUse : owner[s] = owner[t] => s = t
    BY <1>1, <2>2 DEF SessionInv
  <2>8. QED
    BY <1>1, <2>3, <2>4, <2>5, <2>6, <2>7 DEF SessionsAccounted, OrderInv
<1>2. QED
  BY <1>1, SessionInvariant, PTL

-----------------------------------------------------------------------------
(* tcpmain is told once of the end of a connection                         *)

\* The connections whose data was lost for want of memory.
Lost == {c \in Conns : data[c] = "lost"}

\* What tcpmain made of the data pointer agrees with what became of the connection.
DataInv ==
    /\ \A c \in Conns :
          /\ data[c] = "set" <=> conn[c] = "open"
          /\ closings[c] = IF data[c] = "freed" THEN 1 ELSE 0
          /\ conn[c] \in {"idle", "queued"} => data[c] = "none"
    /\ Cardinality(Lost) <= faults

\* Connections are finite in number, and so are those that are lost.
LEMMA LostFinite == IsFiniteSet(Lost) /\ Cardinality(Lost) \in Nat
<1>1. IsFiniteSet(Lost)
  BY SessionAssumption, FS_Subset DEF Lost
<1>2. QED
  BY <1>1, FS_CardinalityType

\* A failed call takes no connection's loss back.
LEMMA FaultsGrow == TypeOK /\ SessionInv /\ OrderInv /\ [Next]_vars => faults' >= faults
<1> SUFFICES ASSUME TypeOK, SessionInv, OrderInv, [Next]_vars PROVE faults' >= faults
  OBVIOUS
<1>1. faults \in Int
  BY AgeFacts
<1>2. faults' = faults \/ faults' = faults + 1
  BY AgeCases DEF Fault, Tick, ClockSetBack, AcceptSession, AcceptAndClose
<1>3. QED
  BY <1>1, <1>2

\* Every step keeps that agreement.
LEMMA NextDataInv ==
    TypeOK /\ SessionInv /\ OrderInv /\ DataInv /\ [Next]_vars => DataInv'
<1> SUFFICES ASSUME TypeOK, SessionInv, OrderInv, DataInv, [Next]_vars PROVE DataInv'
  OBVIOUS
<1>t. /\ data \in [Conns -> {"none", "set", "freed", "lost"}] /\ closings \in [Conns -> Nat]
      /\ conn \in [Conns -> {"idle", "queued", "open", "closed"}]
      /\ owner \in [Sessions -> Conns \cup {NoConn}]
  BY DEF TypeOK
<1>f. /\ faults \in Int /\ faults' \in Int /\ faults' >= faults /\ Cardinality(Lost) \in Nat
      /\ Cardinality(Lost) <= faults
  BY AgeFacts, NextOrderInv, FaultsGrow, LostFinite DEF DataInv
<1>l. ASSUME Lost' = Lost PROVE Cardinality(Lost') <= faults'
  BY <1>f, <1>l
<1>1. ASSUME NEW s \in Sessions, Carries(s), CloseSession(s) PROVE DataInv'
  <2>1. PICK c \in Conns : c = owner[s]
    BY <1>t, <1>1 DEF Carries
  <2>2. /\ data' = [data EXCEPT ![c] = "freed"] /\ closings' = [closings EXCEPT ![c] = @ + 1]
        /\ conn' = [conn EXCEPT ![c] = "closed"]
    BY <1>1, <2>1 DEF CloseSession
  <2>3. conn[c] = "open" /\ data[c] = "set" /\ closings[c] = 0
    BY <1>1, <2>1 DEF SessionInv, DataInv
  <2>4. Lost' = Lost
    BY <1>t, <2>2, <2>3 DEF Lost
  <2>5. QED
    BY <1>t, <1>l, <2>2, <2>3, <2>4 DEF DataInv
<1>2. ASSUME NEW c \in Conns, conn[c] = "queued", data' = data, closings' = closings,
             conn' = [conn EXCEPT ![c] = "closed"]
      PROVE  DataInv'
  <2>1. Lost' = Lost
    BY <1>2 DEF Lost
  <2>2. QED
    BY <1>t, <1>l, <1>2, <2>1 DEF DataInv
<1>3. ASSUME NEW c \in Conns, conn[c] = "queued", data' = [data EXCEPT ![c] = "set"],
             closings' = closings, conn' = [conn EXCEPT ![c] = "open"]
      PROVE  DataInv'
  <2>1. data[c] = "none"
    BY <1>3 DEF DataInv
  <2>2. Lost' = Lost
    BY <1>t, <1>3, <2>1 DEF Lost
  <2>3. QED
    BY <1>t, <1>l, <1>3, <2>1, <2>2 DEF DataInv
<1>4. ASSUME NEW c \in Conns, conn[c] = "queued", data' = [data EXCEPT ![c] = "freed"],
             closings' = [closings EXCEPT ![c] = @ + 1], conn' = [conn EXCEPT ![c] = "closed"]
      PROVE  DataInv'
  <2>1. data[c] = "none" /\ closings[c] = 0
    BY <1>4 DEF DataInv
  <2>2. Lost' = Lost
    BY <1>t, <1>4, <2>1 DEF Lost
  <2>3. QED
    BY <1>t, <1>l, <1>4, <2>1, <2>2 DEF DataInv
<1>5. ASSUME NEW c \in Conns, conn[c] = "queued", data' = [data EXCEPT ![c] = "lost"],
             closings' = closings, conn' = [conn EXCEPT ![c] = "closed"], Fault
      PROVE  DataInv'
  <2>1. data[c] = "none" /\ closings[c] = 0
    BY <1>5 DEF DataInv
  <2>2. Lost' = Lost \cup {c} /\ c \notin Lost
    BY <1>t, <1>5, <2>1 DEF Lost
  <2>3. Cardinality(Lost \cup {c}) = Cardinality(Lost) + 1
    BY <2>2, LostFinite, FS_AddElement
  <2>4. faults' = faults + 1
    BY <1>5 DEF Fault
  <2>5. Cardinality(Lost') <= faults'
    BY <1>f, <2>2, <2>3, <2>4
  <2>6. QED
    BY <1>t, <1>5, <2>1, <2>5 DEF DataInv
<1>6. ASSUME NEW c \in Conns, conn[c] = "idle", data' = data, closings' = closings,
             conn' = [conn EXCEPT ![c] = "queued"]
      PROVE  DataInv'
  <2>1. Lost' = Lost
    BY <1>6 DEF Lost
  <2>2. QED
    BY <1>t, <1>l, <1>6, <2>1 DEF DataInv
<1>7. ASSUME UNCHANGED appVars PROVE DataInv'
  <2>1. Lost' = Lost
    BY <1>7 DEF Lost, appVars
  <2>2. QED
    BY <1>l, <1>7, <2>1 DEF DataInv, appVars
<1>8. CASE AcceptWithoutData
  BY <1>2, <1>8 DEF AcceptWithoutData, Backlog
<1>9. CASE AcceptSession
  BY <1>3, <1>9 DEF AcceptSession, Backlog
<1>10. CASE AcceptAndClose
  BY <1>4, <1>10 DEF AcceptAndClose, Backlog
<1>11. CASE AcceptWithoutMemory
  BY <1>5, <1>11 DEF AcceptWithoutMemory, Backlog
<1>12. CASE \E c \in Conns : Connect(c)
  BY <1>6, <1>12 DEF Connect
<1>13. QED
  BY <1>1, <1>7, <1>8, <1>9, <1>10, <1>11, <1>12, AppCases

\* tcpmain is told of the end of each connection it has set data for, once, and of no
\* other, but for one for each time that there was no memory for sessions: for any
\* number of connections, whatever the timeout closes and whatever tcpmain returns.
THEOREM EachClosedOnce == Spec => []ClosedOnce
<1>1. Init => DataInv
  <2> SUFFICES ASSUME Init PROVE DataInv
    OBVIOUS
  <2>1. /\ data = [c \in Conns |-> "none"] /\ closings = [c \in Conns |-> 0]
        /\ conn = [c \in Conns |-> "idle"] /\ faults = 0
    BY DEF Init
  <2>2. Lost = {}
    BY <2>1 DEF Lost
  <2>3. Cardinality(Lost) <= faults
    BY <2>1, <2>2, FS_EmptySet
  <2>4. QED
    BY <2>1, <2>3 DEF DataInv
<1>2. DataInv => ClosedOnce
  BY DEF DataInv, ClosedOnce, Lost
<1>3. QED
  BY <1>1, <1>2, NextDataInv, SessionInvariant, PTL DEF Spec

-----------------------------------------------------------------------------
(* Without a timeout events reach their sessions                           *)

\* Nothing closes a session between epoll_wait and its event: there is no scan.
EventsInv == timeout_seconds = 0 => loop # "scan" /\ EventsOfOpenSessions

\* Every step keeps the events with their connections.
LEMMA NextEventsInv ==
    TypeOK /\ SessionInv /\ OrderInv /\ EventsInv /\ [Next]_vars => EventsInv'
<1> SUFFICES ASSUME TypeOK, SessionInv, OrderInv, EventsInv, [Next]_vars, timeout_seconds = 0
             PROVE  loop' # "scan" /\ EventsOfOpenSessions'
  BY NextOrderInv DEF EventsInv
<1>t. /\ owner \in [Sessions -> Conns \cup {NoConn}] /\ NoConn \notin Conns
      /\ batch \in SUBSET (Sessions \X Conns)
  BY SessionAssumption DEF TypeOK
<1>e. loop # "scan" /\ \A e \in batch : owner[e[1]] = e[2]
  BY DEF EventsInv, EventsOfOpenSessions
<1>1. loop' # "scan"
  <2>0. CASE EpollWait
    <3>1. loop' = IF timeout_seconds > 0 THEN "scan" ELSE "batch"
      BY <2>0 DEF EpollWait
    <3>2. QED
      BY <3>1
  <2>1. CASE ScanTimeouts \/ OnSession \/ OnClosedSession \/ OnListenSocket \/ BatchDone
    BY <1>e, <2>1 DEF ScanTimeouts, OnSession, OnClosedSession, OnListenSocket, BatchDone
  <2>2. CASE \/ AcceptWithoutData \/ AcceptSession \/ AcceptAndClose \/ AcceptedAll
             \/ AcceptWithoutMemory \/ SystemCallFails
    BY <1>e, <2>2 DEF AcceptWithoutData, AcceptSession, AcceptAndClose, AcceptedAll,
       AcceptWithoutMemory, SystemCallFails, loopVars
  <2>3. CASE Tick \/ ClockSetBack \/ (\E c \in Conns : Connect(c)) \/ UNCHANGED vars
    BY <1>e, <2>3 DEF Tick, ClockSetBack, Connect, vars, loopVars
  <2>4. QED
    BY <2>0, <2>1, <2>2, <2>3 DEF Next, LoopStep
<1>2. CASE EpollWait
  BY <1>1, <1>2 DEF EpollWait, sessionVars, EventsOfOpenSessions
<1>3. CASE OnSession
  <2>1. PICK e \in batch : /\ batch' = batch \ {e}
                           /\ owner' = owner \/ owner' = [owner EXCEPT ![e[1]] = NoConn]
    BY <1>3 DEF OnSession, CloseSession
  <2>2. \A d \in batch \ {e} : d[1] # e[1]
    BY <1>t, <1>e
  <2>3. QED
    BY <1>1, <1>t, <1>e, <2>1, <2>2 DEF EventsOfOpenSessions
<1>4. CASE AcceptSession
  <2>1. PICK c \in Conns : owner' = [owner EXCEPT ![Head(Unused)] = c]
    BY <1>4 DEF AcceptSession, Backlog
  <2>2. Backlog # {} /\ batch' = batch
    BY <1>4 DEF AcceptSession, loopVars
  <2>3. ~ Carries(Head(Unused))
    <3>1. /\ Unused \in Seq(1 .. Allocated) /\ Unused # <<>>
          /\ ToSet(Unused) = {x \in 1 .. Allocated : ~ Carries(x)}
      BY <2>2, UnusedFacts
    <3>2. Head(Unused) \in ToSet(Unused)
      BY <3>1, Tailed
    <3>3. QED
      BY <3>1, <3>2
  <2>4. \A e \in batch : e[1] # Head(Unused)
    BY <1>t, <1>e, <2>3 DEF Carries
  <2>5. QED
    BY <1>1, <1>t, <1>e, <2>1, <2>2, <2>4 DEF EventsOfOpenSessions
<1>5. CASE batch' = batch /\ owner' = owner
  BY <1>1, <1>e, <1>5 DEF EventsOfOpenSessions
<1>6. QED
  <2>1. \/ EpollWait \/ OnSession \/ AcceptSession
        \/ batch' = batch /\ owner' = owner
    BY <1>e DEF Next, LoopStep, ScanTimeouts, OnClosedSession, OnListenSocket, BatchDone,
       AcceptWithoutData, AcceptAndClose, AcceptedAll, AcceptWithoutMemory, SystemCallFails,
       Tick, ClockSetBack, Connect, vars, loopVars, sessionVars
  <2>2. QED
    BY <1>1, <1>2, <1>3, <1>4, <1>5, <2>1

\* Without a timeout every event reaches the connection it is of, for any number of
\* connections, though sessions are closed and used again while events wait.
THEOREM EventsFindTheirSession == Spec => []EventsReachTheirSession
<1>1. Init => EventsInv
  BY DEF Init, EventsInv, EventsOfOpenSessions
<1>2. EventsInv => EventsReachTheirSession
  BY DEF EventsInv, EventsReachTheirSession
<1>3. QED
  BY <1>1, <1>2, NextEventsInv, SessionInvariant, PTL DEF Spec
=============================================================================
