--------------------------- MODULE Tcpdaemon_proofs ---------------------------
(***************************************************************************)
(* Proofs about the whole program, for every set of command lines and of   *)
(* parameters: what is proved of InstanceFork holds of the server it runs, *)
(* the exit status tells the starter of every failure, and what a failed   *)
(* set-up opened is closed again.                                          *)
(***************************************************************************)
EXTENDS Tcpdaemon, InstanceFork_proofs, SequenceTheorems, WellFoundedInduction

\* All of InstanceFork's state but the failed calls.
otherVars == <<parent, listen_sock, accepted_sock, process_count, conn, sigchld, g_EXIT_flag>>

\* A failed call of the rest of the program.
FaultElsewhere == Fault /\ UNCHANGED otherVars

\* Seen from InstanceFork the program does what IF does, or fails elsewhere.
LEMMA StartStepIsServerStep ==
    ASSUME [StartNext]_allVars
    PROVE  [Next]_vars \/ FaultElsewhere
<1> USE DEF FaultElsewhere, otherVars, vars
<1>1. CASE Main \/ ParseCommandParameter \/ InForeground \/ CheckAndEnter \/ CallSucceeds
             \/ PoolReturns \/ KilledInSetUp \/ UNCHANGED allVars
  BY <1>1 DEF Main, ParseCommandParameter, InForeground, CheckAndEnter, CallSucceeds,
              PoolReturns, KilledInSetUp, allVars
<1>2. CASE BindDaemonServer \/ ForkAgain \/ PoolFails
  BY <1>2 DEF BindDaemonServer, ForkAgain, PoolFails
<1>3. CASE StartServing \/ CallFails
  BY <1>3 DEF StartServing, CallFails, Next, ParentStep
<1>4. CASE \/ ServeIF(ParentStep) \/ ServeIF(ForkFails) \/ ServeIF(SystemCallFails)
           \/ ServeIF(sigproc_SIGTERM) \/ ServeIF(sigproc_SIGCHLD)
           \/ \E c \in Conns : ServeIF(ChildEnds(c)) \/ ServeIF(Connect(c))
  BY <1>4 DEF ServeIF, Next
<1>5. QED
  BY <1>1, <1>2, <1>3, <1>4 DEF StartNext, StartStep

\* The invariant of IF does not look at how many calls have failed.
LEMMA FaultElsewhereKeepsIFInv == IFInv /\ FaultElsewhere => IFInv'
<1> SUFFICES ASSUME IFInv, FaultElsewhere PROVE IFInv'
  OBVIOUS
<1>1. faults' \in Nat
  BY DEF FaultElsewhere, Fault, IFInv, TypeOK
<1>2. QED
  BY <1>1 DEF FaultElsewhere, otherVars, IFInv, TypeOK, AcceptedInv, RoomInv, CountExact, Uncounted,
              ChildrenBounded, NoChildLeft, Children, Running, Zombies

\* The invariant holds with the set-up before it, too.
LEMMA StartIFInvariant == StartSpec => []IFInv
<1>1. StartInit => IFInv
  BY InitIFInv DEF StartInit
<1>2. IFInv /\ [StartNext]_allVars => IFInv'
  BY StartStepIsServerStep, NextIFInv, FaultElsewhereKeepsIFInv
<1>3. QED
  BY <1>1, <1>2, PTL DEF StartSpec

\* Whatever the program was started with, and whatever fails: process_count is exact,
\* the limit of children is kept, and no child is left behind.
THEOREM ServerKeepsChildren == StartSpec => [](CountExact /\ ChildrenBounded /\ NoChildLeft)
<1>1. IFInv => CountExact /\ ChildrenBounded /\ NoChildLeft
  BY DEF IFInv
<1>2. QED
  BY <1>1, StartIFInvariant, PTL

\* The server that the program runs refuses no connection while it has room, whatever
\* fails elsewhere: a call that fails elsewhere refuses nothing.
THEOREM ServerRefusesOnlyWhenFull == StartSpec => RefusedOnlyWhenFull
<1>1. IFInv /\ [StartNext]_allVars =>
        [ \A c \in Conns : conn[c] = "accepted" /\ conn'[c] = "refused"
            => Cardinality(Children) >= max_process_count ]_vars
  <2> SUFFICES ASSUME IFInv, [StartNext]_allVars,
                      NEW c \in Conns, conn[c] = "accepted", conn'[c] = "refused"
               PROVE  Cardinality(Children) >= max_process_count
    OBVIOUS
  <2>1. conn' # conn
    OBVIOUS
  <2>2. CASE [Next]_vars
    BY <2>1, <2>2, RefusedByTheLimit DEF vars
  <2>3. CASE FaultElsewhere
    BY <2>1, <2>3 DEF FaultElsewhere, otherVars
  <2>4. QED
    BY <2>2, <2>3, StartStepIsServerStep
<1>2. QED
  BY <1>1, StartIFInvariant, PTL DEF StartSpec, RefusedOnlyWhenFull

-----------------------------------------------------------------------------
(* The exit status                                                         *)

\* tcpdaemon() returns a negative number for parameters it does not take.
LEMMA CheckResult ==
    ASSUME NEW para PROVE CheckCommandParameter(para) \in {0, -1, -2}
  BY DEF CheckCommandParameter

\* A step before the server serves gives 0 away only for a daemon, -v and no arguments.
LEMMA ZeroStatus ==
    ASSUME [StartNext]_allVars, status = NotYet, status' = 0
    PROVE  \/ step = "serve"
           \/ step = "tcpdaemon" /\ p_para.daemon_level = 1
           \/ step = "main" /\ argv = <<>>
           \/ step = "parse" /\ Head(argv) = "-v"
<1> USE DEF Exit, Return, ExitParsing, NotYet
<1>1. CASE Main
  BY <1>1 DEF Main
<1>2. CASE ParseCommandParameter
  <2>1. CASE Version
    BY <1>2, <2>1 DEF ParseCommandParameter, Version
  <2>2. CASE ParseOption
    BY <2>2 DEF ParseOption
  <2>3. CASE ParseFlag
    BY <2>3 DEF ParseFlag
  <2>4. CASE Invalid
    BY <2>4 DEF Invalid
  <2>5. QED
    BY <1>2, <2>1, <2>2, <2>3, <2>4 DEF ParseCommandParameter
<1>3. CASE BindDaemonServer
  BY <1>3 DEF BindDaemonServer
<1>4. CASE ForkAgain
  BY <1>4 DEF ForkAgain
<1>5. CASE CheckAndEnter
  BY <1>5, CheckResult DEF CheckAndEnter
<1>6. CASE CallFails
  BY <1>6 DEF CallFails
<1>7. CASE InForeground \/ CallSucceeds \/ StartServing \/ UNCHANGED allVars
  BY <1>7 DEF InForeground, CallSucceeds, StartServing, allVars, startVars
<1>8. CASE KilledInSetUp
  BY <1>8 DEF KilledInSetUp
<1>9. CASE \/ PoolReturns \/ PoolFails
           \/ ServeIF(ParentStep) \/ ServeIF(ForkFails) \/ ServeIF(SystemCallFails)
           \/ ServeIF(sigproc_SIGTERM) \/ ServeIF(sigproc_SIGCHLD)
           \/ \E c \in Conns : ServeIF(ChildEnds(c)) \/ ServeIF(Connect(c))
  BY <1>9 DEF PoolReturns, PoolFails, ServeIF
<1>10. QED
  BY <1>1, <1>2, <1>3, <1>4, <1>5, <1>6, <1>7, <1>8, <1>9 DEF StartNext, StartStep

\* main returns -tcpdaemon() (tcpdaemon_main.c 326), and no failure before serving
\* is a 0 among what that can be.
THEOREM FailuresAreTold == StartSpec => ExitTells
<1>1. [StartNext]_allVars =>
        [ status = NotYet /\ status' = 0 =>
            \/ step = "serve"
            \/ step = "tcpdaemon" /\ p_para.daemon_level = 1
            \/ step = "main" /\ argv = <<>>
            \/ step = "parse" /\ Head(argv) = "-v" ]_allVars
  BY ZeroStatus
<1>2. QED
  BY <1>1, PTL DEF StartSpec, ExitTells

-----------------------------------------------------------------------------
(* What the kernel and the lists of calls hold                             *)

\* A set of natural numbers has a least element.
LEMMA LeastNatural ==
    ASSUME NEW T \in SUBSET Nat, T # {}
    PROVE  \E n \in T : \A k \in T : n <= k
<1>1. PICK n \in T : \A k \in T : ~ (<<k, n>> \in OpToRel(<, Nat))
  BY NatLessThanWellFounded, WFMin
<1>2. \A k \in T : ~ (k < n)
  BY <1>1 DEF OpToRel
<1>3. QED
  BY <1>2

\* There is always a descriptor to give, and none of the first three is free.
LEMMA FreeFdIsFree ==
    ASSUME IsFiniteSet(kernel), Inherited \subseteq kernel
    PROVE  FreeFd \in Nat /\ FreeFd >= 3 /\ Fd(FreeFd) \notin kernel
<1> DEFINE N == Cardinality(kernel)
           T == {n \in 0 .. N : Fd(n) \notin kernel}
<1>0. N \in Nat
  BY FS_CardinalityType
<1>1. T # {}
  <2> SUFFICES ASSUME T = {} PROVE FALSE
    OBVIOUS
  <2> DEFINE f == [n \in 0 .. N |-> Fd(n)]
  <2>1. f \in [0 .. N -> kernel]
    OBVIOUS
  <2>2. IsFiniteSet(0 .. N) /\ Cardinality(0 .. N) = N + 1
    BY <1>0, FS_Interval
  <2>3. N < Cardinality(0 .. N)
    BY <1>0, <2>2
  <2>4. PICK x, y \in 0 .. N : x # y /\ f[x] = f[y]
    <3> HIDE DEF f, N, T
    <3>1. \A S, K : IsFiniteSet(S) /\ IsFiniteSet(K) /\ Cardinality(K) < Cardinality(S) /\ f \in [S -> K]
                        => \E x, y \in S : x # y /\ f[x] = f[y]
      BY FS_PigeonHole
    <3>2. QED
      BY <2>1, <2>2, <2>3, <3>1 DEF N
  <2>5. QED
    BY <2>4 DEF Fd
<1>2. PICK n \in T : \A k \in T : n <= k
  <2>1. T \in SUBSET Nat
    BY <1>0
  <2> HIDE DEF T
  <2>2. QED
    BY <1>1, <2>1, LeastNatural
<1>3. n \in 0 .. N /\ Fd(n) \notin kernel /\ \A k \in 0 .. n - 1 : Fd(k) \in kernel
  BY <1>0, <1>2
<1>4. FreeFd \in 0 .. N /\ Fd(FreeFd) \notin kernel
  BY <1>3 DEF FreeFd
<1>5. \A k \in {0, 1, 2} : FreeFd # k
  BY <1>4 DEF Inherited
<1>6. QED
  BY <1>0, <1>4, <1>5

\* Two lists of calls put together.
LEMMA CallsJoined ==
    ASSUME NEW a \in Seq(Calls), NEW b \in Seq(Calls)
    PROVE  /\ a \o b \in Seq(Calls) /\ Len(a \o b) = Len(a) + Len(b)
           /\ \A i \in 1 .. Len(a) + Len(b) :
                 (a \o b)[i] = IF i <= Len(a) THEN a[i] ELSE b[i - Len(a)]
  BY ConcatProperties

\* One call again and again.
LEMMA Repeated ==
    ASSUME NEW call \in Calls, NEW n \in Nat
    PROVE  /\ [i \in 1 .. n |-> call] \in Seq(Calls)
           /\ Len([i \in 1 .. n |-> call]) = n
           /\ \A i \in 1 .. n : [j \in 1 .. n |-> call][i] = call
<1> DEFINE calls == [i \in 1 .. n |-> call]
<1>1. calls \in [1 .. n -> Calls] /\ DOMAIN calls = 1 .. n
  OBVIOUS
<1>2. \A i \in 1 .. n : calls[i] = call
  OBVIOUS
<1> HIDE DEF calls
<1>3. calls \in Seq(Calls)
  BY <1>1, SeqDef
<1>4. Len(calls) \in Nat /\ 1 .. Len(calls) = 1 .. n
  BY <1>1, <1>3, LenProperties
<1>5. QED
  BY <1>2, <1>3, <1>4 DEF calls

\* The calls that every server model makes: the socket is the third from the end.
LEMMA CommonCallsFacts ==
    ASSUME NEW para
    PROVE  /\ CommonCalls(para) \in Seq(Calls)
           /\ Len(CommonCalls(para)) \in {3, 5}
           /\ \A i \in 1 .. Len(CommonCalls(para)) :
                 /\ CommonCalls(para)[i] = "socket" => i = Len(CommonCalls(para)) - 2
                 /\ CommonCalls(para)[i] \notin {"semget", "epoll_array", "epoll_create"}
<1> DEFINE open == IF para.so_pathfilename # NoText THEN <<"dlopen", "dlsym">> ELSE <<>>
           listen == <<"socket", "bind", "listen">>
<1>1. listen \in Seq(Calls) /\ Len(listen) = 3
  BY DEF Calls
<1>2. listen[1] = "socket" /\ listen[2] = "bind" /\ listen[3] = "listen"
  OBVIOUS
<1>3. open \in Seq(Calls) /\ Len(open) \in {0, 2} /\ \A i \in 1 .. Len(open) : open[i] \in {"dlopen", "dlsym"}
  <2>1. <<"dlopen", "dlsym">> \in Seq(Calls)
    BY DEF Calls
  <2>2. /\ Len(<<"dlopen", "dlsym">>) = 2
        /\ \A i \in 1 .. 2 : <<"dlopen", "dlsym">>[i] \in {"dlopen", "dlsym"}
    OBVIOUS
  <2>3. <<>> \in Seq(Calls) /\ Len(<<>>) = 0
    OBVIOUS
  <2>4. CASE para.so_pathfilename # NoText
    BY <2>1, <2>2, <2>4
  <2>5. CASE para.so_pathfilename = NoText
    <3>1. open = <<>>
      BY <2>5
    <3> HIDE DEF open
    <3>2. QED
      BY <2>3, <3>1
  <2>6. QED
    BY <2>4, <2>5
<1>4. CommonCalls(para) = open \o listen
  BY DEF CommonCalls
<1> HIDE DEF open, listen
<1>5. /\ open \o listen \in Seq(Calls) /\ Len(open \o listen) = Len(open) + 3
      /\ \A i \in 1 .. Len(open) + 3 :
            (open \o listen)[i] = IF i <= Len(open) THEN open[i] ELSE listen[i - Len(open)]
  <2>1. /\ open \o listen \in Seq(Calls) /\ Len(open \o listen) = Len(open) + Len(listen)
        /\ \A i \in 1 .. Len(open) + Len(listen) :
              (open \o listen)[i] = IF i <= Len(open) THEN open[i] ELSE listen[i - Len(open)]
    BY <1>1, <1>3, CallsJoined
  <2>2. QED
    BY <1>1, <1>3, <2>1
<1>6. \A i \in 1 .. Len(open) + 3 :
         /\ (open \o listen)[i] = "socket" => i = Len(open) + 1
         /\ (open \o listen)[i] \notin {"semget", "epoll_array", "epoll_create"}
  <2> TAKE i \in 1 .. Len(open) + 3
  <2>0. Len(open) \in Nat /\ i \in Nat
    BY <1>3
  <2>1. CASE i <= Len(open)
    BY <1>3, <1>5, <2>0, <2>1
  <2>2. CASE ~ (i <= Len(open))
    <3>1. i - Len(open) \in {1, 2, 3}
      BY <2>0, <2>2
    <3>2. (open \o listen)[i] = listen[i - Len(open)]
      BY <1>5, <2>0, <2>2
    <3>3. QED
      BY <1>2, <2>0, <3>1, <3>2
  <2>3. QED
    BY <2>0, <2>1, <2>2
<1>7. Len(open) + 3 \in {3, 5} /\ Len(open) + 1 = Len(open) + 3 - 2
  BY <1>3
<1> DEFINE c == open \o listen
<1>8. c \in Seq(Calls) /\ Len(c) \in {3, 5}
  BY <1>5, <1>7
<1>9. \A i \in 1 .. Len(c) : /\ c[i] = "socket" => i = Len(c) - 2
                            /\ c[i] \notin {"semget", "epoll_array", "epoll_create"}
  BY <1>5, <1>6, <1>7
<1> HIDE DEF c
<1>10. QED
  BY <1>4, <1>8, <1>9 DEF c

\* The calls of a server model of its own, which come after them.
LEMMA OwnCalls ==
    ASSUME NEW para, NEW own \in Seq(Calls), InitCalls(para) = CommonCalls(para) \o own
    PROVE  LET calls == InitCalls(para)
               common == Len(CommonCalls(para))
           IN  /\ calls \in Seq(Calls) /\ common \in Nat /\ Len(calls) = common + Len(own)
               /\ \A j \in 1 .. Len(calls) :
                     calls[j] = IF j <= common THEN CommonCalls(para)[j] ELSE own[j - common]
<1>1. CommonCalls(para) \in Seq(Calls) /\ Len(CommonCalls(para)) \in Nat
  BY CommonCallsFacts
<1>2. QED
  BY <1>1, CallsJoined

\* In IOMP the array comes second, then as many epolls as there are processes.
LEMMA CallsOfIOMP ==
    ASSUME NEW para \in Parameters, para.server_model = "IOMP", para.process_count \in Nat
    PROVE  \E own \in Seq(Calls) :
              /\ InitCalls(para) = CommonCalls(para) \o own
              /\ Len(own) = 3 + 2 * para.process_count
              /\ own[1] = "malloc" /\ own[2] = "epoll_array" /\ own[Len(own)] = "sessions"
              /\ \A i \in 1 .. para.process_count :
                    /\ own[2 + i] = "epoll_create"
                    /\ own[2 + para.process_count + i] = "epoll_ctl"
<1> DEFINE n == para.process_count
           arrays == <<"malloc", "epoll_array">>
           creates == [i \in 1 .. n |-> "epoll_create"]
           adds == [i \in 1 .. n |-> "epoll_ctl"]
           created == arrays \o creates
           added == created \o adds
           own == added \o <<"sessions">>
<1>0. n \in Nat
  OBVIOUS
<1>1. InitCalls(para) = CommonCalls(para) \o own
  BY DEF InitCalls
<1>2. /\ creates \in Seq(Calls) /\ Len(creates) = n /\ \A i \in 1 .. n : creates[i] = "epoll_create"
      /\ adds \in Seq(Calls) /\ Len(adds) = n /\ \A i \in 1 .. n : adds[i] = "epoll_ctl"
  BY Repeated DEF Calls
<1>3. arrays \in Seq(Calls) /\ Len(arrays) = 2 /\ arrays[1] = "malloc" /\ arrays[2] = "epoll_array"
  BY DEF Calls
<1> HIDE DEF n, arrays, creates, adds
<1>4. /\ created \in Seq(Calls) /\ Len(created) = 2 + n
      /\ created[1] = "malloc" /\ created[2] = "epoll_array"
      /\ \A i \in 1 .. n : created[2 + i] = "epoll_create"
  <2>1. /\ created \in Seq(Calls) /\ Len(created) = 2 + n
        /\ \A i \in 1 .. 2 + n : created[i] = IF i <= 2 THEN arrays[i] ELSE creates[i - 2]
    <3>1. /\ arrays \o creates \in Seq(Calls) /\ Len(arrays \o creates) = Len(arrays) + Len(creates)
          /\ \A i \in 1 .. Len(arrays) + Len(creates) :
                (arrays \o creates)[i] = IF i <= Len(arrays) THEN arrays[i] ELSE creates[i - Len(arrays)]
      BY <1>2, <1>3, CallsJoined
    <3>2. QED
      BY <1>0, <1>2, <1>3, <3>1
  <2> HIDE DEF created
  <2>2. created[1] = "malloc" /\ created[2] = "epoll_array"
    BY <1>0, <1>3, <2>1
  <2>3. ASSUME NEW i \in 1 .. n PROVE created[2 + i] = "epoll_create"
    <3>1. 2 + i \in 1 .. 2 + n /\ ~ (2 + i <= 2) /\ (2 + i) - 2 = i
      BY <1>0
    <3>2. QED
      BY <1>2, <2>1, <3>1
  <2>4. QED
    BY <2>1, <2>2, <2>3
<1> HIDE DEF created
<1>5. /\ added \in Seq(Calls) /\ Len(added) = 2 + n + n
      /\ added[1] = "malloc" /\ added[2] = "epoll_array"
      /\ \A i \in 1 .. n : added[2 + i] = "epoll_create" /\ added[2 + n + i] = "epoll_ctl"
  <2>1. /\ added \in Seq(Calls) /\ Len(added) = 2 + n + n
        /\ \A i \in 1 .. 2 + n + n : added[i] = IF i <= 2 + n THEN created[i] ELSE adds[i - (2 + n)]
    <3>1. /\ created \o adds \in Seq(Calls) /\ Len(created \o adds) = Len(created) + Len(adds)
          /\ \A i \in 1 .. Len(created) + Len(adds) :
                (created \o adds)[i] = IF i <= Len(created) THEN created[i] ELSE adds[i - Len(created)]
      BY <1>2, <1>4, CallsJoined
    <3>2. QED
      BY <1>0, <1>2, <1>4, <3>1
  <2> HIDE DEF added
  <2>2. added[1] = "malloc" /\ added[2] = "epoll_array"
    BY <1>0, <1>4, <2>1
  <2>3. ASSUME NEW i \in 1 .. n PROVE added[2 + i] = "epoll_create" /\ added[2 + n + i] = "epoll_ctl"
    <3>1. /\ 2 + i \in 1 .. 2 + n + n /\ 2 + i <= 2 + n
          /\ 2 + n + i \in 1 .. 2 + n + n /\ ~ (2 + n + i <= 2 + n) /\ (2 + n + i) - (2 + n) = i
      BY <1>0
    <3>2. QED
      BY <1>2, <1>4, <2>1, <3>1
  <2>4. QED
    BY <2>1, <2>2, <2>3
<1> HIDE DEF added
<1>6. <<"sessions">> \in Seq(Calls) /\ Len(<<"sessions">>) = 1 /\ <<"sessions">>[1] = "sessions"
  BY DEF Calls
<1>7. /\ own \in Seq(Calls) /\ Len(own) = 3 + n + n
      /\ \A i \in 1 .. 3 + n + n :
            own[i] = IF i <= 2 + n + n THEN added[i] ELSE <<"sessions">>[i - (2 + n + n)]
  <2> DEFINE last == <<"sessions">>
  <2>1. last \in Seq(Calls) /\ Len(last) = 1
    BY <1>6
  <2> HIDE DEF last
  <2>2. /\ added \o last \in Seq(Calls) /\ Len(added \o last) = 3 + n + n
        /\ \A i \in 1 .. 3 + n + n : (added \o last)[i] = IF i <= 2 + n + n THEN added[i] ELSE last[i - (2 + n + n)]
    <3>1. /\ added \o last \in Seq(Calls) /\ Len(added \o last) = Len(added) + Len(last)
          /\ \A i \in 1 .. Len(added) + Len(last) :
                (added \o last)[i] = IF i <= Len(added) THEN added[i] ELSE last[i - Len(added)]
      BY <1>5, <2>1, CallsJoined
    <3>2. QED
      BY <1>0, <1>5, <2>1, <3>1
  <2>3. QED
    BY <2>2 DEF last
<1> HIDE DEF own
<1>8. own[1] = "malloc" /\ own[2] = "epoll_array"
  BY <1>0, <1>5, <1>7
<1>9. own[3 + n + n] = "sessions"
  <2>1. 3 + n + n \in 1 .. 3 + n + n /\ ~ (3 + n + n <= 2 + n + n) /\ (3 + n + n) - (2 + n + n) = 1
    BY <1>0
  <2>2. QED
    BY <1>6, <1>7, <2>1
<1>10. ASSUME NEW i \in 1 .. n PROVE own[2 + i] = "epoll_create" /\ own[2 + n + i] = "epoll_ctl"
  <2>1. /\ 2 + i \in 1 .. 3 + n + n /\ 2 + i <= 2 + n + n
        /\ 2 + n + i \in 1 .. 3 + n + n /\ 2 + n + i <= 2 + n + n
    BY <1>0
  <2>2. QED
    BY <1>5, <1>7, <2>1
<1>11. Len(own) = 3 + 2 * n
  BY <1>0, <1>7
<1>12. QED
  BY <1>1, <1>7, <1>8, <1>9, <1>10, <1>11 DEF n

\* Where the calls are that change the environment: each but epoll_create is made once.
LEMMA InitCallsFacts ==
    ASSUME NEW para \in Parameters, para.server_model \in ServerModels,
           para.server_model # "IF" => para.process_count \in Nat
    PROVE  LET calls == InitCalls(para)
               common == Len(CommonCalls(para))
           IN  /\ calls \in Seq(Calls) /\ common \in Nat /\ common >= 3
               /\ \A j \in 1 .. Len(calls) :
                     /\ calls[j] = "socket" => j = common - 2
                     /\ calls[j] = "semget" => para.server_model = "LF" /\ j = common + 2
                     /\ para.server_model # "IOMP" => calls[j] \notin {"epoll_array", "epoll_create"}
                     /\ para.server_model = "IOMP" =>
                          /\ calls[j] = "epoll_array" <=> j = common + 2
                          /\ calls[j] = "epoll_create" <=> j - (common + 2) \in 1 .. para.process_count
<1> DEFINE calls == InitCalls(para)
           common == Len(CommonCalls(para))
<1>1. /\ common \in {3, 5}
      /\ \A j \in 1 .. common :
            /\ CommonCalls(para)[j] = "socket" => j = common - 2
            /\ CommonCalls(para)[j] \notin {"semget", "epoll_array", "epoll_create"}
  BY CommonCallsFacts
<1>2. CASE para.server_model = "IF"
  <2>1. <<>> \in Seq(Calls) /\ Len(<<>>) = 0
    OBVIOUS
  <2>2. calls = CommonCalls(para) \o <<>>
    BY <1>2 DEF InitCalls
  <2>3. /\ calls \in Seq(Calls) /\ Len(calls) = common
        /\ \A j \in 1 .. Len(calls) : calls[j] = CommonCalls(para)[j]
    <3> DEFINE none == <<>>
    <3>1. none \in Seq(Calls) /\ Len(none) = 0 /\ InitCalls(para) = CommonCalls(para) \o none
      BY <2>1, <2>2
    <3> HIDE DEF none
    <3>2. /\ calls \in Seq(Calls) /\ Len(calls) = common + Len(none)
          /\ \A j \in 1 .. Len(calls) :
                calls[j] = IF j <= common THEN CommonCalls(para)[j] ELSE none[j - common]
      BY <3>1, OwnCalls
    <3> HIDE DEF calls, common
    <3>3. common + Len(none) = common /\ \A j \in 1 .. common : j <= common
      BY <1>1, <3>1
    <3>4. QED
      BY <3>2, <3>3
  <2> HIDE DEF calls, common
  <2>4. QED
    BY <1>1, <1>2, <2>3 DEF calls, common
<1>3. CASE para.server_model = "LF"
  <2> DEFINE own == <<"malloc", "semget", "semctl">>
  <2>1. own \in Seq(Calls) /\ Len(own) = 3 /\ own[1] = "malloc" /\ own[2] = "semget" /\ own[3] = "semctl"
    BY DEF Calls
  <2>2. calls = CommonCalls(para) \o own
    BY <1>3 DEF InitCalls
  <2> HIDE DEF own
  <2>3. /\ calls \in Seq(Calls) /\ Len(calls) = common + Len(own)
        /\ \A j \in 1 .. Len(calls) :
              calls[j] = IF j <= common THEN CommonCalls(para)[j] ELSE own[j - common]
    BY <2>1, <2>2, OwnCalls
  <2> HIDE DEF calls, common
  <2>4. \A j \in 1 .. Len(calls) :
            /\ calls[j] = "socket" => j = common - 2
            /\ calls[j] = "semget" => j = common + 2
            /\ calls[j] \notin {"epoll_array", "epoll_create"}
    <3> TAKE j \in 1 .. Len(calls)
    <3>1. CASE j <= common
      BY <1>1, <2>1, <2>3, <3>1
    <3>2. CASE ~ (j <= common)
      <4>1. j - common \in {1, 2, 3} /\ calls[j] = own[j - common]
        BY <1>1, <2>1, <2>3, <3>2
      <4>2. j - common = 2 => j = common + 2
        BY <1>1
      <4>3. QED
        BY <2>1, <4>1, <4>2
    <3>3. QED
      BY <3>1, <3>2
  <2>5. \A j \in 1 .. Len(calls) :
            /\ calls[j] = "socket" => j = common - 2
            /\ calls[j] = "semget" => para.server_model = "LF" /\ j = common + 2
            /\ para.server_model # "IOMP" => calls[j] \notin {"epoll_array", "epoll_create"}
            /\ para.server_model = "IOMP" =>
                 /\ calls[j] = "epoll_array" <=> j = common + 2
                 /\ calls[j] = "epoll_create" <=> j - (common + 2) \in 1 .. para.process_count
    BY <1>3, <2>4
  <2>6. common \in Nat /\ common >= 3
    BY <1>1
  <2>7. QED
    BY <2>3, <2>5, <2>6 DEF calls, common
<1>4. CASE para.server_model = "IOMP"
  <2> DEFINE n == para.process_count
  <2>0. n \in Nat
    BY <1>4
  <2>1. PICK own \in Seq(Calls) :
              /\ InitCalls(para) = CommonCalls(para) \o own
              /\ Len(own) = 3 + 2 * n
              /\ own[1] = "malloc" /\ own[2] = "epoll_array" /\ own[Len(own)] = "sessions"
              /\ \A i \in 1 .. n : own[2 + i] = "epoll_create" /\ own[2 + n + i] = "epoll_ctl"
    BY <1>4, <2>0, CallsOfIOMP
  <2>2. /\ calls \in Seq(Calls) /\ Len(calls) = common + Len(own)
        /\ \A j \in 1 .. Len(calls) :
              calls[j] = IF j <= common THEN CommonCalls(para)[j] ELSE own[j - common]
    BY <2>1, OwnCalls
  <2> HIDE DEF calls, common, n
  <2>3. ASSUME NEW j \in 1 .. Len(calls)
        PROVE  /\ calls[j] = "socket" => j = common - 2
               /\ calls[j] # "semget"
               /\ calls[j] = "epoll_array" <=> j = common + 2
               /\ calls[j] = "epoll_create" <=> j - (common + 2) \in 1 .. n
    <3>0. common \in Nat /\ j \in Nat /\ j >= 1 /\ j <= common + (3 + 2 * n)
      BY <1>1, <2>0, <2>1, <2>2
    <3>1. CASE j <= common
      <4>1. j # common + 2 /\ ~ (j - (common + 2) \in 1 .. n)
        BY <2>0, <3>0, <3>1
      <4>2. QED
        BY <1>1, <2>2, <3>0, <3>1, <4>1
    <3>2. CASE ~ (j <= common)
      <4> DEFINE k == j - common
      <4>1. k \in Nat /\ k >= 1 /\ k <= 3 + 2 * n /\ calls[j] = own[k] /\ j = common + k
        BY <2>0, <2>2, <3>0, <3>2
      <4> HIDE DEF k
      <4>2. k # 2 => j # common + 2
        BY <3>0, <4>1
      <4>3. j - (common + 2) = k - 2
        BY <3>0, <4>1
      <4>4. CASE k = 1
        <5>1. ~ (k - 2 \in 1 .. n)
          BY <2>0, <4>4
        <5>2. QED
          BY <2>1, <4>1, <4>2, <4>3, <4>4, <5>1
      <4>5. CASE k = 2
        <5>1. ~ (k - 2 \in 1 .. n)
          BY <2>0, <4>5
        <5>2. QED
          BY <2>1, <4>1, <4>3, <4>5, <5>1
      <4>6. CASE k - 2 \in 1 .. n
        <5>1. own[2 + (k - 2)] = "epoll_create"
          BY <2>1, <4>6
        <5>2. 2 + (k - 2) = k /\ k # 2
          BY <2>0, <4>1, <4>6
        <5>3. own[k] = "epoll_create"
          BY <5>1, <5>2
        <5>4. QED
          BY <4>1, <4>2, <4>3, <4>6, <5>2, <5>3
      <4>7. CASE k - (2 + n) \in 1 .. n
        <5>1. own[2 + n + (k - (2 + n))] = "epoll_ctl"
          BY <2>1, <4>7
        <5>2. 2 + n + (k - (2 + n)) = k /\ k # 2 /\ ~ (k - 2 \in 1 .. n)
          BY <2>0, <4>1, <4>7
        <5>3. own[k] = "epoll_ctl"
          BY <5>1, <5>2
        <5>4. QED
          BY <4>1, <4>2, <4>3, <5>2, <5>3
      <4>8. CASE k = 3 + 2 * n
        <5>1. own[k] = "sessions" /\ k # 2 /\ ~ (k - 2 \in 1 .. n)
          BY <2>0, <2>1, <4>8
        <5>2. QED
          BY <4>1, <4>2, <4>3, <5>1
      <4>9. \/ k = 1 \/ k = 2 \/ k - 2 \in 1 .. n \/ k - (2 + n) \in 1 .. n \/ k = 3 + 2 * n
        BY <2>0, <4>1
      <4>10. QED
        BY <4>4, <4>5, <4>6, <4>7, <4>8, <4>9
    <3>3. QED
      BY <3>1, <3>2
  <2>4. \A j \in 1 .. Len(calls) :
            /\ calls[j] = "socket" => j = common - 2
            /\ calls[j] = "semget" => para.server_model = "LF" /\ j = common + 2
            /\ para.server_model # "IOMP" => calls[j] \notin {"epoll_array", "epoll_create"}
            /\ para.server_model = "IOMP" =>
                 /\ calls[j] = "epoll_array" <=> j = common + 2
                 /\ calls[j] = "epoll_create" <=> j - (common + 2) \in 1 .. n
    BY <1>4, <2>3
  <2>5. common \in Nat /\ common >= 3
    BY <1>1
  <2>6. QED
    BY <2>2, <2>4, <2>5 DEF calls, common, n
<1>5. QED
  BY <1>2, <1>3, <1>4 DEF ServerModels

-----------------------------------------------------------------------------
(* The set-up and what is undone of it                                     *)

\* What the environment says is open. Semaphore 0 may be or not.
OpenedIn(env) ==
    (IF env.so_handle # 0 THEN {So} ELSE {}) \cup
    (IF env.listen_sock # -1 THEN {Fd(env.listen_sock)} ELSE {}) \cup
    {Sem(env.accept_mutex)} \cup
    {Fd(env.epoll_array[i]) : i \in {j \in DOMAIN env.epoll_array : env.epoll_array[j] # 0}}

\* How many calls all server models make, and how many calls have been made.
Common == Len(CommonCalls(p_para))
Made == Len(InitCalls(p_para)) - Len(todo)

\* The calls still to be made are the rest of those of the server model.
TodoInv ==
    /\ Made >= 0
    /\ \A i \in 1 .. Len(todo) : todo[i] = InitCalls(p_para)[Made + i]
    /\ step = "serve" => todo = <<>>

\* All that is open was inherited or is in the environment, and no semaphore is there
\* before semget.
KernelInv ==
    /\ IsFiniteSet(kernel)
    /\ Inherited \subseteq kernel
    /\ kernel \subseteq Inherited \cup OpenedIn(p_env)
    /\ Made < Common + 2 => Sem(0) \notin kernel

\* What the environment says is its own, and there only after the call that opens it.
EnvInv ==
    /\ p_env.listen_sock = -1 \/ p_env.listen_sock >= 3
    /\ Made < Common - 2 => p_env.listen_sock = -1
    /\ p_env.accept_mutex # 0 => p_para.server_model = "LF" /\ Made >= Common + 2

\* The epolls are opened one by one; only IOMP has them.
EpollInv ==
    LET epolls == p_env.epoll_array
    IN  /\ \A i \in DOMAIN epolls : epolls[i] = 0 \/ epolls[i] >= 3
        /\ IF p_para.server_model = "IOMP" /\ Made >= Common + 2
             THEN /\ DOMAIN epolls = 1 .. p_para.process_count
                  /\ \A i \in DOMAIN epolls : epolls[i] = 0 <=> Common + 2 + i > Made
             ELSE epolls = <<>>

ServerInv ==
    /\ p_para.server_model \in ServerModels
    /\ p_para.server_model # "IF" => p_para.process_count \in Nat
    /\ TodoInv /\ KernelInv /\ EnvInv /\ EpollInv

SetupInv ==
    /\ step \in {"main", "parse", "tcpdaemon", "daemon", "check"} => kernel = Inherited
    /\ step \in {"init", "serve"} => ServerInv
    /\ SetupUndone

\* Clean-up after any failure leaves open only what SetupUndone allows, and closes
\* nothing that was inherited but descriptor 0 if an epoll is still unset.
LEMMA CleanedUp ==
    ASSUME KernelInv, EnvInv, EpollInv, p_env \in Environments,
           p_para.server_model \in ServerModels,
           NEW env \in Environments,
           env.so_handle = p_env.so_handle, env.listen_sock = p_env.listen_sock,
           env.accept_mutex = p_env.accept_mutex \/ p_env.accept_mutex = 0,
           DOMAIN env.epoll_array = DOMAIN p_env.epoll_array,
           \A i \in DOMAIN env.epoll_array :
              \/ env.epoll_array[i] = p_env.epoll_array[i]
              \/ env.epoll_array[i] = -1 /\ p_env.epoll_array[i] = 0
    PROVE  LET closed == CleanedBy(p_para.server_model, env)
           IN  /\ \A r \in (kernel \ closed) \ Inherited : r = Sem(0)
               /\ \A r \in Inherited \ (kernel \ closed) :
                     r = Fd(0) /\ {i \in DOMAIN env.epoll_array : env.epoll_array[i] = 0} # {}
<1> DEFINE closed == CleanedBy(p_para.server_model, env)
<1>0. p_para.server_model \in {"IF", "LF", "IOMP"}
  BY DEF ServerModels
<1>1. Cleaned(env) \subseteq closed
  BY <1>0 DEF CleanedBy, Cleaned_LF, Cleaned_IOMP
<1>2. p_env.so_handle # 0 => So \in closed
  BY <1>1 DEF Cleaned
<1>3. p_env.listen_sock # -1 => Fd(p_env.listen_sock) \in closed
  BY <1>1 DEF Cleaned
<1>4. p_env.accept_mutex # 0 => Sem(p_env.accept_mutex) \in closed
  BY DEF EnvInv, CleanedBy, Cleaned_LF
<1>5. \A i \in DOMAIN p_env.epoll_array : p_env.epoll_array[i] # 0 => Fd(p_env.epoll_array[i]) \in closed
  <2>1. CASE p_para.server_model = "IOMP"
    BY <2>1 DEF CleanedBy, Cleaned_IOMP
  <2>2. CASE p_para.server_model # "IOMP"
    BY <2>2 DEF EpollInv
  <2>3. QED
    BY <2>1, <2>2
<1>6. \A r \in OpenedIn(p_env) : r \in closed \/ r = Sem(0)
  BY <1>2, <1>3, <1>4, <1>5 DEF OpenedIn
<1>7. \A r \in closed \cap Inherited : r = Fd(0) /\ \E i \in DOMAIN env.epoll_array : env.epoll_array[i] = 0
  <2> SUFFICES ASSUME NEW k \in 0 .. 2, Fd(k) \in closed
               PROVE  k = 0 /\ \E i \in DOMAIN env.epoll_array : env.epoll_array[i] = 0
    BY DEF Inherited
  <2>1. Fd(k) \notin Cleaned(env)
    BY DEF Cleaned, EnvInv, Fd, So
  <2>2. Fd(k) # Sem(env.accept_mutex)
    BY DEF Fd, Sem
  <2>3. PICK i \in DOMAIN env.epoll_array : Fd(k) = Fd(env.epoll_array[i])
    BY <1>0, <2>1, <2>2 DEF CleanedBy, Cleaned_LF, Cleaned_IOMP
  <2>4. env.epoll_array[i] = k
    BY <2>3 DEF Fd
  <2>5. QED
    BY <2>4 DEF EpollInv
<1>8. QED
  BY <1>6, <1>7 DEF KernelInv

\* Where the program is in the set-up when it calls semget or epoll_create: there is no
\* semaphore yet, and the epolls before this one are open.
LEMMA NextCall ==
    ASSUME TypesOK, ServerInv, todo # <<>>
    PROVE  LET n == (Made + 1) - (Common + 2)
           IN  /\ Head(todo) = "semget" => p_env.accept_mutex = 0
               /\ Head(todo) = "epoll_create" =>
                    /\ p_para.server_model = "IOMP" /\ p_para.process_count \in Nat
                    /\ DOMAIN p_env.epoll_array = 1 .. p_para.process_count
                    /\ \A i \in 1 .. p_para.process_count : p_env.epoll_array[i] = 0 <=> i >= n
                    /\ n \in 1 .. p_para.process_count /\ FirstUnset = n
<1> DEFINE calls == InitCalls(p_para)
           call == Head(todo)
           epolls == p_env.epoll_array
           n == (Made + 1) - (Common + 2)
<1>1. /\ p_para \in Parameters /\ todo \in Seq(Calls) /\ p_para.server_model \in ServerModels
      /\ p_para.server_model # "IF" => p_para.process_count \in Nat
      /\ TodoInv /\ EnvInv /\ EpollInv
  BY DEF TypesOK, ServerInv
<1>2. /\ calls \in Seq(Calls) /\ Common \in Nat /\ Common >= 3
      /\ \A j \in 1 .. Len(calls) :
            /\ calls[j] = "semget" => p_para.server_model = "LF" /\ j = Common + 2
            /\ p_para.server_model # "IOMP" => calls[j] \notin {"epoll_array", "epoll_create"}
            /\ p_para.server_model = "IOMP" =>
                 calls[j] = "epoll_create" <=> j - (Common + 2) \in 1 .. p_para.process_count
  BY <1>1, InitCallsFacts DEF Common
<1>3. Len(todo) \in Nat /\ Len(todo) >= 1 /\ Len(calls) \in Nat /\ call = todo[1]
  BY <1>1, <1>2, HeadTailProperties, EmptySeq, LenProperties
<1>4. Made \in Nat /\ Made + 1 \in 1 .. Len(calls) /\ call = calls[Made + 1]
  BY <1>1, <1>3 DEF TodoInv, Made
<1> HIDE DEF calls, call
<1>5. ASSUME call = "semget" PROVE p_env.accept_mutex = 0
  <2>1. Made + 1 = Common + 2
    BY <1>2, <1>4, <1>5
  <2>2. ~ (Made >= Common + 2)
    BY <1>2, <1>4, <2>1
  <2>3. QED
    BY <1>1, <2>2 DEF EnvInv
<1>6. ASSUME call = "epoll_create"
      PROVE  /\ p_para.server_model = "IOMP" /\ p_para.process_count \in Nat
             /\ DOMAIN epolls = 1 .. p_para.process_count
             /\ \A i \in 1 .. p_para.process_count : epolls[i] = 0 <=> i >= n
             /\ n \in 1 .. p_para.process_count /\ FirstUnset = n
  <2>1. p_para.server_model = "IOMP"
    BY <1>2, <1>4, <1>6
  <2>2. p_para.process_count \in Nat
    BY <1>1, <2>1
  <2>3. calls[Made + 1] = "epoll_create" => (Made + 1) - (Common + 2) \in 1 .. p_para.process_count
    BY <1>2, <1>4, <2>1
  <2>4. n \in 1 .. p_para.process_count
    BY <1>4, <1>6, <2>3
  <2>5. /\ DOMAIN epolls = 1 .. p_para.process_count
        /\ \A i \in DOMAIN epolls : epolls[i] = 0 <=> i >= n
    BY <1>1, <1>2, <1>4, <2>1, <2>2, <2>4 DEF EpollInv
  <2>6. n \in Unset /\ \A j \in Unset : j \in Int /\ n <= j
    BY <2>2, <2>4, <2>5 DEF Unset
  <2>7. FirstUnset \in Unset /\ \A j \in Unset : FirstUnset <= j
    BY <2>6 DEF FirstUnset
  <2>8. QED
    BY <2>1, <2>2, <2>4, <2>5, <2>6, <2>7
<1>7. QED
  BY <1>5, <1>6 DEF call

\* One call of the set-up succeeds: what it opens is in the environment, where nothing
\* was before, and has a descriptor of its own.
LEMMA CallKeepsServer ==
    ASSUME TypesOK, ServerInv, CallSucceeds
    PROVE  ServerInv' /\ todo' \in Seq(Calls) /\ p_env' \in Environments
<1> DEFINE calls == InitCalls(p_para)
           call == Head(todo)
<1>t. /\ p_para \in Parameters /\ todo \in Seq(Calls) /\ p_env \in Environments
      /\ p_para.server_model \in ServerModels
      /\ p_para.server_model # "IF" => p_para.process_count \in Nat
      /\ TodoInv /\ KernelInv /\ EnvInv /\ EpollInv
  BY DEF TypesOK, ServerInv
<1>c. /\ calls \in Seq(Calls) /\ Common \in Nat /\ Common >= 3
      /\ \A j \in 1 .. Len(calls) :
            /\ calls[j] = "socket" => j = Common - 2
            /\ calls[j] = "semget" => p_para.server_model = "LF" /\ j = Common + 2
            /\ p_para.server_model # "IOMP" => calls[j] \notin {"epoll_array", "epoll_create"}
            /\ p_para.server_model = "IOMP" =>
                 /\ calls[j] = "epoll_array" <=> j = Common + 2
                 /\ calls[j] = "epoll_create" <=> j - (Common + 2) \in 1 .. p_para.process_count
  BY <1>t, InitCallsFacts DEF Common
<1>s. /\ step = "init" /\ todo # <<>> /\ Opens(call) /\ todo' = Tail(todo)
      /\ step' = step /\ p_para' = p_para
  BY DEF CallSucceeds
<1>l. /\ Len(todo) \in Nat /\ Len(todo) >= 1 /\ Len(calls) \in Nat /\ Made \in Nat
      /\ todo' \in Seq(Calls) /\ Len(todo') = Len(todo) - 1
      /\ \A i \in 1 .. Len(todo') : todo'[i] = todo[i + 1]
      /\ call = todo[1]
  <2>1. /\ Len(todo) \in Nat /\ Len(todo) >= 1 /\ Tail(todo) \in Seq(Calls) /\ Len(Tail(todo)) = Len(todo) - 1
        /\ \A i \in 1 .. Len(Tail(todo)) : Tail(todo)[i] = todo[i + 1]
    BY <1>t, <1>s, HeadTailProperties, EmptySeq, LenProperties
  <2>2. Len(calls) \in Nat
    BY <1>c, LenProperties
  <2>3. QED
    BY <1>t, <1>s, <2>1, <2>2 DEF TodoInv, Made
<1>m. Made' = Made + 1 /\ Common' = Common /\ Made + 1 \in 1 .. Len(calls)
  BY <1>s, <1>l DEF Made, Common
<1>h. call = calls[Made + 1]
  BY <1>t, <1>l DEF TodoInv
<1>1. TodoInv'
  <2>1. ASSUME NEW i \in 1 .. Len(todo') PROVE todo'[i] = InitCalls(p_para)'[Made' + i]
    <3>1. i + 1 \in 1 .. Len(todo) /\ Made + (i + 1) = Made' + i
      BY <1>l, <1>m
    <3>2. todo[i + 1] = InitCalls(p_para)[Made + (i + 1)]
      BY <1>t, <3>1 DEF TodoInv
    <3>3. QED
      BY <1>l, <1>s, <3>1, <3>2
  <2>2. Made' >= 0 /\ step' # "serve"
    BY <1>l, <1>m, <1>s
  <2>3. QED
    BY <2>1, <2>2 DEF TodoInv
<1>f. FreeFd \in Nat /\ FreeFd >= 3 /\ Fd(FreeFd) \notin kernel
  BY <1>t, FreeFdIsFree DEF KernelInv
<1> HIDE DEF calls, call
<1> DEFINE Kept == p_env' \in Environments /\ KernelInv' /\ EnvInv' /\ EpollInv'
<1>2. ASSUME call = "dlopen" PROVE Kept
  <2>1. kernel' = kernel \cup {So} /\ p_env' = [p_env EXCEPT !.so_handle = 1]
    BY <1>2, <1>s DEF Opens
  <2>2. /\ p_env' \in Environments /\ p_env'.so_handle = 1
        /\ p_env'.listen_sock = p_env.listen_sock /\ p_env'.accept_mutex = p_env.accept_mutex
        /\ p_env'.epoll_array = p_env.epoll_array
    BY <1>t, <2>1 DEF Environments
  <2>3. KernelInv'
    <3>1. IsFiniteSet(kernel')
      BY <1>t, <2>1, FS_AddElement DEF KernelInv
    <3>2. QED
      BY <1>t, <1>c, <1>l, <1>m, <2>1, <2>2, <3>1 DEF KernelInv, OpenedIn, So, Sem
  <2>4. calls[Made + 1] \notin {"epoll_array", "epoll_create"}
    BY <1>2, <1>h
  <2>5. EnvInv' /\ EpollInv'
    BY <1>t, <1>c, <1>s, <1>l, <1>m, <2>2, <2>4 DEF EnvInv, EpollInv
  <2>6. QED
    BY <2>2, <2>3, <2>5
<1>3. ASSUME call = "socket" PROVE Kept
  <2>1. kernel' = kernel \cup {Fd(FreeFd)} /\ p_env' = [p_env EXCEPT !.listen_sock = FreeFd]
    BY <1>3, <1>s DEF Opens
  <2>2. /\ p_env' \in Environments /\ p_env'.listen_sock = FreeFd
        /\ p_env'.so_handle = p_env.so_handle /\ p_env'.accept_mutex = p_env.accept_mutex
        /\ p_env'.epoll_array = p_env.epoll_array
    BY <1>t, <1>f, <2>1 DEF Environments
  <2>3. Made + 1 = Common - 2
    BY <1>3, <1>c, <1>h, <1>m
  <2>4. KernelInv'
    <3>1. IsFiniteSet(kernel')
      BY <1>t, <2>1, FS_AddElement DEF KernelInv
    <3>2. p_env.listen_sock = -1
      BY <1>t, <1>l, <1>c, <2>3 DEF EnvInv
    <3>3. FreeFd # -1
      BY <1>f
    <3>4. QED
      <4>1. Fd(FreeFd) # Sem(0)
        BY DEF Fd, Sem
      <4>2. Fd(FreeFd) \in OpenedIn(p_env)' /\ OpenedIn(p_env) \subseteq OpenedIn(p_env)'
        BY <2>2, <3>2, <3>3 DEF OpenedIn
      <4>3. Made' < Common' + 2 => Sem(0) \notin kernel'
        BY <1>t, <1>c, <1>l, <1>m, <2>1, <4>1 DEF KernelInv
      <4>4. Inherited \subseteq kernel' /\ kernel' \subseteq Inherited \cup OpenedIn(p_env)'
        BY <1>t, <2>1, <4>2 DEF KernelInv
      <4>5. QED
        BY <3>1, <4>3, <4>4 DEF KernelInv
  <2>5. EnvInv' /\ EpollInv'
    BY <1>t, <1>c, <1>s, <1>l, <1>f, <1>m, <2>2, <2>3 DEF EnvInv, EpollInv
  <2>6. QED
    BY <2>2, <2>4, <2>5
<1>4. ASSUME call = "semget" PROVE Kept
  <2>1. PICK id \in {0, 1} : /\ p_env' = [p_env EXCEPT !.accept_mutex = id]
                             /\ kernel' = kernel \cup {Sem(id)}
    BY <1>4, <1>s DEF Opens
  <2>2. /\ p_env' \in Environments /\ p_env'.accept_mutex = id
        /\ p_env'.so_handle = p_env.so_handle /\ p_env'.listen_sock = p_env.listen_sock
        /\ p_env'.epoll_array = p_env.epoll_array
    BY <1>t, <2>1 DEF Environments
  <2>3. p_para.server_model = "LF" /\ Made + 1 = Common + 2
    BY <1>4, <1>c, <1>h, <1>m
  <2>4. p_env.accept_mutex = 0
    BY <1>t, <1>l, <1>c, <2>3 DEF EnvInv
  <2>5. KernelInv'
    <3>1. IsFiniteSet(kernel')
      BY <1>t, <2>1, FS_AddElement DEF KernelInv
    <3>2. Sem(0) \notin kernel /\ ~ (Made' < Common' + 2)
      BY <1>t, <1>c, <1>l, <1>m, <2>3 DEF KernelInv
    <3>3. QED
      BY <1>t, <2>1, <2>2, <2>4, <3>1, <3>2 DEF KernelInv, OpenedIn
  <2>6. EnvInv' /\ EpollInv'
    BY <1>t, <1>c, <1>s, <1>l, <1>m, <2>2, <2>3 DEF EnvInv, EpollInv
  <2>7. QED
    BY <2>2, <2>5, <2>6
<1>5. ASSUME call = "epoll_array" PROVE Kept
  <2>1. kernel' = kernel /\ p_env' = [p_env EXCEPT !.epoll_array = [i \in 1 .. p_para.process_count |-> 0]]
    BY <1>5, <1>s DEF Opens
  <2>2. p_para.server_model = "IOMP" /\ p_para.process_count \in Nat /\ Made + 1 = Common + 2
    BY <1>5, <1>t, <1>c, <1>h, <1>m
  <2>3. [i \in 1 .. p_para.process_count |-> 0] \in Seq(Nat \cup {-1})
    <3>1. [i \in 1 .. p_para.process_count |-> 0] \in [1 .. p_para.process_count -> Nat \cup {-1}]
      OBVIOUS
    <3>2. QED
      BY <2>2, <3>1, SeqDef
  <2>4. /\ p_env' \in Environments
        /\ p_env'.epoll_array = [i \in 1 .. p_para.process_count |-> 0]
        /\ p_env'.so_handle = p_env.so_handle /\ p_env'.listen_sock = p_env.listen_sock
        /\ p_env'.accept_mutex = p_env.accept_mutex
    BY <1>t, <2>1, <2>3 DEF Environments
  <2>5. p_env.epoll_array = <<>>
    BY <1>t, <1>c, <1>l, <2>2 DEF EpollInv
  <2>6. KernelInv'
    BY <1>t, <1>c, <1>l, <1>m, <2>1, <2>4, <2>5 DEF KernelInv, OpenedIn
  <2>7. EpollInv'
    BY <1>c, <1>s, <1>l, <1>m, <2>2, <2>4 DEF EpollInv
  <2>8. EnvInv'
    BY <1>t, <1>c, <1>s, <1>l, <1>m, <2>4 DEF EnvInv
  <2>9. QED
    BY <2>4, <2>6, <2>7, <2>8
<1>6. ASSUME call = "epoll_create" PROVE Kept
  <2> DEFINE epolls == p_env.epoll_array
             n == (Made + 1) - (Common + 2)
  <2>1. kernel' = kernel \cup {Fd(FreeFd)} /\ p_env' = [p_env EXCEPT !.epoll_array[FirstUnset] = FreeFd]
    BY <1>6, <1>s DEF Opens
  <2>2. p_para.server_model = "IOMP" /\ p_para.process_count \in Nat /\ n \in 1 .. p_para.process_count
    BY <1>6, <1>s, NextCall DEF call
  <2>3. /\ DOMAIN epolls = 1 .. p_para.process_count
        /\ \A i \in DOMAIN epolls : epolls[i] = 0 <=> i >= n
        /\ epolls \in Seq(Nat \cup {-1})
    BY <1>6, <1>s, <1>t, NextCall DEF call, Environments
  <2>4. FirstUnset = n
    BY <1>6, <1>s, NextCall DEF call
  <2>5. [epolls EXCEPT ![n] = FreeFd] \in Seq(Nat \cup {-1})
    <3>1. epolls \in [1 .. p_para.process_count -> Nat \cup {-1}]
      BY <2>3, LenProperties
    <3>2. [epolls EXCEPT ![n] = FreeFd] \in [1 .. p_para.process_count -> Nat \cup {-1}]
      BY <1>f, <3>1
    <3> DEFINE opened == [epolls EXCEPT ![n] = FreeFd]
    <3> HIDE DEF opened
    <3>3. opened \in [1 .. p_para.process_count -> Nat \cup {-1}]
      BY <3>2 DEF opened
    <3>4. opened \in Seq(Nat \cup {-1})
      BY <2>2, <3>3, SeqDef
    <3>5. QED
      BY <3>4 DEF opened
  <2>6. /\ p_env' \in Environments
        /\ p_env'.epoll_array = [epolls EXCEPT ![n] = FreeFd]
        /\ p_env'.so_handle = p_env.so_handle /\ p_env'.listen_sock = p_env.listen_sock
        /\ p_env'.accept_mutex = p_env.accept_mutex
    BY <1>t, <2>1, <2>4, <2>5 DEF Environments
  <2>7. /\ DOMAIN p_env'.epoll_array = 1 .. p_para.process_count
        /\ p_env'.epoll_array[n] = FreeFd
        /\ \A i \in 1 .. p_para.process_count : i # n => p_env'.epoll_array[i] = epolls[i]
    BY <2>2, <2>3, <2>6
  <2>8. KernelInv'
    <3>1. IsFiniteSet(kernel')
      BY <1>t, <2>1, FS_AddElement DEF KernelInv
    <3>2. Fd(FreeFd) \in OpenedIn(p_env)'
      BY <1>f, <2>2, <2>7 DEF OpenedIn
    <3>3. OpenedIn(p_env) \subseteq OpenedIn(p_env)'
      <4>1. epolls[n] = 0
        BY <2>2, <2>3
      <4>2. \A i \in DOMAIN epolls : epolls[i] # 0 => i \in DOMAIN p_env'.epoll_array /\ p_env'.epoll_array[i] = epolls[i]
        BY <2>3, <2>7, <4>1
      <4>3. QED
        BY <2>6, <4>2 DEF OpenedIn
    <3>4. Fd(FreeFd) # Sem(0)
      BY DEF Fd, Sem
    <3>5. Made' < Common' + 2 => Sem(0) \notin kernel'
      BY <1>t, <1>c, <1>l, <1>m, <2>1, <3>4 DEF KernelInv
    <3>6. Inherited \subseteq kernel' /\ kernel' \subseteq Inherited \cup OpenedIn(p_env)'
      BY <1>t, <2>1, <3>2, <3>3 DEF KernelInv
    <3>7. QED
      BY <3>1, <3>5, <3>6 DEF KernelInv
  <2>9. EpollInv'
    <3>1. ~ (Made < Common + 2) /\ Made' >= Common' + 2 /\ p_para'.server_model = "IOMP"
      BY <1>c, <1>l, <1>m, <1>s, <2>2
    <3>2. \A i \in DOMAIN p_env'.epoll_array : p_env'.epoll_array[i] = 0 \/ p_env'.epoll_array[i] >= 3
      BY <1>t, <1>f, <2>3, <2>7 DEF EpollInv
    <3>3. \A i \in 1 .. p_para.process_count : p_env'.epoll_array[i] = 0 <=> Common' + 2 + i > Made'
      <4> TAKE i \in 1 .. p_para.process_count
      <4>1. i \in Nat /\ (Common' + 2 + i > Made' <=> i > n)
        BY <1>c, <1>l, <1>m, <2>2
      <4>2. CASE i = n
        BY <1>f, <2>7, <4>1, <4>2
      <4>3. CASE i # n
        <5>1. i >= n <=> i > n
          BY <2>2, <4>3
        <5>2. QED
          BY <2>3, <2>7, <4>1, <4>3, <5>1
      <4>4. QED
        BY <4>2, <4>3
    <3>4. QED
      BY <1>s, <2>7, <3>1, <3>2, <3>3 DEF EpollInv
  <2>10. EnvInv'
    BY <1>t, <1>c, <1>s, <1>l, <1>m, <2>6 DEF EnvInv
  <2>11. QED
    BY <2>6, <2>8, <2>9, <2>10
<1>7. ASSUME call \notin {"dlopen", "socket", "semget", "epoll_array", "epoll_create"} PROVE Kept
  <2>1. kernel' = kernel /\ p_env' = p_env
    BY <1>7, <1>s DEF Opens
  <2>2. calls[Made + 1] \notin {"epoll_array", "epoll_create"}
    BY <1>7, <1>h
  <2>3. KernelInv'
    <3>1. OpenedIn(p_env)' = OpenedIn(p_env)
      BY <2>1 DEF OpenedIn
    <3>2. QED
      BY <1>t, <1>c, <1>l, <1>m, <2>1, <3>1 DEF KernelInv
  <2>4. EnvInv'
    BY <1>t, <1>c, <1>s, <1>l, <1>m, <2>1 DEF EnvInv
  <2>5. EpollInv'
    BY <1>t, <1>c, <1>s, <1>l, <1>m, <2>1, <2>2 DEF EpollInv
  <2>6. QED
    BY <1>t, <2>1, <2>3, <2>4, <2>5
<1>8. Kept
  BY <1>2, <1>3, <1>4, <1>5, <1>6, <1>7
<1>9. QED
  BY <1>t, <1>s, <1>l, <1>1, <1>8 DEF ServerInv

StartInv == IFInv /\ TypesOK /\ SetupInv

\* Nothing is open before the set-up, and the words are well typed.
LEMMA StartInitInv == StartInit => StartInv
<1> SUFFICES ASSUME StartInit PROVE StartInv
  OBVIOUS
<1>1. IFInv
  BY InitIFInv DEF StartInit
<1>2. <<>> \in Seq(Words) /\ <<>> \in Seq(Calls) /\ <<>> \in Seq(Nat \cup {-1})
  OBVIOUS
<1>3. ZeroPara \in Parameters /\ ZeroEnv \in Environments
  BY <1>2, StartAssumption DEF ZeroPara, ZeroEnv, Parameters, Environments
<1>4. TypesOK
  <2>1. argv \in Seq(Words) /\ p_para \in Parameters /\ step \in {"main", "tcpdaemon"}
    BY <1>2, <1>3, StartAssumption DEF StartInit
  <2>2. todo \in Seq(Calls) /\ p_env \in Environments
    BY <1>2, <1>3 DEF StartInit
  <2>3. TypeOK /\ status = -1
    BY <1>1 DEF StartInit, IFInv, NotYet
  <2>4. QED
    BY <2>1, <2>2, <2>3 DEF TypesOK, NotYet
<1>5. SetupInv
  BY DEF StartInit, SetupInv, SetupUndone
<1>6. QED
  BY <1>1, <1>4, <1>5 DEF StartInv

\* An option writes one parameter.
LEMMA AssignTypes ==
    ASSUME NEW para \in Parameters, NEW option, NEW value \in Words
    PROVE  Assign(para, option, value) \in Parameters
<1>1. Number(value) \in Int
  BY StartAssumption DEF Number
<1>2. QED
  BY <1>1 DEF Assign, Parameters

\* Each turn of the loop over the command line.
LEMMA ParseKeepsTypes ==
    ASSUME TypesOK, ParseCommandParameter
    PROVE  /\ argv' \in Seq(Words) /\ p_para' \in Parameters
           /\ step' \in {"parse", "exited", "tcpdaemon"} /\ status' \in NotYet .. 255
<1> USE DEF Exit, NotYet
<1>1. argv \in Seq(Words) /\ p_para \in Parameters /\ status \in -1 .. 255 /\ step = "parse"
  BY DEF TypesOK, ParseCommandParameter
<1>2. <<>> \in Seq(Words) /\ ZeroPara \in Parameters
  BY StartAssumption DEF ZeroPara, Parameters
<1>3. argv # <<>> => Tail(argv) \in Seq(Words) /\ Len(Tail(argv)) = Len(argv) - 1
  BY <1>1, HeadTailProperties
<1>4. CASE Version \/ Invalid
  <2>1. /\ step' = "exited" /\ argv' = <<>> /\ p_para' = ZeroPara
        /\ status' = status \/ status' \in {0, 1}
    BY <1>4 DEF Version, Invalid, ExitParsing
  <2>2. status' \in -1 .. 255
    <3>1. status' = status \/ status' = 0 \/ status' = 1
      BY <2>1
    <3>2. 0 \in -1 .. 255 /\ 1 \in -1 .. 255
      OBVIOUS
    <3>3. QED
      BY <1>1, <3>1, <3>2
  <2>3. argv' \in Seq(Words) /\ p_para' \in Parameters
    BY <1>2, <2>1
  <2>4. QED
    BY <2>1, <2>2, <2>3
<1>5. CASE ParseFlag
  <2>1. p_para' \in Parameters
    BY <1>1, <1>5 DEF ParseFlag, Parameters
  <2>2. QED
    BY <1>1, <1>3, <1>5, <2>1 DEF ParseFlag
<1>6. CASE ParseOption
  <2>1. Len(argv) \in Nat /\ Len(argv) >= 2 /\ argv[2] \in Words
    BY <1>1, <1>6, LenProperties, ElementOfSeq DEF ParseOption
  <2>2. argv # <<>> /\ Tail(argv) # <<>>
    <3>1. argv # <<>>
      BY <2>1, EmptySeq
    <3>2. Len(Tail(argv)) >= 1
      BY <1>3, <2>1, <3>1
    <3> DEFINE rest == Tail(argv)
    <3>3. Len(rest) >= 1
      BY <3>2
    <3> HIDE DEF rest
    <3>4. rest # <<>>
      BY <3>3, EmptySeq
    <3>5. QED
      BY <3>1, <3>4 DEF rest
  <2>3. Tail(Tail(argv)) \in Seq(Words)
    BY <1>3, <2>2, HeadTailProperties
  <2>4. CASE ExitParsing(1)
    BY <1>1, <1>2, <2>4 DEF ExitParsing
  <2>5. CASE /\ p_para' = Assign(p_para, Head(argv), argv[2]) /\ argv' = Tail(Tail(argv))
             /\ UNCHANGED <<step, status>>
    BY <1>1, <2>1, <2>3, <2>5, AssignTypes
  <2>6. QED
    BY <1>6, <2>4, <2>5 DEF ParseOption
<1>7. CASE argv = <<>> /\ step' = "tcpdaemon" /\ UNCHANGED <<argv, p_para, status>>
  BY <1>1, <1>7
<1>8. QED
  BY <1>4, <1>5, <1>6, <1>7 DEF ParseCommandParameter

\* The environment of a server model when it is entered: all calls are still to be made.
LEMMA EnteredInv ==
    ASSUME TypesOK, SetupInv, step = "check", CheckCommandParameter(p_para) = 0,
           step' = "init", todo' = InitCalls(p_para), p_env' = [ZeroEnv EXCEPT !.listen_sock = -1],
           p_para' = p_para, kernel' = kernel
    PROVE  ServerInv' /\ todo' \in Seq(Calls) /\ p_env' \in Environments
<1>1. p_para \in Parameters /\ p_para.process_count \in Int
  BY DEF TypesOK, Parameters
<1>2. /\ p_para.server_model \in ServerModels
      /\ p_para.server_model # "IF" => p_para.process_count \in Nat
  BY <1>1 DEF CheckCommandParameter, ServerModels
<1>3. InitCalls(p_para) \in Seq(Calls) /\ Common \in Nat /\ Common >= 3
  BY <1>1, <1>2, InitCallsFacts DEF Common
<1>4. Made' = 0 /\ Common' = Common
  <2>1. Len(InitCalls(p_para)) \in Nat
    BY <1>3, LenProperties
  <2>2. QED
    BY <2>1 DEF Made, Common
<1>5. TodoInv'
  <2>1. \A i \in 1 .. Len(InitCalls(p_para)) : 0 + i = i
    OBVIOUS
  <2>2. QED
    BY <1>4, <2>1 DEF TodoInv
<1>6. p_env' = [so_handle |-> 0, listen_sock |-> -1, accept_mutex |-> 0, epoll_array |-> <<>>]
  BY DEF ZeroEnv
<1>7. p_env' \in Environments
  <2>1. <<>> \in Seq(Nat \cup {-1})
    OBVIOUS
  <2>2. /\ p_env'.so_handle = 0 /\ p_env'.listen_sock = -1 /\ p_env'.accept_mutex = 0
        /\ p_env'.epoll_array = <<>>
    BY <1>6
  <2>3. \A epolls \in Seq(Nat \cup {-1}) :
           [so_handle |-> 0, listen_sock |-> -1, accept_mutex |-> 0, epoll_array |-> epolls] \in Environments
    BY DEF Environments
  <2>4. QED
    BY <1>6, <2>1, <2>3, Zenon
<1>8. KernelInv'
  <2>1. kernel' = Inherited
    BY DEF SetupInv
  <2>2. Inherited = {Fd(0), Fd(1), Fd(2)}
    BY DEF Inherited
  <2>3. IsFiniteSet(Inherited)
    <3>1. IsFiniteSet({Fd(0)})
      BY FS_Singleton
    <3>2. IsFiniteSet({Fd(0)} \cup {Fd(1)})
      BY <3>1, FS_AddElement
    <3>3. IsFiniteSet(({Fd(0)} \cup {Fd(1)}) \cup {Fd(2)})
      BY <3>2, FS_AddElement
    <3>4. Inherited = ({Fd(0)} \cup {Fd(1)}) \cup {Fd(2)}
      BY <2>2
    <3>5. QED
      BY <3>3, <3>4
  <2>4. Sem(0) \notin Inherited
    BY DEF Inherited, Sem, Fd
  <2>5. QED
    BY <2>1, <2>3, <2>4 DEF KernelInv
<1>9. EnvInv' /\ EpollInv'
  BY <1>3, <1>4, <1>6 DEF EnvInv, EpollInv
<1>10. QED
  BY <1>2, <1>3, <1>5, <1>7, <1>8, <1>9 DEF ServerInv

\* The pools and IF leave of their environment only what SetupUndone allows.
LEMMA ReturnedUndone ==
    ASSUME TypesOK, ServerInv, p_env' = p_env,
           kernel \ CleanedBy(p_para.server_model, p_env) \subseteq kernel',
           \A r \in kernel' \ (kernel \ CleanedBy(p_para.server_model, p_env)) :
              r[1] = "pipe" /\ todo' = <<>>
    PROVE  SetupUndone'
<1>1. /\ p_env \in Environments /\ p_para.server_model \in ServerModels
      /\ KernelInv /\ EnvInv /\ EpollInv
  BY DEF TypesOK, ServerInv
<1> DEFINE left == kernel \ CleanedBy(p_para.server_model, p_env)
<1>2. /\ \A r \in left \ Inherited : r = Sem(0)
      /\ \A r \in Inherited \ left :
            r = Fd(0) /\ {i \in DOMAIN p_env.epoll_array : p_env.epoll_array[i] = 0} # {}
  BY <1>1, CleanedUp
<1>3. Unset' = {i \in DOMAIN p_env.epoll_array : p_env.epoll_array[i] = 0}
  BY DEF Unset
<1>4. left \subseteq kernel' /\ \A r \in kernel' \ left : r[1] = "pipe" /\ todo' = <<>>
  OBVIOUS
<1> HIDE DEF left
<1>5. \A r \in kernel' \ Inherited : r = Sem(0) \/ (r[1] = "pipe" /\ todo' = <<>>)
  BY <1>2, <1>4
<1>6. \A r \in Inherited \ kernel' : r = Fd(0) /\ Unset' # {}
  BY <1>2, <1>3, <1>4
<1>7. QED
  BY <1>5, <1>6 DEF SetupUndone

\* A failed call leaves what it could not open unset or -1, and the rest is undone.
LEMMA FailureUndone ==
    ASSUME TypesOK, ServerInv, CallFails
    PROVE  SetupUndone' /\ p_env' \in Environments
<1>1. /\ p_env \in Environments /\ p_para.server_model \in ServerModels
      /\ KernelInv /\ EnvInv /\ EpollInv /\ TodoInv
  BY DEF TypesOK, ServerInv
<1> DEFINE call == Head(todo)
           epolls == p_env.epoll_array
<1>2. p_env' = Failed(call) /\ kernel' = kernel \ CleanedBy(p_para.server_model, p_env')
  BY DEF CallFails
<1> DEFINE Changed ==
      /\ p_env' \in Environments
      /\ p_env'.so_handle = p_env.so_handle /\ p_env'.listen_sock = p_env.listen_sock
      /\ p_env'.accept_mutex = p_env.accept_mutex \/ p_env.accept_mutex = 0
      /\ DOMAIN p_env'.epoll_array = DOMAIN epolls
      /\ \A i \in DOMAIN epolls : \/ p_env'.epoll_array[i] = epolls[i]
                                  \/ p_env'.epoll_array[i] = -1 /\ epolls[i] = 0
<1>3. ASSUME call = "semget" PROVE Changed
  <2>1. p_env' = [p_env EXCEPT !.accept_mutex = -1]
    BY <1>2, <1>3 DEF Failed
  <2>2. p_env.accept_mutex = 0
    BY <1>3, NextCall DEF CallFails
  <2>3. QED
    BY <1>1, <2>1, <2>2 DEF Environments
<1>4. ASSUME call = "epoll_create" PROVE Changed
  <2>1. p_env' = [p_env EXCEPT !.epoll_array[FirstUnset] = -1]
    BY <1>2, <1>4 DEF Failed
  <2>2. FirstUnset \in DOMAIN epolls /\ epolls[FirstUnset] = 0
    <3>1. todo # <<>>
      BY DEF CallFails
    <3> DEFINE n == (Made + 1) - (Common + 2)
    <3>2. /\ DOMAIN epolls = 1 .. p_para.process_count
          /\ \A i \in 1 .. p_para.process_count : epolls[i] = 0 <=> i >= n
          /\ n \in 1 .. p_para.process_count /\ FirstUnset = n
      BY <1>4, <3>1, NextCall
    <3> HIDE DEF n
    <3>3. n >= n
      BY <3>2
    <3>4. QED
      BY <3>2, <3>3
  <2>3. epolls \in Seq(Nat \cup {-1})
    BY <1>1 DEF Environments
  <2>4. [epolls EXCEPT ![FirstUnset] = -1] \in Seq(Nat \cup {-1})
    BY <2>2, <2>3, ExceptSeq, LenProperties
  <2>5. /\ p_env' \in Environments /\ p_env'.epoll_array = [epolls EXCEPT ![FirstUnset] = -1]
        /\ p_env'.so_handle = p_env.so_handle /\ p_env'.listen_sock = p_env.listen_sock
        /\ p_env'.accept_mutex = p_env.accept_mutex
    BY <1>1, <2>1, <2>4 DEF Environments
  <2>6. QED
    BY <2>2, <2>5
<1>5. ASSUME call \notin {"semget", "epoll_create"} PROVE Changed
  BY <1>1, <1>2, <1>5 DEF Failed
<1>6. Changed
  BY <1>3, <1>4, <1>5
<1> HIDE DEF call
<1>7. /\ \A r \in kernel' \ Inherited : r = Sem(0)
      /\ \A r \in Inherited \ kernel' :
            r = Fd(0) /\ {i \in DOMAIN p_env'.epoll_array : p_env'.epoll_array[i] = 0} # {}
  BY <1>1, <1>2, <1>6, CleanedUp
<1>8. Unset' = {i \in DOMAIN p_env'.epoll_array : p_env'.epoll_array[i] = 0}
  BY DEF Unset
<1>9. QED
  BY <1>6, <1>7, <1>8 DEF SetupUndone

\* Only an exit status that a program can have is given.
LEMMA ExitTypes ==
    ASSUME status \in NotYet .. 255, NEW code \in {0, 1, 128 + 15}, Exit(code)
    PROVE  status' \in NotYet .. 255
<1>1. status' = status \/ status' = code
  BY DEF Exit
<1>2. code \in -1 .. 255
  OBVIOUS
<1>3. QED
  BY <1>1, <1>2 DEF NotYet

LEMMA ReturnTypes ==
    ASSUME status \in NotYet .. 255, NEW nret \in {0, -1, -2, -11}, Return(nret)
    PROVE  step' = "returned" /\ status' \in NotYet .. 255
<1>1. -nret \in {0, 1, 2, 11}
  OBVIOUS
<1>2. step' = "returned" /\ (status' = status \/ status' = -nret)
  BY DEF Return, Exit
<1>3. QED
  BY <1>1, <1>2 DEF NotYet

\* Every step of the program keeps the types and what is known of the set-up.
LEMMA StartNextInv ==
    ASSUME StartInv, [StartNext]_allVars
    PROVE  StartInv'
<1>1. IFInv'
  BY StartStepIsServerStep, NextIFInv, FaultElsewhereKeepsIFInv DEF StartInv
<1>t. /\ TypesOK /\ SetupInv /\ TypeOK'
      /\ p_para \in Parameters /\ argv \in Seq(Words) /\ todo \in Seq(Calls) /\ p_env \in Environments
      /\ status \in NotYet .. 255
  BY <1>1 DEF StartInv, TypesOK, IFInv
<1> DEFINE Good == TypesOK' /\ SetupInv'
<1> USE DEF NotYet
<1>2. ASSUME Main PROVE Good
  <2>1. /\ step' \in {"exited", "parse"} /\ status' \in -1 .. 255 /\ kernel' = Inherited
        /\ UNCHANGED <<argv, p_para, todo, p_env>>
    <3>1. Exit(0) \/ status' = status
      BY <1>2 DEF Main
    <3>2. status' \in -1 .. 255
      BY <1>t, <3>1, ExitTypes
    <3>3. QED
      BY <1>t, <1>2, <3>2 DEF Main, SetupInv
  <2>2. QED
    BY <1>t, <2>1 DEF TypesOK, SetupInv, SetupUndone
<1>3. ASSUME ParseCommandParameter PROVE Good
  <2>1. /\ argv' \in Seq(Words) /\ p_para' \in Parameters
        /\ step' \in {"parse", "exited", "tcpdaemon"} /\ status' \in -1 .. 255
    BY <1>t, <1>3, ParseKeepsTypes
  <2>2. kernel' = Inherited /\ UNCHANGED <<todo, p_env>>
    BY <1>t, <1>3 DEF ParseCommandParameter, SetupInv
  <2>3. QED
    BY <1>t, <2>1, <2>2 DEF TypesOK, SetupInv, SetupUndone
<1>4. ASSUME BindDaemonServer \/ ForkAgain \/ InForeground PROVE Good
  <2>1. /\ step' \in {"daemon", "check", "returned"} /\ status' \in -1 .. 255 /\ kernel' = Inherited
        /\ UNCHANGED <<argv, p_para, todo, p_env>>
    <3>1. CASE Return(-1) \/ Return(-2)
      BY <1>t, <1>4, <3>1, ReturnTypes DEF BindDaemonServer, ForkAgain, InForeground, SetupInv
    <3>2. CASE Exit(0) /\ step' = "daemon"
      <4>1. status' \in -1 .. 255
        BY <1>t, <3>2, ExitTypes
      <4>2. QED
        BY <1>t, <1>4, <3>2, <4>1 DEF BindDaemonServer, ForkAgain, InForeground, SetupInv
    <3>3. CASE status' = status /\ step' = "check"
      BY <1>t, <1>4, <3>3 DEF BindDaemonServer, ForkAgain, InForeground, SetupInv
    <3>4. QED
      BY <1>4, <3>1, <3>2, <3>3 DEF BindDaemonServer, ForkAgain, InForeground
  <2>2. QED
    BY <1>t, <2>1 DEF TypesOK, SetupInv, SetupUndone
<1>5. ASSUME CheckAndEnter PROVE Good
  <2>1. /\ step = "check" /\ kernel' = Inherited /\ kernel' = kernel
        /\ UNCHANGED <<argv, p_para>>
    BY <1>t, <1>5 DEF CheckAndEnter, SetupInv
  <2>2. CASE CheckCommandParameter(p_para) # 0
    <3>1. step' = "returned" /\ status' \in -1 .. 255 /\ UNCHANGED <<todo, p_env>>
      <4>1. Return(CheckCommandParameter(p_para)) /\ UNCHANGED <<todo, p_env>>
        BY <1>5, <2>2 DEF CheckAndEnter
      <4>2. CheckCommandParameter(p_para) \in {0, -1, -2, -11}
        BY CheckResult
      <4>3. QED
        BY <1>t, <4>1, <4>2, ReturnTypes
    <3>2. QED
      BY <1>t, <2>1, <3>1 DEF TypesOK, SetupInv, SetupUndone
  <2>3. CASE CheckCommandParameter(p_para) = 0
    <3>1. /\ step' = "init" /\ todo' = InitCalls(p_para)
          /\ p_env' = [ZeroEnv EXCEPT !.listen_sock = -1] /\ status' = status
      BY <1>5, <2>3 DEF CheckAndEnter
    <3>2. ServerInv' /\ todo' \in Seq(Calls) /\ p_env' \in Environments
      BY <1>t, <2>1, <2>3, <3>1, EnteredInv
    <3>3. QED
      BY <1>t, <2>1, <3>1, <3>2 DEF TypesOK, SetupInv, SetupUndone, ServerInv
  <2>4. QED
    BY <2>2, <2>3
<1>6. ASSUME CallSucceeds PROVE Good
  <2>1. step = "init" /\ UNCHANGED <<step, argv, p_para, status>>
    BY <1>6 DEF CallSucceeds
  <2>2. ServerInv' /\ todo' \in Seq(Calls) /\ p_env' \in Environments
    BY <1>t, <1>6, <2>1, CallKeepsServer DEF SetupInv
  <2>3. QED
    BY <1>t, <2>1, <2>2 DEF TypesOK, SetupInv, SetupUndone, ServerInv
<1>7. ASSUME CallFails PROVE Good
  <2>1. /\ step = "init" /\ step' = "returned" /\ status' \in -1 .. 255
        /\ UNCHANGED <<argv, p_para, todo>>
    <3>1. Return(-1)
      BY <1>7 DEF CallFails
    <3>2. QED
      BY <1>t, <1>7, <3>1, ReturnTypes DEF CallFails
  <2>2. SetupUndone' /\ p_env' \in Environments
    BY <1>t, <1>7, <2>1, FailureUndone DEF SetupInv
  <2>3. QED
    BY <1>t, <2>1, <2>2 DEF TypesOK, SetupInv
<1>8. ASSUME StartServing PROVE Good
  <2>1. /\ step = "init" /\ todo = <<>> /\ step' = "serve"
        /\ UNCHANGED <<argv, p_para, todo, p_env, kernel, status>>
    BY <1>8 DEF StartServing
  <2>2. ServerInv
    BY <1>t, <2>1 DEF SetupInv
  <2>3. ServerInv'
    BY <2>1, <2>2 DEF ServerInv, TodoInv, KernelInv, EnvInv, EpollInv, Made, Common
  <2>4. QED
    BY <1>t, <2>1, <2>3 DEF TypesOK, SetupInv, SetupUndone, ServerInv
<1>9. ASSUME \/ ServeIF(ParentStep) \/ ServeIF(ForkFails) \/ ServeIF(SystemCallFails)
             \/ ServeIF(sigproc_SIGTERM) \/ ServeIF(sigproc_SIGCHLD)
             \/ \E c \in Conns : ServeIF(ChildEnds(c)) \/ ServeIF(Connect(c))
      PROVE  Good
  <2>1. /\ step = "serve" /\ p_para.server_model = "IF" /\ UNCHANGED <<argv, p_para, todo, p_env>>
        /\ \/ Return(0) /\ kernel' = kernel \ Cleaned(p_env)
           \/ UNCHANGED <<step, kernel, status>>
    BY <1>9 DEF ServeIF
  <2>2. ServerInv
    BY <1>t, <2>1 DEF SetupInv
  <2>3. CASE Return(0) /\ kernel' = kernel \ Cleaned(p_env)
    <3>1. step' = "returned" /\ status' \in -1 .. 255
      BY <1>t, <2>3, ReturnTypes
    <3>2. kernel' = kernel \ CleanedBy(p_para.server_model, p_env)
      BY <2>1, <2>3 DEF CleanedBy
    <3>3. SetupUndone'
      BY <1>t, <2>1, <2>2, <3>2, ReturnedUndone
    <3>4. QED
      BY <1>t, <2>1, <3>1, <3>3 DEF TypesOK, SetupInv
  <2>4. CASE UNCHANGED <<step, kernel, status>>
    <3>1. ServerInv'
      BY <2>1, <2>2, <2>4 DEF ServerInv, TodoInv, KernelInv, EnvInv, EpollInv, Made, Common
    <3>2. QED
      BY <1>t, <2>1, <2>4, <3>1 DEF TypesOK, SetupInv, SetupUndone, ServerInv
  <2>5. QED
    BY <2>1, <2>3, <2>4
<1>10. ASSUME PoolReturns \/ PoolFails PROVE Good
  <2>1. /\ step = "serve" /\ step' = "returned" /\ UNCHANGED <<argv, p_para, todo, p_env>>
        /\ status' \in -1 .. 255
    <3>1. Return(0) \/ Return(-11)
      BY <1>10 DEF PoolReturns, PoolFails
    <3>2. QED
      BY <1>t, <1>10, <3>1, ReturnTypes DEF PoolReturns, PoolFails
  <2>2. ServerInv
    BY <1>t, <2>1 DEF SetupInv
  <2>3. todo' = <<>>
    BY <2>1, <2>2 DEF ServerInv, TodoInv
  <2>4. /\ kernel \ CleanedBy(p_para.server_model, p_env) \subseteq kernel'
        /\ \A r \in kernel' \ (kernel \ CleanedBy(p_para.server_model, p_env)) : r[1] = "pipe"
    <3>1. CASE PoolReturns
      BY <3>1 DEF PoolReturns
    <3>2. CASE PoolFails
      BY <3>2 DEF PoolFails
    <3>3. QED
      BY <1>10, <3>1, <3>2
  <2>5. SetupUndone'
    BY <1>t, <2>1, <2>2, <2>3, <2>4, ReturnedUndone
  <2>6. QED
    BY <1>t, <2>1, <2>5 DEF TypesOK, SetupInv
<1>11. ASSUME KilledInSetUp PROVE Good
  <2>1. step' = "killed" /\ status' \in -1 .. 255 /\ UNCHANGED <<argv, p_para, todo, p_env>>
    BY <1>t, <1>11 DEF KilledInSetUp, Exit
  <2>2. QED
    BY <1>t, <2>1 DEF TypesOK, SetupInv, SetupUndone
<1>12. ASSUME UNCHANGED allVars PROVE Good
  <2>1. UNCHANGED startVars
    BY <1>12 DEF allVars
  <2>2. SetupInv'
    BY <1>t, <2>1 DEF startVars, SetupInv, SetupUndone, Unset, ServerInv, TodoInv, KernelInv, EnvInv,
                      EpollInv, Made, Common
  <2>3. QED
    BY <1>t, <2>1, <2>2 DEF startVars, TypesOK
<1>13. Good
  BY <1>2, <1>3, <1>4, <1>5, <1>6, <1>7, <1>8, <1>9, <1>10, <1>11, <1>12 DEF StartInv, StartNext, StartStep
<1>14. QED
  BY <1>1, <1>13 DEF StartInv

LEMMA StartInvariant == StartSpec => []StartInv
<1>1. StartInv /\ [StartNext]_allVars => StartInv'
  BY StartNextInv
<1>2. QED
  BY <1>1, StartInitInv, PTL DEF StartSpec

\* Every reachable state of the program is well typed: the parser writes no other
\* parameters than there are, and the environment holds what the kernel gives.
THEOREM TypesCorrect == StartSpec => []TypesOK
<1>1. StartInv => TypesOK
  BY DEF StartInv
<1>2. QED
  BY <1>1, StartInvariant, PTL

\* Whatever call of the set-up fails, and in whatever way a server model returns: all
\* that the server opened is closed but what SetupUndone names, and nothing else is.
THEOREM FailedSetupIsUndone == StartSpec => []SetupUndone
<1>1. StartInv => SetupUndone
  BY DEF StartInv, SetupInv
<1>2. QED
  BY <1>1, StartInvariant, PTL
=============================================================================
