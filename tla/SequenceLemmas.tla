--------------------------- MODULE SequenceLemmas ---------------------------
(***************************************************************************)
(* Facts about sequences that the proofs share: pieces of them, and        *)
(* elements put in and taken out, above all of sequences without           *)
(* repetition, as the lists of the sessions are.                           *)
(***************************************************************************)
EXTENDS Integers, SequencesExt, FiniteSetTheorems, SequenceTheorems, TLAPS

-----------------------------------------------------------------------------
(* Pieces of sequences                                                     *)

\* A piece of a sequence, which may be empty.
LEMMA Piece ==
    ASSUME NEW S, NEW q \in Seq(S), NEW m \in 1 .. Len(q) + 1, NEW n \in m - 1 .. Len(q)
    PROVE  /\ SubSeq(q, m, n) \in Seq(S)
           /\ Len(SubSeq(q, m, n)) = n - m + 1
           /\ \A i \in 1 .. n - m + 1 : SubSeq(q, m, n)[i] = q[m + i - 1]
<1>1. \A i \in m .. n : q[i] \in S
  OBVIOUS
<1>2. m \in Int /\ n \in Int
  OBVIOUS
<1>3. /\ SubSeq(q, m, n) \in Seq(S)
      /\ Len(SubSeq(q, m, n)) = IF m <= n THEN n - m + 1 ELSE 0
      /\ \A i \in 1 .. n - m + 1 : SubSeq(q, m, n)[i] = q[m + i - 1]
  BY <1>1, <1>2, SubSeqProperties
<1>4. ~ (m <= n) => n - m + 1 = 0
  BY <1>2
<1>5. QED
  BY <1>3, <1>4

\* Two sequences put together: how long they are, and what they hold.
LEMMA Joined ==
    ASSUME NEW S, NEW a \in Seq(S), NEW b \in Seq(S)
    PROVE  /\ a \o b \in Seq(S) /\ DOMAIN (a \o b) = 1 .. Len(a) + Len(b)
           /\ \A i \in 1 .. Len(a) + Len(b) :
                 (a \o b)[i] = IF i <= Len(a) THEN a[i] ELSE b[i - Len(a)]
  BY ConcatProperties, LenProperties

-----------------------------------------------------------------------------
(* Sequences without repetition                                            *)

\* An element put at the end.
LEMMA Appended ==
    ASSUME NEW S, NEW q \in Seq(S), NEW e \in S
    PROVE  /\ Append(q, e) \in Seq(S)
           /\ ToSet(Append(q, e)) = ToSet(q) \cup {e}
           /\ IsInjective(q) /\ e \notin ToSet(q) => IsInjective(Append(q, e))
<1>1. /\ Append(q, e) \in Seq(S) /\ DOMAIN q = 1 .. Len(q) /\ Len(q) \in Nat
      /\ DOMAIN Append(q, e) = 1 .. Len(q) + 1
      /\ \A i \in 1 .. Len(q) : Append(q, e)[i] = q[i]
      /\ Append(q, e)[Len(q) + 1] = e
  BY AppendProperties
<1>2. ToSet(Append(q, e)) = ToSet(q) \cup {e}
  <2>1. ASSUME NEW x \in ToSet(Append(q, e)) PROVE x \in ToSet(q) \cup {e}
    <3>1. PICK i \in 1 .. Len(q) + 1 : x = Append(q, e)[i]
      BY <1>1 DEF ToSet
    <3>2. i \in 1 .. Len(q) \/ i = Len(q) + 1
      BY <1>1
    <3>3. QED
      BY <1>1, <3>1, <3>2 DEF ToSet
  <2>2. ASSUME NEW x \in ToSet(q) \cup {e} PROVE x \in ToSet(Append(q, e))
    <3>1. CASE x = e
      BY <1>1, <3>1 DEF ToSet
    <3>2. CASE x \in ToSet(q)
      BY <1>1, <3>2 DEF ToSet
    <3>3. QED
      BY <3>1, <3>2
  <2>3. QED
    BY <2>1, <2>2
<1>3. ASSUME IsInjective(q), e \notin ToSet(q) PROVE IsInjective(Append(q, e))
  <2> SUFFICES ASSUME NEW i \in 1 .. Len(q) + 1, NEW j \in 1 .. Len(q) + 1,
                      Append(q, e)[i] = Append(q, e)[j]
               PROVE  i = j
    BY <1>1 DEF IsInjective
  <2>1. /\ i \in 1 .. Len(q) \/ i = Len(q) + 1
        /\ j \in 1 .. Len(q) \/ j = Len(q) + 1
    BY <1>1
  <2>2. QED
    BY <1>1, <1>3, <2>1 DEF IsInjective, ToSet
<1>4. QED
  BY <1>1, <1>2, <1>3

\* The first element taken away.
LEMMA Tailed ==
    ASSUME NEW S, NEW q \in Seq(S), q # <<>>
    PROVE  /\ Head(q) \in S /\ Head(q) \in ToSet(q)
           /\ Tail(q) \in Seq(S)
           /\ IsInjective(q) =>
                  ToSet(Tail(q)) = ToSet(q) \ {Head(q)} /\ IsInjective(Tail(q))
<1>1. /\ Tail(q) \in Seq(S) /\ DOMAIN q = 1 .. Len(q) /\ Len(q) \in Nat \ {0}
      /\ DOMAIN Tail(q) = 1 .. Len(q) - 1
      /\ \A i \in 1 .. Len(q) - 1 : Tail(q)[i] = q[i + 1]
      /\ Head(q) = q[1] /\ Head(q) \in S
  BY HeadTailProperties, LenProperties
<1>2. Head(q) \in ToSet(q)
  BY <1>1 DEF ToSet
<1>3. ASSUME IsInjective(q)
      PROVE  ToSet(Tail(q)) = ToSet(q) \ {Head(q)} /\ IsInjective(Tail(q))
  <2>1. ASSUME NEW x \in ToSet(q) \ {Head(q)} PROVE x \in ToSet(Tail(q))
    <3>1. PICK i \in 1 .. Len(q) : x = q[i]
      BY <1>1 DEF ToSet
    <3>2. i - 1 \in 1 .. Len(q) - 1 /\ (i - 1) + 1 = i
      BY <1>1, <3>1
    <3>3. QED
      BY <1>1, <3>1, <3>2 DEF ToSet
  <2>2. ASSUME NEW x \in ToSet(Tail(q)) PROVE x \in ToSet(q) \ {Head(q)}
    <3>1. PICK i \in 1 .. Len(q) - 1 : x = q[i + 1]
      BY <1>1 DEF ToSet
    <3>2. i + 1 \in 1 .. Len(q) /\ i + 1 # 1 /\ 1 \in 1 .. Len(q)
      BY <1>1
    <3>3. QED
      BY <1>1, <1>3, <3>1, <3>2 DEF ToSet, IsInjective
  <2>3. IsInjective(Tail(q))
    <3> SUFFICES ASSUME NEW i \in 1 .. Len(q) - 1, NEW j \in 1 .. Len(q) - 1,
                        q[i + 1] = q[j + 1]
                 PROVE  i = j
      BY <1>1 DEF IsInjective
    <3>1. i + 1 \in 1 .. Len(q) /\ j + 1 \in 1 .. Len(q)
      BY <1>1
    <3>2. i + 1 = j + 1
      BY <1>1, <1>3, <3>1 DEF IsInjective
    <3>3. QED
      BY <3>2
  <2>4. QED
    BY <2>1, <2>2, <2>3
<1>4. QED
  BY <1>1, <1>2, <1>3

\* The element at p taken out: those before it stay where they are, the others move up.
LEMMA RemovedAt ==
    ASSUME NEW S, NEW q \in Seq(S), NEW p \in 1 .. Len(q)
    PROVE  /\ RemoveAt(q, p) \in Seq(S) /\ DOMAIN RemoveAt(q, p) = 1 .. Len(q) - 1
           /\ \A i \in 1 .. Len(q) - 1 : RemoveAt(q, p)[i] = IF i < p THEN q[i] ELSE q[i + 1]
<1> DEFINE r == RemoveAt(q, p)
           a == SubSeq(q, 1, p - 1)
           b == SubSeq(q, p + 1, Len(q))
<1>0. Len(q) \in Nat /\ p \in Int /\ DOMAIN q = 1 .. Len(q)
  OBVIOUS
<1>1. /\ a \in Seq(S) /\ Len(a) = p - 1
      /\ \A i \in 1 .. p - 1 : a[i] = q[i]
  <2>1. 1 \in 1 .. Len(q) + 1 /\ p - 1 \in 1 - 1 .. Len(q) /\ (p - 1) - 1 + 1 = p - 1
    BY <1>0
  <2>2. \A i \in 1 .. p - 1 : 1 + i - 1 = i
    BY <1>0
  <2>3. QED
    BY <2>1, <2>2, Piece
<1>2. /\ b \in Seq(S) /\ Len(b) = Len(q) - p
      /\ \A i \in 1 .. Len(q) - p : b[i] = q[p + i]
  <2>1. /\ p + 1 \in 1 .. Len(q) + 1 /\ Len(q) \in (p + 1) - 1 .. Len(q)
        /\ Len(q) - (p + 1) + 1 = Len(q) - p
    BY <1>0
  <2>2. /\ b \in Seq(S) /\ Len(b) = Len(q) - (p + 1) + 1
        /\ \A i \in 1 .. Len(q) - (p + 1) + 1 : b[i] = q[(p + 1) + i - 1]
    BY <2>1, Piece
  <2>3. \A i \in 1 .. Len(q) - p : (p + 1) + i - 1 = p + i
    BY <1>0
  <2>4. QED
    BY <2>1, <2>2, <2>3
<1>3. /\ r \in Seq(S) /\ DOMAIN r = 1 .. Len(q) - 1
      /\ \A i \in 1 .. Len(q) - 1 : r[i] = IF i <= p - 1 THEN a[i] ELSE b[i - (p - 1)]
  <2>1. PICK x, y \in Seq(S) : x = a /\ y = b /\ Len(x) = p - 1 /\ Len(y) = Len(q) - p
    BY <1>1, <1>2
  <2>2. /\ x \o y \in Seq(S) /\ DOMAIN (x \o y) = 1 .. Len(x) + Len(y)
        /\ \A i \in 1 .. Len(x) + Len(y) :
              (x \o y)[i] = IF i <= Len(x) THEN x[i] ELSE y[i - Len(x)]
    BY Joined
  <2>3. r = x \o y
    BY <2>1 DEF RemoveAt
  <2>4. Len(x) + Len(y) = Len(q) - 1
    <3>1. (p - 1) + (Len(q) - p) = Len(q) - 1
      BY <1>0
    <3>2. QED
      BY <2>1, <3>1
  <2>5. QED
    BY <2>1, <2>2, <2>3, <2>4
<1>4. ASSUME NEW i \in 1 .. Len(q) - 1 PROVE r[i] = IF i < p THEN q[i] ELSE q[i + 1]
  <2>1. CASE i < p
    <3>1. i \in 1 .. p - 1 /\ i <= p - 1
      BY <1>0, <2>1
    <3>2. QED
      BY <1>1, <1>3, <2>1, <3>1
  <2>2. CASE ~ (i < p)
    <3>1. i - (p - 1) \in 1 .. Len(q) - p /\ p + (i - (p - 1)) = i + 1 /\ ~ (i <= p - 1)
      BY <1>0, <2>2
    <3>2. QED
      BY <1>2, <1>3, <2>2, <3>1
  <2>3. QED
    BY <2>1, <2>2
<1>5. QED
  BY <1>3, <1>4

\* An element taken out of a sequence that has it once.
LEMMA Removed ==
    ASSUME NEW S, NEW q \in Seq(S), IsInjective(q), NEW s \in ToSet(q)
    PROVE  /\ RemoveFirst(q, s) \in Seq(S)
           /\ ToSet(RemoveFirst(q, s)) = ToSet(q) \ {s}
           /\ IsInjective(RemoveFirst(q, s))
           /\ \E p \in DOMAIN q :
                 /\ DOMAIN RemoveFirst(q, s) = 1 .. Len(q) - 1
                 /\ \A i \in 1 .. Len(q) - 1 :
                       RemoveFirst(q, s)[i] = IF i < p THEN q[i] ELSE q[i + 1]
<1>1. PICK p \in 1 .. Len(q) : q[p] = s
  BY DEF ToSet
<1>2. /\ {i \in 1 .. Len(q) : q[i] = s} = {p} /\ p \in Int /\ Len(q) \in Nat
      /\ DOMAIN q = 1 .. Len(q)
  BY <1>1 DEF IsInjective
<1>3. Min({p}) = p
  BY <1>2 DEF Min
<1>4. SelectInSeq(q, LAMBDA v : v = s) = p
  BY <1>2, <1>3 DEF SelectInSeq
<1> DEFINE r == RemoveFirst(q, s)
<1>5. r = RemoveAt(q, p)
  BY <1>1, <1>4 DEF RemoveFirst
<1>6. /\ r \in Seq(S) /\ DOMAIN r = 1 .. Len(q) - 1
      /\ \A i \in 1 .. Len(q) - 1 : r[i] = IF i < p THEN q[i] ELSE q[i + 1]
  BY <1>5, RemovedAt
<1>7. IsInjective(r)
  <2> SUFFICES ASSUME NEW i \in 1 .. Len(q) - 1, NEW j \in 1 .. Len(q) - 1, r[i] = r[j]
               PROVE  i = j
    BY <1>6 DEF IsInjective
  <2>1. PICK a \in DOMAIN q : r[i] = q[a] /\ a = IF i < p THEN i ELSE i + 1
    BY <1>2, <1>6
  <2>2. PICK b \in DOMAIN q : r[j] = q[b] /\ b = IF j < p THEN j ELSE j + 1
    BY <1>2, <1>6
  <2>3. a = b
    BY <2>1, <2>2 DEF IsInjective
  <2>4. QED
    BY <1>2, <2>1, <2>2, <2>3
<1>8. ToSet(r) = ToSet(q) \ {s}
  <2>1. ASSUME NEW x \in ToSet(r) PROVE x \in ToSet(q) \ {s}
    <3>1. PICK i \in 1 .. Len(q) - 1 : x = r[i]
      BY <1>6 DEF ToSet
    <3>2. PICK a \in DOMAIN q : r[i] = q[a] /\ a # p
      <4>1. r[i] = IF i < p THEN q[i] ELSE q[i + 1]
        BY <1>6
      <4>2. CASE i < p
        BY <1>2, <4>1, <4>2
      <4>3. CASE ~ (i < p)
        BY <1>2, <4>1, <4>3
      <4>4. QED
        BY <4>2, <4>3
    <3>3. QED
      BY <1>1, <1>2, <3>1, <3>2 DEF ToSet, IsInjective
  <2>2. ASSUME NEW x \in ToSet(q) \ {s} PROVE x \in ToSet(r)
    <3>1. PICK a \in 1 .. Len(q) : x = q[a] /\ a # p
      BY <1>1, <1>2 DEF ToSet
    <3>2. PICK i \in 1 .. Len(q) - 1 : a = IF i < p THEN i ELSE i + 1
      <4>1. CASE a < p
        BY <1>2, <4>1
      <4>2. CASE a > p
        <5>1. a - 1 \in 1 .. Len(q) - 1 /\ a = (a - 1) + 1 /\ ~ (a - 1 < p)
          BY <1>2, <4>2
        <5>2. QED
          BY <5>1
      <4>3. QED
        BY <1>2, <3>1, <4>1, <4>2
    <3>3. r[i] = x
      BY <1>6, <3>1, <3>2
    <3>4. QED
      BY <1>6, <3>3 DEF ToSet
  <2>3. QED
    BY <2>1, <2>2
<1>9. QED
  BY <1>2, <1>6, <1>7, <1>8

\* An element put in at k: those before it stay where they are, the others move down.
LEMMA Inserted ==
    ASSUME NEW S, NEW q \in Seq(S), NEW k \in 1 .. Len(q) + 1, NEW e \in S
    PROVE  /\ InsertAt(q, k, e) \in Seq(S) /\ DOMAIN InsertAt(q, k, e) = 1 .. Len(q) + 1
           /\ \A i \in 1 .. Len(q) + 1 :
                 InsertAt(q, k, e)[i] = IF i < k THEN q[i] ELSE IF i = k THEN e ELSE q[i - 1]
           /\ ToSet(InsertAt(q, k, e)) = ToSet(q) \cup {e}
           /\ IsInjective(q) /\ e \notin ToSet(q) => IsInjective(InsertAt(q, k, e))
<1> DEFINE r == InsertAt(q, k, e)
           a == SubSeq(q, 1, k - 1)
           b == SubSeq(q, k, Len(q))
<1>0. Len(q) \in Nat /\ k \in Int /\ DOMAIN q = 1 .. Len(q)
  OBVIOUS
<1>1. /\ a \in Seq(S) /\ Len(a) = k - 1
      /\ \A i \in 1 .. k - 1 : a[i] = q[i]
  <2>1. 1 \in 1 .. Len(q) + 1 /\ k - 1 \in 1 - 1 .. Len(q) /\ (k - 1) - 1 + 1 = k - 1
    BY <1>0
  <2>2. \A i \in 1 .. k - 1 : 1 + i - 1 = i
    BY <1>0
  <2>3. QED
    BY <2>1, <2>2, Piece
<1>2. /\ b \in Seq(S) /\ Len(b) = Len(q) - k + 1
      /\ \A i \in 1 .. Len(q) - k + 1 : b[i] = q[k + i - 1]
  <2>1. Len(q) \in k - 1 .. Len(q)
    BY <1>0
  <2>2. QED
    BY <2>1, Piece
<1>3. /\ a \o <<e>> \in Seq(S) /\ Len(a \o <<e>>) = k
      /\ \A i \in 1 .. k : (a \o <<e>>)[i] = IF i < k THEN q[i] ELSE e
  <2>1. <<e>> \in Seq(S) /\ Len(<<e>>) = 1 /\ <<e>>[1] = e
    OBVIOUS
  <2>2. k - 1 \in Nat /\ 1 \in Nat /\ (k - 1) + 1 = k
    BY <1>0
  <2>3. /\ a \o <<e>> \in Seq(S) /\ DOMAIN (a \o <<e>>) = 1 .. k
        /\ \A i \in 1 .. k : (a \o <<e>>)[i] = IF i <= k - 1 THEN a[i] ELSE <<e>>[i - (k - 1)]
    <3>1. PICK x, y \in Seq(S) : x = a /\ y = <<e>> /\ Len(x) = k - 1 /\ Len(y) = 1
      BY <1>1, <2>1
    <3>2. /\ x \o y \in Seq(S) /\ DOMAIN (x \o y) = 1 .. Len(x) + Len(y)
          /\ \A i \in 1 .. Len(x) + Len(y) :
                (x \o y)[i] = IF i <= Len(x) THEN x[i] ELSE y[i - Len(x)]
      BY Joined
    <3>3. Len(x) + Len(y) = k
      BY <2>2, <3>1
    <3>4. QED
      BY <3>1, <3>2, <3>3
  <2>4. Len(a \o <<e>>) = k
    BY <1>0, <2>3, LenProperties
  <2>5. ASSUME NEW i \in 1 .. k PROVE (a \o <<e>>)[i] = IF i < k THEN q[i] ELSE e
    <3>1. CASE i < k
      <4>1. i \in 1 .. k - 1 /\ i <= k - 1
        BY <1>0, <3>1
      <4>2. QED
        BY <1>1, <2>3, <3>1, <4>1
    <3>2. CASE i = k
      <4>1. i - (k - 1) = 1 /\ ~ (i <= k - 1) /\ ~ (i < k)
        BY <1>0, <3>2
      <4>2. (a \o <<e>>)[i] = <<e>>[i - (k - 1)]
        BY <2>3, <4>1
      <4>3. QED
        BY <2>1, <4>1, <4>2
    <3>3. QED
      BY <1>0, <3>1, <3>2
  <2>6. QED
    BY <2>3, <2>4, <2>5
<1>4. /\ r \in Seq(S) /\ DOMAIN r = 1 .. Len(q) + 1
      /\ \A i \in 1 .. Len(q) + 1 : r[i] = IF i <= k THEN (a \o <<e>>)[i] ELSE b[i - k]
  <2>1. k \in Nat /\ Len(q) - k + 1 \in Nat /\ k + (Len(q) - k + 1) = Len(q) + 1
    BY <1>0
  <2>2. r = (a \o <<e>>) \o b
    BY DEF InsertAt
  <2>3. QED
    <3>1. PICK x, y \in Seq(S) : /\ x = a \o <<e>> /\ y = b
                                /\ Len(x) = k /\ Len(y) = Len(q) - k + 1
      BY <1>2, <1>3
    <3>2. /\ x \o y \in Seq(S) /\ DOMAIN (x \o y) = 1 .. Len(x) + Len(y)
          /\ \A i \in 1 .. Len(x) + Len(y) :
                (x \o y)[i] = IF i <= Len(x) THEN x[i] ELSE y[i - Len(x)]
      BY Joined
    <3>3. r = x \o y
      BY <2>2, <3>1
    <3>4. Len(x) + Len(y) = Len(q) + 1
      BY <2>1, <3>1
    <3>5. QED
      BY <3>1, <3>2, <3>3, <3>4
<1>5. ASSUME NEW i \in 1 .. Len(q) + 1
      PROVE  r[i] = IF i < k THEN q[i] ELSE IF i = k THEN e ELSE q[i - 1]
  <2>1. CASE i <= k
    <3>1. i \in 1 .. k
      BY <1>0, <2>1
    <3>2. r[i] = IF i < k THEN q[i] ELSE e
      BY <1>3, <1>4, <2>1, <3>1
    <3>3. i < k \/ i = k
      BY <1>0, <2>1
    <3>4. QED
      BY <1>0, <3>2, <3>3
  <2>2. CASE i > k
    <3>1. i - k \in 1 .. Len(q) - k + 1 /\ k + (i - k) - 1 = i - 1 /\ ~ (i <= k)
          /\ ~ (i < k) /\ i # k
      BY <1>0, <2>2
    <3>2. QED
      BY <1>2, <1>4, <3>1
  <2>3. QED
    BY <1>0, <2>1, <2>2
<1>6. ToSet(r) = ToSet(q) \cup {e}
  <2>1. ASSUME NEW x \in ToSet(r) PROVE x \in ToSet(q) \cup {e}
    <3>1. PICK i \in 1 .. Len(q) + 1 : x = r[i]
      BY <1>4 DEF ToSet
    <3>2. \/ i < k /\ i \in DOMAIN q
          \/ i = k
          \/ ~ (i < k) /\ i # k /\ i - 1 \in DOMAIN q
      BY <1>0
    <3>3. QED
      BY <1>5, <3>1, <3>2 DEF ToSet
  <2>2. ASSUME NEW x \in ToSet(q) \cup {e} PROVE x \in ToSet(r)
    <3>1. CASE x = e
      <4>1. k \in 1 .. Len(q) + 1 /\ ~ (k < k)
        BY <1>0
      <4>2. r[k] = e
        BY <1>5, <4>1
      <4>3. QED
        BY <1>4, <3>1, <4>1, <4>2 DEF ToSet
    <3>2. CASE x \in ToSet(q)
      <4>1. PICK j \in 1 .. Len(q) : x = q[j]
        BY <1>0, <3>2 DEF ToSet
      <4>2. CASE j < k
        <5>1. j \in 1 .. Len(q) + 1
          BY <1>0
        <5>2. QED
          BY <1>4, <1>5, <4>1, <4>2, <5>1 DEF ToSet
      <4>3. CASE ~ (j < k)
        <5>1. j + 1 \in 1 .. Len(q) + 1 /\ ~ (j + 1 < k) /\ j + 1 # k /\ (j + 1) - 1 = j
          BY <1>0, <4>3
        <5>2. r[j + 1] = x
          BY <1>5, <4>1, <5>1
        <5>3. QED
          BY <1>4, <5>1, <5>2 DEF ToSet
      <4>4. QED
        BY <4>2, <4>3
    <3>3. QED
      BY <3>1, <3>2
  <2>3. QED
    BY <2>1, <2>2
<1>7. ASSUME IsInjective(q), e \notin ToSet(q) PROVE IsInjective(r)
  <2> SUFFICES ASSUME NEW i \in 1 .. Len(q) + 1, NEW j \in 1 .. Len(q) + 1, r[i] = r[j]
               PROVE  i = j
    BY <1>4 DEF IsInjective
  <2>1. \/ i = k /\ r[i] = e
        \/ i < k /\ i \in DOMAIN q /\ r[i] = q[i]
        \/ i > k /\ i - 1 \in DOMAIN q /\ r[i] = q[i - 1]
    BY <1>0, <1>5
  <2>2. \/ j = k /\ r[j] = e
        \/ j < k /\ j \in DOMAIN q /\ r[j] = q[j]
        \/ j > k /\ j - 1 \in DOMAIN q /\ r[j] = q[j - 1]
    BY <1>0, <1>5
  <2>3. \A x \in DOMAIN q : q[x] # e
    BY <1>7 DEF ToSet
  <2>4. \A x, y \in DOMAIN q : q[x] = q[y] => x = y
    BY <1>7 DEF IsInjective
  <2>5. CASE i = k \/ j = k
    BY <2>1, <2>2, <2>3, <2>5
  <2>6. CASE i # k /\ j # k
    BY <1>0, <2>1, <2>2, <2>4, <2>6
  <2>7. QED
    BY <2>5, <2>6
<1>8. QED
  BY <1>4, <1>5, <1>6, <1>7

\* A sequence without repetition is as long as it has elements.
LEMMA InjectiveLen ==
    ASSUME NEW S, NEW q \in Seq(S), IsInjective(q)
    PROVE  IsFiniteSet(ToSet(q)) /\ Len(q) = Cardinality(ToSet(q))
<1>1. DOMAIN q = 1 .. Len(q) /\ Len(q) \in Nat
  OBVIOUS
<1>2. q \in Bijection(1 .. Len(q), ToSet(q))
  <2>1. q \in [1 .. Len(q) -> ToSet(q)]
    BY <1>1 DEF ToSet
  <2>2. q \in Surjection(1 .. Len(q), ToSet(q))
    BY <1>1, <2>1 DEF Surjection, ToSet
  <2>3. q \in Injection(1 .. Len(q), ToSet(q))
    BY <2>1 DEF Injection
  <2>4. QED
    BY <2>2, <2>3 DEF Bijection
<1>3. IsFiniteSet(1 .. Len(q)) /\ Cardinality(1 .. Len(q)) = Len(q)
  <2>1. 1 \in Int /\ Len(q) \in Int
    BY <1>1
  <2>2. /\ IsFiniteSet(1 .. Len(q))
        /\ Cardinality(1 .. Len(q)) = IF 1 > Len(q) THEN 0 ELSE Len(q) - 1 + 1
    BY <2>1, FS_Interval
  <2>3. (IF 1 > Len(q) THEN 0 ELSE Len(q) - 1 + 1) = Len(q)
    BY <1>1
  <2>4. QED
    BY <2>2, <2>3
<1>4. QED
  BY <1>2, <1>3, FS_Bijection DEF ExistsBijection

\* The indices that satisfy something only an initial part of a sequence does are the
\* first ones.
LEMMA InitialPart ==
    ASSUME NEW n \in Nat, NEW D \in SUBSET (1 .. n),
           \A j \in D : \A i \in 1 .. n : i < j => i \in D
    PROVE  Cardinality(D) \in 0 .. n /\ D = 1 .. Cardinality(D)
<1>1. \A m \in Nat : IsFiniteSet(1 .. m) /\ Cardinality(1 .. m) = m
  <2> SUFFICES ASSUME NEW m \in Nat PROVE IsFiniteSet(1 .. m) /\ Cardinality(1 .. m) = m
    OBVIOUS
  <2>1. 1 \in Int /\ m \in Int
    OBVIOUS
  <2>2. /\ IsFiniteSet(1 .. m)
        /\ Cardinality(1 .. m) = IF 1 > m THEN 0 ELSE m - 1 + 1
    BY <2>1, FS_Interval
  <2>3. (IF 1 > m THEN 0 ELSE m - 1 + 1) = m
    OBVIOUS
  <2>4. QED
    BY <2>2, <2>3
<1>2. IsFiniteSet(D) /\ Cardinality(D) <= n
  <2>1. IsFiniteSet(1 .. n) /\ Cardinality(1 .. n) = n
    BY <1>1
  <2>2. QED
    BY <2>1, FS_Subset
<1>3. PICK k \in Nat : k = Cardinality(D)
  BY <1>2, FS_CardinalityType
<1>4. D \subseteq 1 .. k
  <2> SUFFICES ASSUME NEW j \in D PROVE j <= k
    OBVIOUS
  <2>1. 1 .. j \in SUBSET D /\ j \in Nat
    OBVIOUS
  <2>2. Cardinality(1 .. j) <= Cardinality(D) /\ Cardinality(1 .. j) = j
    BY <1>1, <1>2, <2>1, FS_Subset
  <2>3. QED
    BY <1>3, <2>2
<1>5. D = 1 .. k
  <2>1. IsFiniteSet(1 .. k) /\ Cardinality(1 .. k) = Cardinality(D)
    BY <1>1, <1>3
  <2>2. QED
    BY <1>4, <2>1, FS_Subset
<1>6. QED
  BY <1>2, <1>3, <1>5
=============================================================================
