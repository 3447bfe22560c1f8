------------------------------ MODULE TDHB_proofs ------------------------------
(***************************************************************************)
(* Proofs about TDHB, for heads and bodies of any length, a connection of  *)
(* any capacity and any number of messages: a blocking peer waits no       *)
(* longer than its timeout, a nonblocking one takes only the end of the    *)
(* connection between two messages for an orderly one, and as long as      *)
(* every head fits and goes through in one piece each message is received  *)
(* byte by byte as it was sent.                                            *)
(***************************************************************************)
EXTENDS TDHB, SequenceLemmas

\* Both peers are connected at once.
ConnectInv ==
    /\ phase["client"] = "unconnected" => phase["server"] = "unconnected"
    /\ \A p \in Peers : phase[p] = "unconnected" => received[p] = <<>>

\* What is left of the timeout and what a peer has waited are the timeout, or less, and
\* what the clock has been set back by.
WaitInv ==
    \A p \in blocking :
        /\ waited[p] <= Timeout + 1 + setback[p]
        /\ phase[p] # "closed" => waited[p] + timeout[p] <= Timeout + setback[p]

\* A nonblocking receiver of which the whole head remains has read nothing.
HeadInv ==
    \A p \in Peers \ blocking :
        /\ phase[p] = "receive" /\ head_remain_len[p] = head_len => received[p] = <<>>
        /\ returned[p] = "CLOSE" => phase[p] = "closed" /\ received[p] = <<>>

-----------------------------------------------------------------------------
(* The peers in step                                                       *)

NewContext(p) == head_remain_len[p] = head_len /\ body_len[p] = 0 /\ body_remain_len[p] = 0

Sending(p) == phase[p] \in {"send", "blocked"}

\* The bytes of its message a sender has put on the wire.
Written(p) ==
    copied[p] + IF head_remain_len[p] > 0 THEN 0
                ELSE head_len + body_len[p] - body_remain_len[p]

\* A sender within message n: its head is through, or all of it is left.
SenderInv(p, n) ==
    /\ body_len[p] = lens[n] /\ body_remain_len[p] <= lens[n]
    /\ \/ head_remain_len[p] = 0
       \/ head_remain_len[p] = head_len /\ body_remain_len[p] = lens[n]
    /\ Written(p) < head_len + lens[n]

\* A receiver of message n has all of its head and some of the body, or nothing.
ReceiverInv(p, n) ==
    \/ NewContext(p) /\ received[p] = <<>>
    \/ /\ head_remain_len[p] = 0
       /\ body_len[p] = lens[n] /\ body_remain_len[p] \in 1 .. lens[n]
       /\ Len(received[p]) = head_len + lens[n] - body_remain_len[p]

\* The bytes a peer has received, and those on the way to it, are the next ones of
\* message n, as many as len.
Carried(p, n, len) ==
    /\ \A i \in 1 .. Len(received[p]) : received[p][i] = <<n, i>>
    /\ \A i \in 1 .. Len(wire[p]) : wire[p][i] = <<n, Len(received[p]) + i>>
    /\ Len(received[p]) + Len(wire[p]) = len

\* p is the one that sent, or sends, the last message, n.
TurnInv(p, q, n) ==
    /\ n = Len(lens)
    /\ phase[p] \in {"send", "blocked", "receive", "closed"}
    /\ phase[q] \in {"receive", "idle", "closed"}
    /\ wire[p] = <<>>
    /\ Sending(p) => SenderInv(p, n)
    /\ phase[p] = "receive" => NewContext(p) /\ received[p] = <<>>
    /\ phase[q] = "receive" =>
          /\ ReceiverInv(q, n)
          /\ \E len \in 0 .. head_len + lens[n] :
                /\ Carried(q, n, len)
                /\ Sending(p) => len = Written(p)
                /\ phase[p] = "receive" => len = head_len + lens[n]
    /\ phase[q] = "idle" =>
          /\ phase[p] \in {"receive", "closed"}
          /\ wire[q] = <<>>
          /\ Carried(q, n, head_len + lens[n])

\* There is no message yet.
StartInv ==
    /\ lens = <<>>
    /\ phase["client"] \in {"unconnected", "idle", "closed"}
    /\ phase["server"] \in {"unconnected", "receive", "closed"}
    /\ phase["client"] = "idle" => phase["server"] # "unconnected"
    /\ wire["client"] = <<>> /\ wire["server"] = <<>>
    /\ phase["server"] # "closed" => NewContext("server") /\ received["server"] = <<>>

InStep ==
    \/ StartInv
    \/ \E p \in Peers : msg[p] > msg[Other(p)] /\ TurnInv(p, Other(p), msg[p])

\* A write that has put bytes on the wire and not returned is one that blocks.
CopiedInv == \A p \in Peers : phase[p] \notin {"blocked", "closed"} => copied[p] = 0

StreamInv == CopiedInv /\ (split = {} /\ HeadsFit => InStep)

-----------------------------------------------------------------------------
(* Messages                                                                *)

Byte == Nat \X Nat

\* A function on 1 .. n is a sequence of that length.
LEMMA FunctionIsSeq ==
    ASSUME NEW S, NEW n \in Nat, NEW f \in [1 .. n -> S]
    PROVE  f \in Seq(S) /\ Len(f) = n
<1>1. f \in Seq(S)
  BY SeqDef
<1>2. Len(f) \in Nat /\ DOMAIN f = 1 .. Len(f) /\ DOMAIN f = 1 .. n
  BY <1>1, LenProperties
<1>3. QED
  BY <1>1, <1>2

\* Bytes are pairs of numbers, and so are those of a message.
LEMMA MessageFacts ==
    ASSUME lens \in Seq(BodyLens), NEW n \in 1 .. Len(lens)
    PROVE  /\ lens[n] \in BodyLens /\ lens[n] \in Nat /\ head_len \in Nat
           /\ Message(n) \in Seq(Byte) /\ Len(Message(n)) = head_len + lens[n]
           /\ \A i \in 1 .. head_len + lens[n] : Message(n)[i] = <<n, i>>
           /\ HeadOf(n) \in Seq(Byte) /\ Len(HeadOf(n)) = head_len
           /\ \A i \in 1 .. head_len : HeadOf(n)[i] = <<n, i>>
<1>1. lens[n] \in BodyLens /\ lens[n] \in Nat /\ head_len \in Nat /\ n \in Nat
  <2>1. lens \in [1 .. Len(lens) -> BodyLens] /\ Len(lens) \in Nat
    BY LenProperties
  <2>2. n \in Nat /\ lens[n] \in BodyLens
    BY <2>1
  <2>3. head_len \in Nat /\ BodyLens \subseteq Nat
    BY TDHBAssumption
  <2>4. QED
    BY <2>2, <2>3
<1>2. /\ Message(n) \in [1 .. head_len + lens[n] -> Byte]
      /\ \A i \in 1 .. head_len + lens[n] : Message(n)[i] = <<n, i>>
  BY <1>1 DEF Message, Byte
<1>3. /\ HeadOf(n) \in [1 .. head_len -> Byte]
      /\ \A i \in 1 .. head_len : HeadOf(n)[i] = <<n, i>>
  BY <1>1 DEF HeadOf, Byte
<1>4. head_len + lens[n] \in Nat
  BY <1>1
<1>5. QED
  BY <1>1, <1>2, <1>3, <1>4, FunctionIsSeq

\* A head shows a number, and the length itself if that fits.
LEMMA SentFacts ==
    ASSUME NEW len \in Nat
    PROVE  /\ Sent(len) \subseteq Nat
           /\ Fits(len) => Sent(len) = {len}
  BY DEF Sent

\* What is taken for the length of a body is a number, and with all of a head
\* that fits it is the length of the body the head was made from.
LEMMA LengthInFacts ==
    ASSUME lens \in Seq(BodyLens), NEW bytes
    PROVE  /\ LengthIn(bytes) \subseteq Int
           /\ \A n \in 1 .. Len(lens) :
                 bytes = HeadOf(n) /\ Fits(lens[n]) => LengthIn(bytes) = {lens[n]}
<1> DEFINE of == {m \in 1 .. Len(lens) : bytes = HeadOf(m)}
           made == UNION {Sent(lens[n]) : n \in of}
<1>1. \A m \in 1 .. Len(lens) : lens[m] \in Nat
  BY MessageFacts
<1>2. made \subseteq Nat
  BY <1>1, SentFacts
<1>3. LengthIn(bytes) = IF made # {} THEN made ELSE StrayLens
  BY DEF LengthIn
<1>4. LengthIn(bytes) \subseteq Int
  <2>1. StrayLens \subseteq Int
    BY TDHBAssumption
  <2> HIDE DEF made
  <2>2. QED
    BY <1>2, <1>3, <2>1
<1>5. ASSUME NEW n \in 1 .. Len(lens), bytes = HeadOf(n), Fits(lens[n])
      PROVE  LengthIn(bytes) = {lens[n]}
  <2>1. ASSUME NEW m \in of PROVE m = n
    <3>0. 1 \in 1 .. head_len /\ m \in 1 .. Len(lens)
      BY TDHBAssumption
    <3>1. HeadOf(m)[1] = <<m, 1>> /\ HeadOf(n)[1] = <<n, 1>>
      BY <3>0, MessageFacts
    <3>2. HeadOf(m) = HeadOf(n)
      BY <1>5
    <3>3. QED
      BY <3>1, <3>2
  <2>2. of = {n}
    BY <1>5, <2>1
  <2>3. made = Sent(lens[n])
    <3> HIDE DEF of
    <3>1. QED
      BY <2>2
  <2>4. Sent(lens[n]) = {lens[n]}
    BY <1>1, <1>5, SentFacts
  <2> HIDE DEF made
  <2>5. QED
    BY <1>3, <2>3, <2>4
<1>6. QED
  BY <1>4, <1>5

\* What is left to write are bytes, as many as the context says.
LEMMA UnsentFacts ==
    ASSUME TypeOK, NEW p \in Peers, Sending(p)
    PROVE  /\ Unsent(p) \in Seq(Byte)
           /\ Len(Unsent(p)) = head_remain_len[p] + body_remain_len[p]
           /\ msg[p] \in 1 .. Len(lens) /\ SenderInv(p, msg[p]) =>
                 \A i \in 1 .. head_remain_len[p] + body_remain_len[p] :
                    Unsent(p)[i] = <<msg[p], Written(p) - copied[p] + i>>
<1> DEFINE n      == msg[p]
           hr     == head_remain_len[p]
           br     == body_remain_len[p]
           offset == IF hr > 0 THEN 0 ELSE body_len[p] - br
           a      == [i \in 1 .. hr |-> <<n, head_len - hr + i>>]
           b      == [i \in 1 .. br |-> BodyByte(n, offset + i - 1)]
<1>1. /\ n \in Nat /\ hr \in 0 .. head_len /\ br \in Nat /\ body_len[p] \in Nat
      /\ head_len \in Nat /\ copied[p] \in Nat
  BY TDHBAssumption DEF TypeOK, Types, SendersCount, Sending
<1>2. Unsent(p) = a \o b
  BY DEF Unsent
<1>3. a \in Seq(Byte) /\ Len(a) = hr
  <2>1. a \in [1 .. hr -> Byte] /\ hr \in Nat
    BY <1>1 DEF Byte
  <2>2. QED
    BY <2>1, FunctionIsSeq
<1>4. \A o \in Int : BodyByte(n, o) \in Byte
  BY <1>1 DEF BodyByte, Byte
<1>5. b \in Seq(Byte) /\ Len(b) = br
  <2>1. b \in [1 .. br -> Byte]
    BY <1>1, <1>4
  <2>2. QED
    BY <1>1, <2>1, FunctionIsSeq
<1>6. \A i \in 1 .. hr : a[i] = <<n, head_len - hr + i>>
  OBVIOUS
<1>7. \A i \in 1 .. br : b[i] = BodyByte(n, offset + i - 1)
  OBVIOUS
<1> HIDE DEF a, b
<1>8. /\ a \o b \in Seq(Byte) /\ Len(a \o b) = hr + br
      /\ \A i \in 1 .. hr + br : (a \o b)[i] = IF i <= hr THEN a[i] ELSE b[i - hr]
  <2>1. PICK x, y \in Seq(Byte) : x = a /\ y = b /\ Len(x) = hr /\ Len(y) = br
    BY <1>3, <1>5
  <2>2. /\ x \o y \in Seq(Byte) /\ Len(x \o y) = Len(x) + Len(y)
        /\ \A i \in 1 .. Len(x) + Len(y) :
              (x \o y)[i] = IF i <= Len(x) THEN x[i] ELSE y[i - Len(x)]
    BY ConcatProperties
  <2>3. QED
    BY <2>1, <2>2
<1>9. ASSUME n \in 1 .. Len(lens), SenderInv(p, n), NEW i \in 1 .. hr + br
      PROVE  Unsent(p)[i] = <<n, Written(p) - copied[p] + i>>
  <2>1. /\ lens[n] \in Nat /\ body_len[p] = lens[n] /\ br <= lens[n]
        /\ hr = 0 \/ (hr = head_len /\ br = lens[n])
        /\ head_len > 0
    <3>1. lens[n] \in Nat
      BY <1>9, MessageFacts DEF TypeOK, Types
    <3>2. /\ body_len[p] = lens[n] /\ br <= lens[n]
          /\ hr = 0 \/ (hr = head_len /\ br = lens[n])
      BY <1>9 DEF SenderInv
    <3>3. head_len > 0
      BY TDHBAssumption
    <3>4. QED
      BY <3>1, <3>2, <3>3
  <2>2. Written(p) - copied[p] = IF hr > 0 THEN 0 ELSE head_len + lens[n] - br
    BY <1>1, <2>1 DEF Written
  <2>3. CASE i <= hr
    <3>1. i \in 1 .. hr /\ head_len - hr + i = i /\ hr > 0
      BY <1>1, <2>1, <2>3
    <3>2. Unsent(p)[i] = <<n, head_len - hr + i>>
      BY <1>2, <1>6, <1>8, <2>3, <3>1
    <3>3. head_len - hr + i = Written(p) - copied[p] + i
      BY <2>2, <3>1
    <3>4. QED
      BY <3>2, <3>3
  <2>4. CASE ~ (i <= hr)
    <3>1. i - hr \in 1 .. br
      BY <1>1, <2>4
    <3>2. Unsent(p)[i] = BodyByte(n, offset + (i - hr) - 1)
      BY <1>2, <1>7, <1>8, <2>4, <3>1
    <3>3. offset + (i - hr) - 1 \in 0 .. lens[n] - 1
      BY <1>1, <2>1, <3>1
    <3>4. BodyByte(n, offset + (i - hr) - 1) = <<n, head_len + (offset + (i - hr) - 1) + 1>>
      BY <3>3 DEF BodyByte
    <3>5. head_len + (offset + (i - hr) - 1) + 1 = Written(p) - copied[p] + i
      BY <1>1, <2>1, <2>2, <3>1
    <3>6. QED
      BY <3>2, <3>4, <3>5
  <2>5. QED
    BY <2>3, <2>4
<1>10. QED
  BY <1>2, <1>8, <1>9

\* Pieces of what is on the way to a peer, or to be written, are bytes.
LEMMA PieceFacts ==
    ASSUME NEW s \in Seq(Byte), NEW m \in Nat, NEW n \in Nat, n <= Len(s), 1 <= m, m <= n + 1
    PROVE  /\ SubSeq(s, m, n) \in Seq(Byte)
           /\ Len(SubSeq(s, m, n)) = n - m + 1
           /\ \A i \in 1 .. n - m + 1 : SubSeq(s, m, n)[i] = s[m + i - 1]
<1>1. m \in 1 .. Len(s) + 1 /\ n \in m - 1 .. Len(s)
  OBVIOUS
<1>2. QED
  BY <1>1, Piece

-----------------------------------------------------------------------------
(* Types                                                                   *)

TimeTyped ==
    timeout \in [Peers -> Int] /\ waited \in [Peers -> Nat] /\ setback \in [Peers -> Nat]

\* What select() does to the time of a peer, and to no other.
LEMMA SelectFacts ==
    ASSUME TypeOK, NEW p \in Peers, Select(p)
    PROVE  /\ TimeTyped'
           /\ \A o \in Peers \ {p} : /\ timeout'[o] = timeout[o] /\ waited'[o] = waited[o]
                                     /\ setback'[o] = setback[o]
           /\ p \in blocking =>
                 /\ timeout[p] >= 0
                 /\ \E d \in 0 .. timeout[p] + 1, b \in Nat :
                       /\ waited'[p] = waited[p] + d /\ setback'[p] = setback[p] + b
                       /\ timeout'[p] <= timeout[p] - d + b
<1>1. TimeTyped
  BY DEF TypeOK, Types, TimeTyped
<1>2. CASE p \notin blocking
  BY <1>1, <1>2 DEF Select, time, TimeTyped
<1>3. CASE p \in blocking
  <2>1. PICK d \in 0 .. timeout[p] + 1, s \in ClockSteps :
           /\ waited' = [waited EXCEPT ![p] = @ + d]
           /\ timeout' \in {[timeout EXCEPT ![p] = @ - d + s],
                            [timeout EXCEPT ![p] = @ - 2 * d + s]}
           /\ setback' = [setback EXCEPT ![p] = IF s > 0 THEN @ + s ELSE @]
    BY <1>3 DEF Select
  <2>2. s \in Int /\ timeout[p] \in Int /\ timeout[p] >= 0 /\ d \in Nat
    BY <1>1, <1>3, <2>1, TDHBAssumption DEF Select, TimeTyped
  <2>3. PICK b \in Nat : b = (IF s > 0 THEN s ELSE 0) /\ b >= s
    BY <2>2
  <2>4. setback' = [setback EXCEPT ![p] = @ + b]
    <3>1. CASE s > 0
      BY <2>1, <2>3, <3>1
    <3>2. CASE ~ (s > 0)
      <4>1. setback[p] + b = setback[p]
        BY <1>1, <2>3, <3>2 DEF TimeTyped
      <4>2. QED
        BY <2>1, <3>2, <4>1
    <3>3. QED
      BY <3>1, <3>2
  <2>5. PICK e \in {d, 2 * d} : timeout' = [timeout EXCEPT ![p] = @ - e + s]
    BY <2>1
  <2>6. e \in Int /\ e >= d
    BY <2>2, <2>5
  <2>7. timeout[p] - e + s \in Int /\ timeout[p] - e + s <= timeout[p] - d + b
    BY <2>2, <2>3, <2>6
  <2>8. waited[p] + d \in Nat /\ setback[p] + b \in Nat
    BY <1>1, <2>2, <2>3 DEF TimeTyped
  <2>9. QED
    BY <1>1, <2>1, <2>2, <2>3, <2>4, <2>5, <2>7, <2>8 DEF TimeTyped
<1>4. QED
  BY <1>2, <1>3

\* What remains of a message after a write is a number of bytes, and k of one begun before.
LEMMA WriteFacts ==
    ASSUME TypeOK, NEW p \in Peers, Sending(p), NEW k \in 1 .. Len(Unsent(p))
    PROVE  /\ (IF k >= head_remain_len[p] THEN 0 ELSE head_remain_len[p] - k) \in 0 .. head_len
           /\ BodyLeft(p, k) \in Nat
<1>1. /\ head_remain_len[p] \in 0 .. head_len /\ body_remain_len[p] \in Nat /\ head_len \in Nat
  BY TDHBAssumption DEF TypeOK, Types, SendersCount, Sending
<1>2. k \in 1 .. head_remain_len[p] + body_remain_len[p]
  BY UnsentFacts
<1>3. (IF k >= head_remain_len[p] THEN 0 ELSE head_remain_len[p] - k) \in 0 .. head_len
  BY <1>1, <1>2
<1>4. BodyLeft(p, k) \in Nat
  BY <1>1, <1>2 DEF BodyLeft
<1>5. QED
  BY <1>3, <1>4

\* One turn of a loop that writes: bytes k0 + 1 .. k of what is left go on the wire, and
\* the write returns or blocks.
LEMMA WriteCases ==
    ASSUME TypeOK, NEW p \in Peers, WriteSome(p)
    PROVE  /\ Other(p) \in Peers \ {p} /\ phase[Other(p)] # "closed"
           /\ \E k \in 1 .. Len(Unsent(p)) :
                /\ copied[p] < k
                /\ wire' = [wire EXCEPT ![Other(p)] = @ \o SubSeq(Unsent(p), copied[p] + 1, k)]
                /\ SubSeq(Unsent(p), copied[p] + 1, k) \in Seq(Byte)
                /\ Len(SubSeq(Unsent(p), copied[p] + 1, k)) = k - copied[p]
                /\ \A i \in 1 .. k - copied[p] :
                      SubSeq(Unsent(p), copied[p] + 1, k)[i] = Unsent(p)[copied[p] + i]
                /\ \/ (p \in blocking => k = Len(Unsent(p))) /\ WriteReturns(p, k)
                   \/ WriteBlocks(p, k)
<1>1. Other(p) \in Peers \ {p} /\ phase[Other(p)] # "closed"
  BY DEF Other, Peers, WriteSome
<1>2. PICK k \in copied[p] + 1 .. Len(Unsent(p)) :
           /\ wire' = [wire EXCEPT ![Other(p)] = @ \o SubSeq(Unsent(p), copied[p] + 1, k)]
           /\ \/ (p \in blocking => k = Len(Unsent(p))) /\ WriteReturns(p, k)
              \/ WriteBlocks(p, k)
  BY DEF WriteSome
<1>3. Unsent(p) \in Seq(Byte) /\ copied[p] \in Nat
  BY UnsentFacts DEF TypeOK, Types, WriteSome, Sending
<1>4. /\ Len(Unsent(p)) \in Nat /\ k \in 1 .. Len(Unsent(p)) /\ copied[p] < k
      /\ copied[p] + 1 \in Nat /\ k \in Nat /\ 1 <= copied[p] + 1 /\ copied[p] + 1 <= k + 1
      /\ k - (copied[p] + 1) + 1 = k - copied[p]
      /\ \A i \in 1 .. k - copied[p] : copied[p] + 1 + i - 1 = copied[p] + i
  BY <1>2, <1>3, LenProperties
<1>5. PICK u \in Seq(Byte), m \in Nat : u = Unsent(p) /\ m = copied[p] + 1
  BY <1>3, <1>4
<1>6. /\ SubSeq(u, m, k) \in Seq(Byte)
      /\ Len(SubSeq(u, m, k)) = k - m + 1
      /\ \A i \in 1 .. k - m + 1 : SubSeq(u, m, k)[i] = u[m + i - 1]
  BY <1>4, <1>5, PieceFacts
<1>7. /\ SubSeq(Unsent(p), copied[p] + 1, k) \in Seq(Byte)
      /\ Len(SubSeq(Unsent(p), copied[p] + 1, k)) = k - copied[p]
      /\ \A i \in 1 .. k - copied[p] :
            SubSeq(Unsent(p), copied[p] + 1, k)[i] = Unsent(p)[copied[p] + i]
  <2>1. k - m + 1 = k - copied[p]
    BY <1>4, <1>5
  <2>2. \A i \in 1 .. k - m + 1 : m + i - 1 = copied[p] + i
    BY <1>4, <1>5, <2>1
  <2>3. QED
    BY <1>5, <1>6, <2>1, <2>2
<1>8. k \in 1 .. Len(Unsent(p)) /\ copied[p] < k
  BY <1>4
<1>9. QED
  BY <1>1, <1>2, <1>7, <1>8

\* One turn of a loop that reads: the first k bytes go from the wire to what is received.
LEMMA ReadFacts ==
    ASSUME TypeOK, NEW p \in Peers, NEW k \in Nat, k <= Len(wire[p])
    PROVE  /\ received[p] \o SubSeq(wire[p], 1, k) \in Seq(Byte)
           /\ Len(received[p] \o SubSeq(wire[p], 1, k)) = Len(received[p]) + k
           /\ \A i \in 1 .. Len(received[p]) + k :
                (received[p] \o SubSeq(wire[p], 1, k))[i] =
                    IF i <= Len(received[p]) THEN received[p][i] ELSE wire[p][i - Len(received[p])]
           /\ SubSeq(wire[p], k + 1, Len(wire[p])) \in Seq(Byte)
           /\ Len(SubSeq(wire[p], k + 1, Len(wire[p]))) = Len(wire[p]) - k
           /\ \A i \in 1 .. Len(wire[p]) - k :
                SubSeq(wire[p], k + 1, Len(wire[p]))[i] = wire[p][k + i]
<1>1. PICK r, w \in Seq(Byte) : r = received[p] /\ w = wire[p]
  BY DEF TypeOK, Types, Byte
<1>2. Len(r) \in Nat /\ Len(w) \in Nat /\ k <= Len(w)
  BY <1>1, LenProperties
<1>3. PICK a \in Seq(Byte) : /\ a = SubSeq(w, 1, k) /\ Len(a) = k
                             /\ \A i \in 1 .. k : a[i] = w[i]
  <2>1. 1 \in Nat /\ 1 <= 1 /\ 1 <= k + 1 /\ k - 1 + 1 = k /\ \A i \in 1 .. k : 1 + i - 1 = i
    OBVIOUS
  <2>2. /\ SubSeq(w, 1, k) \in Seq(Byte) /\ Len(SubSeq(w, 1, k)) = k - 1 + 1
        /\ \A i \in 1 .. k - 1 + 1 : SubSeq(w, 1, k)[i] = w[1 + i - 1]
    BY <1>2, <2>1, PieceFacts
  <2>3. QED
    BY <2>1, <2>2
<1>4. PICK b \in Seq(Byte) : /\ b = SubSeq(w, k + 1, Len(w)) /\ Len(b) = Len(w) - k
                             /\ \A i \in 1 .. Len(w) - k : b[i] = w[k + i]
  <2>0. k + 1 \in Nat
    OBVIOUS
  <2>1. PICK m \in Nat, n \in Nat : m = k + 1 /\ n = Len(w)
    BY <1>2, <2>0, Zenon
  <2>2. /\ n <= Len(w) /\ 1 <= m /\ m <= n + 1 /\ n - m + 1 = Len(w) - k
        /\ \A i \in 1 .. Len(w) - k : m + i - 1 = k + i
    BY <1>2, <2>1
  <2>3. /\ SubSeq(w, m, n) \in Seq(Byte) /\ Len(SubSeq(w, m, n)) = n - m + 1
        /\ \A i \in 1 .. n - m + 1 : SubSeq(w, m, n)[i] = w[m + i - 1]
    BY <2>2, PieceFacts
  <2>4. PICK b \in Seq(Byte) : b = SubSeq(w, m, n)
    BY <2>3
  <2>5. Len(b) = Len(w) - k /\ \A i \in 1 .. Len(w) - k : b[i] = w[k + i]
    BY <2>2, <2>3, <2>4
  <2>6. QED
    BY <2>1, <2>4, <2>5
<1>5. /\ r \o a \in Seq(Byte) /\ Len(r \o a) = Len(r) + Len(a)
      /\ \A i \in 1 .. Len(r) + Len(a) : (r \o a)[i] = IF i <= Len(r) THEN r[i] ELSE a[i - Len(r)]
  BY ConcatProperties
<1>6. ASSUME NEW i \in 1 .. Len(r) + k
      PROVE  (r \o a)[i] = IF i <= Len(r) THEN r[i] ELSE w[i - Len(r)]
  <2>1. ~ (i <= Len(r)) => i - Len(r) \in 1 .. k
    BY <1>2
  <2>2. QED
    BY <1>3, <1>5, <2>1
<1>7. QED
  BY <1>1, <1>3, <1>4, <1>5, <1>6

\* Every step keeps the types.
LEMMA NextTypes == TypeOK /\ [Next]_vars => Types'
<1> SUFFICES ASSUME TypeOK, [Next]_vars PROVE Types'
  OBVIOUS
<1>t. /\ head_len \in Nat /\ BodyLens \subseteq Nat /\ Len(lens) \in Nat
      /\ \A p \in Peers : Len(received[p]) \in Nat /\ Len(wire[p]) \in Nat
  BY TDHBAssumption, LenProperties DEF TypeOK, Types
<1>1. CASE TDHBConnect
  <2>1. /\ phase' \in [Peers -> Phases]
        /\ returned' \in [Peers -> {"none", "done", "CLOSE", "ERROR"}]
    BY <1>1 DEF TypeOK, Types, TDHBConnect, Phases
  <2>2. UNCHANGED <<blocking, context, lens, msg, received, wire, time, split>>
    BY <1>1 DEF TDHBConnect
  <2>3. QED
    BY <2>1, <2>2 DEF TypeOK, Types, context, time
<1>2. ASSUME NEW p \in Peers, NEW v \in {"done", "CLOSE", "ERROR"}, Close(p, v),
             UNCHANGED context, TimeTyped'
      PROVE  Types'
  BY <1>2 DEF TypeOK, Types, TimeTyped, Close, context, Phases
<1>3. CASE Disconnect
  <2>1. Close("client", "done") /\ UNCHANGED context /\ UNCHANGED time /\ "client" \in Peers
    BY <1>3 DEF Disconnect, Peers
  <2>2. TimeTyped'
    BY <2>1 DEF TypeOK, Types, TimeTyped, time
  <2>3. QED
    BY <1>2, <2>1, <2>2
<1>4. ASSUME NEW p \in Peers, StartSend(p) PROVE Types'
  <2>1. PICK n \in BodyLens :
           /\ lens' = Append(lens, n)
           /\ msg' = [msg EXCEPT ![p] = Len(lens) + 1]
           /\ body_len' = [body_len EXCEPT ![p] = n]
           /\ body_remain_len' = [body_remain_len EXCEPT ![p] = n]
    BY <1>4 DEF StartSend
  <2>2. lens' \in Seq(BodyLens) /\ Len(lens') = Len(lens) + 1
    BY <2>1, AppendProperties DEF TypeOK, Types, TimeTyped
  <2>3. msg' \in [Peers -> 0 .. Len(lens')]
    <3>1. /\ msg \in [Peers -> 0 .. Len(lens)]
          /\ Len(lens) + 1 \in 0 .. Len(lens) + 1
          /\ \A i \in 0 .. Len(lens) : i \in 0 .. Len(lens) + 1
      BY <1>t DEF TypeOK, Types, TimeTyped
    <3>2. msg' \in [Peers -> 0 .. Len(lens) + 1]
      BY <2>1, <3>1
    <3>3. QED
      BY <2>2, <3>2
  <2>4. n \in Nat /\ head_len \in 0 .. head_len
    BY <1>t
  <2>5. /\ body_len' \in [Peers -> Int] /\ body_remain_len' \in [Peers -> Int]
    BY <2>1, <2>4 DEF TypeOK, Types
  <2>6. head_remain_len' \in [Peers -> 0 .. head_len] /\ phase' \in [Peers -> Phases]
    BY <1>4, <2>4 DEF TypeOK, Types, StartSend, Phases
  <2>7. UNCHANGED <<blocking, copied, received, wire, time, returned, split>>
    BY <1>4 DEF StartSend
  <2>8. QED
    BY <2>2, <2>3, <2>5, <2>6, <2>7 DEF TypeOK, Types, time
<1>5. ASSUME NEW p \in Peers, WriteSome(p) PROVE Types'
  <2>1. /\ TimeTyped'
        /\ UNCHANGED <<blocking, lens, msg>>
    BY <1>5, SelectFacts DEF TypeOK, Types, TimeTyped, WriteSome, time
  <2>2. PICK k \in 1 .. Len(Unsent(p)) :
           /\ wire' = [wire EXCEPT ![Other(p)] = @ \o SubSeq(Unsent(p), copied[p] + 1, k)]
           /\ SubSeq(Unsent(p), copied[p] + 1, k) \in Seq(Byte)
           /\ \/ WriteReturns(p, k)
              \/ WriteBlocks(p, k)
    BY <1>5, WriteCases
  <2>3. Other(p) \in Peers
    BY DEF Other, Peers
  <2>4. wire' \in [Peers -> Seq(Byte)]
    <3>1. wire \in [Peers -> Seq(Byte)]
      BY DEF TypeOK, Types, TimeTyped, Byte
    <3>2. wire[Other(p)] \o SubSeq(Unsent(p), copied[p] + 1, k) \in Seq(Byte)
      BY <2>2, <2>3, <3>1, ConcatProperties
    <3>3. QED
      BY <2>2, <2>3, <3>1, <3>2
  <2>5. k \in Nat
    BY <2>2, UnsentFacts
  <2>6. CASE WriteBlocks(p, k)
    BY <2>1, <2>4, <2>5, <2>6 DEF TypeOK, Types, TimeTyped, WriteBlocks, Phases, Byte
  <2>7. CASE WriteReturns(p, k)
    <3> DEFINE head_left == IF k >= head_remain_len[p] THEN 0 ELSE head_remain_len[p] - k
               body_left == BodyLeft(p, k)
    <3>1. head_left \in 0 .. head_len /\ body_left \in Int
      <4>1. head_left \in 0 .. head_len /\ body_left \in Nat
        BY <1>5, WriteFacts DEF WriteSome, Sending
      <4> HIDE DEF head_left, body_left
      <4>2. QED
        BY <4>1
    <3>2. /\ split' = IF head_left > 0 THEN split \cup {"write"} ELSE split
          /\ copied' = [copied EXCEPT ![p] = 0]
          /\ \/ CloseAfterResponse(p)
             \/ StartReceive(p, head_left, body_left)
             \/ /\ head_remain_len' = [head_remain_len EXCEPT ![p] = head_left]
                /\ body_remain_len' = [body_remain_len EXCEPT ![p] = body_left]
                /\ phase' = [phase EXCEPT ![p] = "send"]
                /\ UNCHANGED <<body_len, received, returned>>
      BY <2>7 DEF WriteReturns
    <3> HIDE DEF head_left, body_left
    <3>3. split' \in SUBSET {"read", "write"} /\ copied' \in [Peers -> Nat]
      BY <3>2 DEF TypeOK, Types, TimeTyped
    <3>4. CASE CloseAfterResponse(p)
      BY <2>1, <2>4, <3>3, <3>4 DEF TypeOK, Types, TimeTyped, CloseAfterResponse, Phases, Byte
    <3>5. CASE StartReceive(p, head_left, body_left)
      <4>1. head_len \in 0 .. head_len
        BY <1>t
      <4>2. received' \in [Peers -> Seq(Byte)]
        BY <3>5 DEF TypeOK, Types, TimeTyped, Byte, StartReceive
      <4>3. /\ head_remain_len' \in [Peers -> 0 .. head_len]
            /\ body_len' \in [Peers -> Int] /\ body_remain_len' \in [Peers -> Int]
        <5>1. /\ head_remain_len \in [Peers -> 0 .. head_len]
              /\ body_len \in [Peers -> Int] /\ body_remain_len \in [Peers -> Int]
          BY DEF TypeOK, Types, TimeTyped
        <5>2. \/ /\ head_remain_len' = [head_remain_len EXCEPT ![p] = head_len]
                 /\ body_remain_len' = [body_remain_len EXCEPT ![p] = 0]
                 /\ body_len' = [body_len EXCEPT ![p] = 0]
              \/ /\ head_remain_len' = [head_remain_len EXCEPT ![p] = head_left]
                 /\ body_remain_len' = [body_remain_len EXCEPT ![p] = body_left]
                 /\ UNCHANGED body_len
          BY <3>5 DEF StartReceive
        <5>3. PICK h \in 0 .. head_len, b \in Int :
                 /\ head_remain_len' = [head_remain_len EXCEPT ![p] = h]
                 /\ body_remain_len' = [body_remain_len EXCEPT ![p] = b]
          <6>1. 0 \in Int /\ Nat \subseteq Int
            OBVIOUS
          <6>2. QED
            BY <3>1, <4>1, <5>2, <6>1, Zenon
        <5>4. PICK n \in Int : body_len' = [body_len EXCEPT ![p] = n]
          <6>1. CASE body_len' = [body_len EXCEPT ![p] = 0]
            <7>1. 0 \in Int
              OBVIOUS
            <7>2. QED
              BY <6>1, <7>1
          <6>2. CASE body_len' = body_len
            <7>1. body_len = [body_len EXCEPT ![p] = body_len[p]] /\ body_len[p] \in Int
              BY <5>1
            <7>2. QED
              BY <6>2, <7>1
          <6>3. QED
            BY <5>2, <6>1, <6>2
        <5>5. body_len' \in [Peers -> Int]
          BY <5>1, <5>4
        <5>6. QED
          BY <5>1, <5>3, <5>5
      <4>4. phase' \in [Peers -> Phases] /\ UNCHANGED returned
        BY <3>5 DEF TypeOK, Types, TimeTyped, StartReceive, Phases
      <4>5. QED
        BY <2>1, <2>4, <3>3, <4>2, <4>3, <4>4 DEF TypeOK, Types, TimeTyped, Byte
    <3>6. CASE /\ head_remain_len' = [head_remain_len EXCEPT ![p] = head_left]
               /\ body_remain_len' = [body_remain_len EXCEPT ![p] = body_left]
               /\ phase' = [phase EXCEPT ![p] = "send"]
               /\ UNCHANGED <<body_len, received, returned>>
      BY <2>1, <2>4, <3>1, <3>3, <3>6 DEF TypeOK, Types, TimeTyped, Phases, Byte
    <3>7. QED
      BY <3>2, <3>4, <3>5, <3>6
  <2>8. QED
    BY <2>2, <2>6, <2>7
<1>6. ASSUME NEW p \in Peers, WriteFails(p) PROVE Types'
  <2>1. TimeTyped'
    BY <1>6, SelectFacts DEF TypeOK, Types, TimeTyped, WriteFails, time
  <2>2. QED
    BY <1>2, <1>6, <2>1 DEF WriteFails
<1>7. ASSUME NEW p \in Peers, ReadHead(p) PROVE Types'
  <2>1. /\ TimeTyped'
        /\ UNCHANGED <<blocking, copied, lens, msg>>
    BY <1>7, SelectFacts DEF ReadHead
  <2>2. PICK k \in 1 .. head_remain_len[p] :
           /\ k <= Len(wire[p])
           /\ received' = [received EXCEPT ![p] = received[p] \o SubSeq(wire[p], 1, k)]
           /\ wire' = [wire EXCEPT ![p] = SubSeq(@, k + 1, Len(@))]
           /\ head_remain_len' = [head_remain_len EXCEPT ![p] = @ - k]
           /\ split' = IF k < head_remain_len[p] THEN split \cup {"read"} ELSE split
           /\ \/ UNCHANGED <<phase, returned, body_len, body_remain_len>>
              \/ \E n \in LengthIn(received[p] \o SubSeq(wire[p], 1, k)) :
                   /\ body_len' = [body_len EXCEPT ![p] = n]
                   /\ \/ /\ phase' = [phase EXCEPT ![p] = "closed"]
                         /\ returned' = [returned EXCEPT ![p] = "ERROR"]
                         /\ UNCHANGED body_remain_len
                      \/ /\ body_remain_len' = [body_remain_len EXCEPT ![p] = BodyToRead(n, k)]
                         /\ phase' = [phase EXCEPT ![p] =
                                        IF BodyToRead(n, k) = 0 THEN "idle" ELSE @]
                         /\ UNCHANGED returned
    BY <1>7 DEF ReadHead
  <2>3. head_remain_len[p] \in 0 .. head_len /\ k \in Nat /\ k <= head_len
    BY <1>t, <2>2 DEF TypeOK, Types, TimeTyped
  <2>4. /\ received' \in [Peers -> Seq(Byte)] /\ wire' \in [Peers -> Seq(Byte)]
    BY <2>2, <2>3, ReadFacts DEF TypeOK, Types, TimeTyped, Byte
  <2>5. head_remain_len' \in [Peers -> 0 .. head_len] /\ split' \in SUBSET {"read", "write"}
    <3>1. head_remain_len[p] - k \in 0 .. head_len
      BY <1>t, <2>2, <2>3
    <3>2. QED
      BY <2>2, <3>1 DEF TypeOK, Types, TimeTyped
  <2>6. /\ body_len' \in [Peers -> Int] /\ body_remain_len' \in [Peers -> Int]
        /\ phase' \in [Peers -> Phases]
        /\ returned' \in [Peers -> {"none", "done", "CLOSE", "ERROR"}]
    <3>1. CASE UNCHANGED <<phase, returned, body_len, body_remain_len>>
      BY <3>1 DEF TypeOK, Types, TimeTyped
    <3>2. CASE \E n \in LengthIn(received[p] \o SubSeq(wire[p], 1, k)) :
                   /\ body_len' = [body_len EXCEPT ![p] = n]
                   /\ \/ /\ phase' = [phase EXCEPT ![p] = "closed"]
                         /\ returned' = [returned EXCEPT ![p] = "ERROR"]
                         /\ UNCHANGED body_remain_len
                      \/ /\ body_remain_len' = [body_remain_len EXCEPT ![p] = BodyToRead(n, k)]
                         /\ phase' = [phase EXCEPT ![p] =
                                        IF BodyToRead(n, k) = 0 THEN "idle" ELSE @]
                         /\ UNCHANGED returned
      <4>1. PICK n \in LengthIn(received[p] \o SubSeq(wire[p], 1, k)) :
                   /\ body_len' = [body_len EXCEPT ![p] = n]
                   /\ \/ /\ phase' = [phase EXCEPT ![p] = "closed"]
                         /\ returned' = [returned EXCEPT ![p] = "ERROR"]
                         /\ UNCHANGED body_remain_len
                      \/ /\ body_remain_len' = [body_remain_len EXCEPT ![p] = BodyToRead(n, k)]
                         /\ phase' = [phase EXCEPT ![p] =
                                        IF BodyToRead(n, k) = 0 THEN "idle" ELSE @]
                         /\ UNCHANGED returned
        BY <3>2
      <4>2. n \in Int
        BY LengthInFacts DEF TypeOK, Types, TimeTyped
      <4>3. BodyToRead(n, k) \in Int
        BY <1>t, <2>3, <4>2 DEF BodyToRead
      <4>4. QED
        <5>1. body_len' \in [Peers -> Int]
          BY <4>1, <4>2 DEF TypeOK, Types, TimeTyped
        <5>2. body_remain_len' \in [Peers -> Int]
          BY <4>1, <4>3 DEF TypeOK, Types, TimeTyped
        <5>3. phase' \in [Peers -> Phases]
          BY <4>1 DEF TypeOK, Types, TimeTyped, Phases
        <5>4. returned' \in [Peers -> {"none", "done", "CLOSE", "ERROR"}]
          BY <4>1 DEF TypeOK, Types, TimeTyped
        <5>5. QED
          BY <5>1, <5>2, <5>3, <5>4
    <3>3. QED
      BY <2>2, <3>1, <3>2
  <2>7. QED
    BY <2>1, <2>4, <2>5, <2>6 DEF TypeOK, Types, TimeTyped, Byte
<1>8. ASSUME NEW p \in Peers, ReadBody(p) PROVE Types'
  <2>1. /\ TimeTyped'
        /\ UNCHANGED <<blocking, head_remain_len, body_len, copied, lens, msg, returned, split>>
    BY <1>8, SelectFacts DEF ReadBody
  <2>2. PICK k \in 1 .. body_remain_len[p] :
         /\ k <= Len(wire[p])
         /\ received' = [received EXCEPT ![p] = @ \o SubSeq(wire[p], 1, k)]
         /\ wire' = [wire EXCEPT ![p] = SubSeq(@, k + 1, Len(@))]
         /\ body_remain_len' = [body_remain_len EXCEPT ![p] = @ - k]
         /\ phase' = [phase EXCEPT ![p] = IF k = body_remain_len[p] THEN "idle" ELSE @]
    BY <1>8 DEF ReadBody
  <2>3. k \in Nat /\ body_remain_len[p] - k \in Int
    <3>1. body_remain_len[p] \in Int
      BY DEF TypeOK, Types, TimeTyped
    <3>2. QED
      BY <2>2, <3>1
  <2>4. /\ received' \in [Peers -> Seq(Byte)] /\ wire' \in [Peers -> Seq(Byte)]
    BY <2>2, <2>3, ReadFacts DEF TypeOK, Types, TimeTyped, Byte
  <2>5. QED
    BY <2>1, <2>2, <2>3, <2>4 DEF TypeOK, Types, TimeTyped, Byte, Phases
<1>9. ASSUME NEW p \in Peers, ReadClosed(p) PROVE Types'
  <2>1. TimeTyped'
    BY <1>9, SelectFacts DEF ReadClosed
  <2>2. QED
    BY <1>2, <1>9, <2>1 DEF ReadClosed
<1>10. ASSUME NEW p \in Peers, ReadBodyClosed(p) PROVE Types'
  <2>1. TimeTyped'
    BY <1>10, SelectFacts DEF ReadBodyClosed
  <2>2. QED
    BY <1>10, <2>1 DEF TypeOK, Types, TimeTyped, ReadBodyClosed, context
<1>11. ASSUME NEW p \in Peers, SelectEnds(p) PROVE Types'
  <2>1. TimeTyped'
    <3>1. /\ UNCHANGED <<timeout, setback>>
          /\ waited' = [waited EXCEPT ![p] = IF timeout[p] > 0 THEN @ + timeout[p] ELSE @]
      BY <1>11 DEF SelectEnds
    <3>2. (IF timeout[p] > 0 THEN waited[p] + timeout[p] ELSE waited[p]) \in Nat
      BY DEF TypeOK, Types
    <3>3. QED
      BY <3>1, <3>2 DEF TypeOK, Types, TimeTyped
  <2>2. QED
    BY <1>2, <1>11, <2>1 DEF SelectEnds
<1>12. ASSUME NEW p \in Peers, ReadFails(p) \/ CallFails(p) PROVE Types'
  <2>1. Close(p, "ERROR") /\ UNCHANGED context /\ (Select(p) \/ UNCHANGED time)
    BY <1>12 DEF ReadFails, CallFails
  <2>2. TimeTyped'
    BY <2>1, SelectFacts DEF TypeOK, Types, TimeTyped, time
  <2>3. QED
    BY <1>2, <2>1, <2>2
<1>13. CASE UNCHANGED vars
  BY <1>13 DEF TypeOK, Types, vars, context, time
<1>14. QED
  BY <1>1, <1>3, <1>4, <1>5, <1>6, <1>7, <1>8, <1>9, <1>10, <1>11, <1>12, <1>13 DEF Next, PeerStep

\* A step of a peer, which is connected and has not closed, changes only its own phase,
\* context, message, bytes and time.
LEMMA StepFacts ==
    ASSUME TypeOK, NEW p \in Peers, StartSend(p) \/ PeerStep(p) \/ CallFails(p)
    PROVE  /\ phase[p] \notin {"unconnected", "closed"} /\ UNCHANGED blocking
           /\ \E x \in Phases \ {"unconnected"} : phase' = [phase EXCEPT ![p] = x]
           /\ \A o \in Peers \ {p} :
                 /\ head_remain_len'[o] = head_remain_len[o]
                 /\ body_len'[o] = body_len[o] /\ body_remain_len'[o] = body_remain_len[o]
                 /\ copied'[o] = copied[o] /\ msg'[o] = msg[o]
                 /\ received'[o] = received[o] /\ returned'[o] = returned[o]
                 /\ timeout'[o] = timeout[o] /\ waited'[o] = waited[o] /\ setback'[o] = setback[o]
<1>t. /\ phase \in [Peers -> Phases] /\ head_remain_len \in [Peers -> 0 .. head_len]
      /\ body_len \in [Peers -> Int] /\ body_remain_len \in [Peers -> Int]
      /\ copied \in [Peers -> Nat] /\ msg \in [Peers -> 0 .. Len(lens)]
      /\ received \in [Peers -> Seq(Nat \X Nat)] /\ waited \in [Peers -> Nat]
      /\ setback \in [Peers -> Nat]
      /\ returned \in [Peers -> {"none", "done", "CLOSE", "ERROR"}]
  BY DEF TypeOK, Types
<1>p. \A o \in Peers \ {p} : o # p
  OBVIOUS
<1>1. CASE StartSend(p)
  BY <1>t, <1>1 DEF StartSend, time, Phases
<1>2. CASE WriteSome(p)
  <2>1. PICK k \in 1 .. Len(Unsent(p)) : WriteReturns(p, k) \/ WriteBlocks(p, k)
    BY <1>2, WriteCases
  <2>2. /\ phase[p] \in {"send", "blocked"} /\ UNCHANGED <<blocking, msg>>
        /\ \A o \in Peers \ {p} : /\ timeout'[o] = timeout[o] /\ waited'[o] = waited[o]
                                  /\ setback'[o] = setback[o]
    BY <1>2, SelectFacts DEF WriteSome, time
  <2>3. CASE WriteBlocks(p, k)
    BY <1>t, <2>2, <2>3 DEF WriteBlocks, Phases
  <2>4. CASE WriteReturns(p, k)
    <3>1. /\ copied' = [copied EXCEPT ![p] = 0]
          /\ \/ CloseAfterResponse(p)
             \/ \E h, b : StartReceive(p, h, b)
             \/ /\ \E h, b : /\ head_remain_len' = [head_remain_len EXCEPT ![p] = h]
                             /\ body_remain_len' = [body_remain_len EXCEPT ![p] = b]
                /\ phase' = [phase EXCEPT ![p] = "send"]
                /\ UNCHANGED <<body_len, received, returned>>
      BY <2>4, Zenon DEF WriteReturns
    <3>2. CASE CloseAfterResponse(p)
      BY <1>t, <2>2, <3>1, <3>2 DEF CloseAfterResponse, Phases
    <3>3. CASE \E h, b : StartReceive(p, h, b)
      <4>1. PICK h, b : StartReceive(p, h, b)
        BY <3>3
      <4>2. /\ phase' = [phase EXCEPT ![p] = "receive"]
            /\ received' = [received EXCEPT ![p] = <<>>]
            /\ UNCHANGED returned
            /\ \/ /\ head_remain_len' = [head_remain_len EXCEPT ![p] = head_len]
                  /\ body_remain_len' = [body_remain_len EXCEPT ![p] = 0]
                  /\ body_len' = [body_len EXCEPT ![p] = 0]
               \/ /\ head_remain_len' = [head_remain_len EXCEPT ![p] = h]
                  /\ body_remain_len' = [body_remain_len EXCEPT ![p] = b]
                  /\ UNCHANGED body_len
        BY <4>1 DEF StartReceive
      <4>3. \A o \in Peers \ {p} : /\ head_remain_len'[o] = head_remain_len[o]
                                   /\ body_len'[o] = body_len[o]
                                   /\ body_remain_len'[o] = body_remain_len[o]
        BY <1>t, <4>2
      <4>4. \A o \in Peers \ {p} : received'[o] = received[o] /\ copied'[o] = copied[o]
        BY <1>t, <3>1, <4>2
      <4>5. "receive" \in Phases \ {"unconnected"}
        BY DEF Phases
      <4>6. QED
        BY <2>2, <4>2, <4>3, <4>4, <4>5
    <3>4. CASE /\ \E h, b : /\ head_remain_len' = [head_remain_len EXCEPT ![p] = h]
                            /\ body_remain_len' = [body_remain_len EXCEPT ![p] = b]
               /\ phase' = [phase EXCEPT ![p] = "send"]
               /\ UNCHANGED <<body_len, received, returned>>
      BY <1>t, <2>2, <3>1, <3>4 DEF Phases
    <3>5. QED
      BY <3>1, <3>2, <3>3, <3>4
  <2>5. QED
    BY <2>1, <2>3, <2>4
<1>3. ASSUME phase[p] \in {"send", "blocked", "receive"}, NEW v, Close(p, v), UNCHANGED context,
             \A o \in Peers \ {p} : /\ timeout'[o] = timeout[o] /\ waited'[o] = waited[o]
                                    /\ setback'[o] = setback[o]
      PROVE  /\ phase[p] \notin {"unconnected", "closed"} /\ UNCHANGED blocking
             /\ \E x \in Phases \ {"unconnected"} : phase' = [phase EXCEPT ![p] = x]
             /\ \A o \in Peers \ {p} :
                   /\ head_remain_len'[o] = head_remain_len[o]
                   /\ body_len'[o] = body_len[o] /\ body_remain_len'[o] = body_remain_len[o]
                   /\ copied'[o] = copied[o] /\ msg'[o] = msg[o]
                   /\ received'[o] = received[o] /\ returned'[o] = returned[o]
                   /\ timeout'[o] = timeout[o] /\ waited'[o] = waited[o] /\ setback'[o] = setback[o]
  BY <1>t, <1>3 DEF Close, context, Phases
<1>4. CASE WriteFails(p)
  <2>1. /\ phase[p] \in {"send", "blocked"} /\ Close(p, "ERROR") /\ UNCHANGED context
        /\ \A o \in Peers \ {p} : /\ timeout'[o] = timeout[o] /\ waited'[o] = waited[o]
                                  /\ setback'[o] = setback[o]
    BY <1>4, SelectFacts DEF WriteFails, time
  <2>2. QED
    BY <1>3, <2>1
<1>5. CASE ReadHead(p)
  <2>1. /\ phase[p] = "receive" /\ UNCHANGED <<blocking, copied, lens, msg>>
        /\ \A o \in Peers \ {p} : /\ timeout'[o] = timeout[o] /\ waited'[o] = waited[o]
                                  /\ setback'[o] = setback[o]
    BY <1>5, SelectFacts DEF ReadHead
  <2>2. /\ \E x : received' = [received EXCEPT ![p] = x]
        /\ \E x : head_remain_len' = [head_remain_len EXCEPT ![p] = x]
        /\ \/ UNCHANGED <<phase, returned, body_len, body_remain_len>>
           \/ /\ \E x : body_len' = [body_len EXCEPT ![p] = x]
              /\ \/ /\ phase' = [phase EXCEPT ![p] = "closed"]
                    /\ returned' = [returned EXCEPT ![p] = "ERROR"]
                    /\ UNCHANGED body_remain_len
                 \/ /\ \E x : body_remain_len' = [body_remain_len EXCEPT ![p] = x]
                    /\ \/ phase' = [phase EXCEPT ![p] = "idle"]
                       \/ phase' = [phase EXCEPT ![p] = @]
                    /\ UNCHANGED returned
    BY <1>5 DEF ReadHead
  <2>3. \E x \in Phases \ {"unconnected"} : phase' = [phase EXCEPT ![p] = x]
    <3>1. phase = [phase EXCEPT ![p] = phase[p]] /\ phase[p] \in Phases \ {"unconnected"}
      BY <1>t, <2>1
    <3>2. {"idle", "closed"} \subseteq Phases \ {"unconnected"}
      BY DEF Phases
    <3>3. \/ phase' = phase \/ phase' = [phase EXCEPT ![p] = "closed"]
          \/ phase' = [phase EXCEPT ![p] = "idle"] \/ phase' = [phase EXCEPT ![p] = phase[p]]
      BY <2>2
    <3>4. QED
      BY <3>1, <3>2, <3>3, Zenon
  <2>4. \A o \in Peers \ {p} :
           /\ body_len'[o] = body_len[o] /\ body_remain_len'[o] = body_remain_len[o]
           /\ returned'[o] = returned[o]
    BY <1>t, <2>2
  <2>5. \A o \in Peers \ {p} :
           received'[o] = received[o] /\ head_remain_len'[o] = head_remain_len[o]
    BY <1>t, <2>2
  <2>6. QED
    BY <2>1, <2>3, <2>4, <2>5
<1>6. CASE ReadBody(p)
  <2>1. /\ phase[p] = "receive"
        /\ UNCHANGED <<blocking, head_remain_len, body_len, copied, lens, msg, returned, split>>
        /\ \A o \in Peers \ {p} : /\ timeout'[o] = timeout[o] /\ waited'[o] = waited[o]
                                  /\ setback'[o] = setback[o]
    BY <1>6, SelectFacts DEF ReadBody
  <2>2. PICK k \in 1 .. body_remain_len[p] :
           /\ received' = [received EXCEPT ![p] = @ \o SubSeq(wire[p], 1, k)]
           /\ body_remain_len' = [body_remain_len EXCEPT ![p] = @ - k]
           /\ phase' = [phase EXCEPT ![p] = IF k = body_remain_len[p] THEN "idle" ELSE @]
    BY <1>6 DEF ReadBody
  <2>3. QED
    BY <1>t, <2>1, <2>2 DEF Phases
<1>7. CASE ReadClosed(p)
  <2>1. /\ phase[p] = "receive" /\ UNCHANGED context
        /\ Close(p, IF NothingReceived(p) THEN "CLOSE" ELSE "ERROR")
        /\ \A o \in Peers \ {p} : /\ timeout'[o] = timeout[o] /\ waited'[o] = waited[o]
                                  /\ setback'[o] = setback[o]
    BY <1>7, SelectFacts DEF ReadClosed
  <2>2. QED
    BY <1>3, <2>1
<1>8. CASE ReadBodyClosed(p)
  <2>1. /\ phase[p] = "receive"
        /\ UNCHANGED <<blocking, phase, context, lens, msg, received, wire, returned, split>>
        /\ \A o \in Peers \ {p} : /\ timeout'[o] = timeout[o] /\ waited'[o] = waited[o]
                                  /\ setback'[o] = setback[o]
    BY <1>8, SelectFacts DEF ReadBodyClosed
  <2>2. phase = [phase EXCEPT ![p] = phase[p]] /\ phase[p] \in Phases \ {"unconnected"}
    BY <1>t, <2>1
  <2>3. QED
    BY <2>1, <2>2 DEF context
<1>9. CASE SelectEnds(p)
  <2>1. /\ phase[p] \in {"send", "receive"} /\ Close(p, "ERROR") /\ UNCHANGED <<context, timeout, setback>>
        /\ waited' = [waited EXCEPT ![p] = IF timeout[p] > 0 THEN @ + timeout[p] ELSE @]
    BY <1>9 DEF SelectEnds
  <2>2. \A o \in Peers \ {p} : /\ timeout'[o] = timeout[o] /\ waited'[o] = waited[o]
                               /\ setback'[o] = setback[o]
    BY <1>t, <2>1
  <2>3. QED
    BY <1>3, <2>1, <2>2
<1>10. CASE ReadFails(p) \/ CallFails(p)
  <2>1. /\ phase[p] \in {"send", "blocked", "receive"} /\ Close(p, "ERROR") /\ UNCHANGED context
        /\ Select(p) \/ UNCHANGED time
    BY <1>10 DEF ReadFails, CallFails
  <2>2. \A o \in Peers \ {p} : /\ timeout'[o] = timeout[o] /\ waited'[o] = waited[o]
                               /\ setback'[o] = setback[o]
    BY <2>1, SelectFacts DEF time
  <2>3. QED
    BY <1>3, <2>1, <2>2
<1>11. QED
  BY <1>1, <1>2, <1>4, <1>5, <1>6, <1>7, <1>8, <1>9, <1>10 DEF PeerStep

\* No step makes what a sender has to write fall below zero.
LEMMA NextSendersCount == TypeOK /\ [Next]_vars => SendersCount'
<1> SUFFICES ASSUME TypeOK, [Next]_vars PROVE SendersCount'
  OBVIOUS
<1>t. /\ phase \in [Peers -> Phases] /\ Peers = {"client", "server"} /\ SendersCount
      /\ body_len \in [Peers -> Int] /\ body_remain_len \in [Peers -> Int]
  BY DEF TypeOK, Types, Peers
<1>1. CASE TDHBConnect
  BY <1>t, <1>1 DEF SendersCount, TDHBConnect, context
<1>2. CASE Disconnect
  BY <1>t, <1>2 DEF SendersCount, Disconnect, Close, context
<1>3. ASSUME NEW p \in Peers, StartSend(p) \/ PeerStep(p) \/ CallFails(p) PROVE SendersCount'
  <2>1. ASSUME NEW o \in Peers \ {p}, phase'[o] \in {"send", "blocked"}
        PROVE  body_len'[o] \in Nat /\ body_remain_len'[o] \in Nat
    <3>1. /\ \E x : phase' = [phase EXCEPT ![p] = x]
          /\ body_len'[o] = body_len[o] /\ body_remain_len'[o] = body_remain_len[o]
      BY <1>3, StepFacts
    <3>2. phase'[o] = phase[o]
      BY <1>t, <3>1
    <3>3. QED
      BY <1>t, <2>1, <3>1, <3>2 DEF SendersCount
  <2>2. ASSUME phase'[p] \in {"send", "blocked"}
        PROVE  body_len'[p] \in Nat /\ body_remain_len'[p] \in Nat
    <3>1. CASE StartSend(p)
      <4>1. PICK n \in BodyLens : /\ body_len' = [body_len EXCEPT ![p] = n]
                                  /\ body_remain_len' = [body_remain_len EXCEPT ![p] = n]
        BY <3>1 DEF StartSend
      <4>2. n \in Nat
        BY TDHBAssumption
      <4>3. QED
        BY <1>t, <4>1, <4>2
    <3>2. CASE WriteSome(p)
      <4>1. PICK k \in 1 .. Len(Unsent(p)) : WriteReturns(p, k) \/ WriteBlocks(p, k)
        BY <3>2, WriteCases
      <4>2. Sending(p) /\ body_len[p] \in Nat /\ body_remain_len[p] \in Nat
        BY <1>t, <3>2 DEF WriteSome, Sending, SendersCount
      <4>3. CASE WriteBlocks(p, k)
        BY <4>2, <4>3 DEF WriteBlocks
      <4>4. CASE WriteReturns(p, k)
        <5>1. BodyLeft(p, k) \in Nat
          BY <4>2, WriteFacts
        <5>2. body_remain_len' = [body_remain_len EXCEPT ![p] = BodyLeft(p, k)] /\ body_len' = body_len
          BY <1>t, <2>2, <4>4 DEF WriteReturns, CloseAfterResponse, StartReceive
        <5>3. QED
          BY <1>t, <4>2, <5>1, <5>2
      <4>5. QED
        BY <4>1, <4>3, <4>4
    <3>3. CASE \E v : Close(p, v)
      BY <1>t, <2>2, <3>3 DEF Close
    <3>4. CASE ReadHead(p) \/ ReadBody(p) \/ ReadBodyClosed(p)
      <4>1. phase[p] = "receive"
        BY <3>4 DEF ReadHead, ReadBody, ReadBodyClosed
      <4>2. \/ phase' = phase
            \/ \E x \in {"closed", "idle", phase[p]} : phase' = [phase EXCEPT ![p] = x]
        BY <3>4 DEF ReadHead, ReadBody, ReadBodyClosed
      <4>3. QED
        BY <1>t, <2>2, <4>1, <4>2
    <3>5. QED
      BY <1>3, <3>1, <3>2, <3>3, <3>4
         DEF PeerStep, WriteFails, ReadClosed, ReadFails, SelectEnds, CallFails
  <2>3. QED
    BY <2>1, <2>2 DEF SendersCount
<1>4. CASE UNCHANGED vars
  BY <1>t, <1>4 DEF SendersCount, vars, context
<1>5. QED
  BY <1>1, <1>2, <1>3, <1>4 DEF Next

LEMMA NextTypeOK == TypeOK /\ [Next]_vars => TypeOK'
BY NextTypes, NextSendersCount DEF TypeOK

\* The variables have their types; and though the length a receiver reads may be below
\* zero, what a sender has to write never is.
THEOREM TypeCorrect == Spec => []TypeOK
<1>1. Init => TypeOK
  <2> SUFFICES ASSUME Init PROVE TypeOK
    OBVIOUS
  <2>1. <<>> \in Seq(BodyLens) /\ Len(<<>>) = 0 /\ <<>> \in Seq(Nat \X Nat)
    OBVIOUS
  <2>2. head_len \in 0 .. head_len /\ 0 \in 0 .. head_len /\ Timeout \in Nat
    BY TDHBAssumption
  <2>3. QED
    BY <2>1, <2>2 DEF Init, TypeOK, Types, SendersCount, Phases
<1>2. QED
  BY <1>1, NextTypeOK, PTL DEF Spec

-----------------------------------------------------------------------------
(* The timeout, and the end of the connection                              *)

\* The peers are connected at once, and nothing is received before.
LEMMA NextConnectInv == TypeOK /\ ConnectInv /\ [Next]_vars => ConnectInv'
<1> SUFFICES ASSUME TypeOK, ConnectInv, [Next]_vars PROVE ConnectInv'
  OBVIOUS
<1>t. phase \in [Peers -> Phases] /\ Peers = {"client", "server"}
  BY DEF TypeOK, Types, Peers
<1>1. CASE TDHBConnect
  BY <1>t, <1>1 DEF ConnectInv, TDHBConnect
<1>2. CASE Disconnect
  BY <1>t, <1>2 DEF ConnectInv, Disconnect, Close
<1>3. ASSUME NEW p \in Peers, StartSend(p) \/ PeerStep(p) \/ CallFails(p) PROVE ConnectInv'
  <2>1. PICK x \in Phases \ {"unconnected"} : phase' = [phase EXCEPT ![p] = x]
    BY <1>3, StepFacts
  <2>2. /\ phase[p] # "unconnected"
        /\ \A o \in Peers \ {p} : received'[o] = received[o]
    BY <1>3, StepFacts
  <2>3. QED
    BY <1>t, <2>1, <2>2 DEF ConnectInv
<1>4. CASE UNCHANGED vars
  BY <1>4 DEF ConnectInv, vars
<1>5. QED
  BY <1>1, <1>2, <1>3, <1>4 DEF Next

\* What a step does to the time of its peer: nothing, a turn of a loop with select(),
\* or the end of one.
LEMMA TimeCases ==
    ASSUME TypeOK, NEW p \in Peers, p \in blocking, StartSend(p) \/ PeerStep(p) \/ CallFails(p)
    PROVE  \/ /\ waited'[p] = waited[p] /\ timeout'[p] = timeout[p]
              /\ setback'[p] = setback[p]
           \/ /\ timeout[p] >= 0
              /\ \E d \in 0 .. timeout[p] + 1, b \in Nat :
                    /\ waited'[p] = waited[p] + d /\ setback'[p] = setback[p] + b
                    /\ timeout'[p] <= timeout[p] - d + b
           \/ /\ phase'[p] = "closed" /\ setback'[p] = setback[p]
              /\ waited'[p] = IF timeout[p] > 0 THEN waited[p] + timeout[p] ELSE waited[p]
<1>t. phase \in [Peers -> Phases] /\ waited \in [Peers -> Nat] /\ timeout \in [Peers -> Int]
  BY DEF TypeOK, Types
<1>1. CASE Select(p)
  BY <1>1, SelectFacts
<1>2. CASE UNCHANGED time
  BY <1>2 DEF time
<1>3. CASE SelectEnds(p)
  BY <1>t, <1>3 DEF SelectEnds, Close
<1>4. QED
  BY <1>1, <1>2, <1>3 DEF StartSend, PeerStep, WriteSome, WriteFails, ReadHead, ReadBody,
     ReadClosed, ReadBodyClosed, ReadFails, CallFails

\* Each wait is taken off the timeout, and no wait begins once it is used up.
LEMMA NextWaitInv == TypeOK /\ ConnectInv /\ WaitInv /\ [Next]_vars => WaitInv'
<1> SUFFICES ASSUME TypeOK, ConnectInv, WaitInv, [Next]_vars PROVE WaitInv'
  OBVIOUS
<1>t. /\ phase \in [Peers -> Phases] /\ Peers = {"client", "server"} /\ Timeout \in Nat
      /\ waited \in [Peers -> Nat] /\ timeout \in [Peers -> Int] /\ blocking \subseteq Peers
      /\ setback \in [Peers -> Nat]
  BY TDHBAssumption DEF TypeOK, Types, Peers
<1>1. CASE TDHBConnect
  <2>1. /\ UNCHANGED <<blocking, waited, timeout, setback>>
        /\ \A p \in Peers : phase'[p] # "closed" => phase[p] # "closed"
    BY <1>t, <1>1 DEF TDHBConnect, time, ConnectInv
  <2>2. QED
    BY <1>t, <2>1 DEF WaitInv
<1>2. CASE Disconnect
  <2>1. /\ UNCHANGED <<blocking, waited, timeout, setback>>
        /\ \A p \in Peers : phase'[p] # "closed" => phase[p] # "closed"
    BY <1>t, <1>2 DEF Disconnect, Close, time
  <2>2. QED
    BY <1>t, <2>1 DEF WaitInv
<1>3. ASSUME NEW p \in Peers, StartSend(p) \/ PeerStep(p) \/ CallFails(p) PROVE WaitInv'
  <2>1. /\ blocking' = blocking /\ phase[p] # "closed"
        /\ \A o \in Peers \ {p} : /\ timeout'[o] = timeout[o] /\ waited'[o] = waited[o]
                                  /\ setback'[o] = setback[o]
                                  /\ phase'[o] = phase[o]
    <3>1. \A o \in Peers \ {p} : phase'[o] = phase[o]
      BY <1>t, <1>3, StepFacts
    <3>2. QED
      BY <1>3, <3>1, StepFacts
  <2>2. ASSUME NEW o \in blocking, o # p
        PROVE  /\ waited'[o] <= Timeout + 1 + setback'[o]
               /\ phase'[o] # "closed" => waited'[o] + timeout'[o] <= Timeout + setback'[o]
    <3>1. /\ timeout'[o] = timeout[o] /\ waited'[o] = waited[o]
          /\ setback'[o] = setback[o] /\ phase'[o] = phase[o]
      BY <1>t, <2>1, <2>2
    <3>2. QED
      BY <3>1, <2>2 DEF WaitInv
  <2>3. ASSUME p \in blocking
        PROVE  /\ waited'[p] <= Timeout + 1 + setback'[p]
               /\ phase'[p] # "closed" => waited'[p] + timeout'[p] <= Timeout + setback'[p]
    <3>1. /\ waited[p] <= Timeout + 1 + setback[p]
          /\ waited[p] + timeout[p] <= Timeout + setback[p]
          /\ setback[p] \in Nat /\ waited[p] \in Nat /\ timeout[p] \in Int
      BY <1>t, <2>1, <2>3 DEF WaitInv
    <3>2. CASE waited'[p] = waited[p] /\ timeout'[p] = timeout[p] /\ setback'[p] = setback[p]
      BY <3>1, <3>2
    <3>3. CASE /\ timeout[p] >= 0
               /\ \E d \in 0 .. timeout[p] + 1, b \in Nat :
                     /\ waited'[p] = waited[p] + d /\ setback'[p] = setback[p] + b
                     /\ timeout'[p] <= timeout[p] - d + b
      <4>1. PICK d \in 0 .. timeout[p] + 1, b \in Nat :
                     /\ waited'[p] = waited[p] + d /\ setback'[p] = setback[p] + b
                     /\ timeout'[p] <= timeout[p] - d + b
        BY <3>3
      <4>2. timeout' \in [Peers -> Int]
        BY NextTypeOK DEF TypeOK, Types
      <4>3. PICK t \in Int : t = timeout'[p]
        BY <4>2
      <4>4. /\ waited[p] + d <= Timeout + 1 + (setback[p] + b)
            /\ waited[p] + d + t <= Timeout + (setback[p] + b)
        BY <1>t, <3>1, <4>1, <4>3
      <4>5. QED
        BY <4>1, <4>3, <4>4
    <3>4. CASE /\ phase'[p] = "closed" /\ setback'[p] = setback[p]
               /\ waited'[p] = IF timeout[p] > 0 THEN waited[p] + timeout[p] ELSE waited[p]
      <4>1. waited'[p] = waited[p] \/ waited'[p] = waited[p] + timeout[p]
        BY <3>4
      <4>2. Timeout <= Timeout + 1
        BY <1>t
      <4>3. QED
        BY <1>t, <3>1, <3>4, <4>1, <4>2
    <3>5. QED
      BY <1>3, <2>3, <3>2, <3>3, <3>4, TimeCases
  <2>4. QED
    BY <2>1, <2>2, <2>3 DEF WaitInv
<1>4. CASE UNCHANGED vars
  BY <1>4 DEF WaitInv, vars, time
<1>5. QED
  BY <1>1, <1>2, <1>3, <1>4 DEF Next

\* The blocking functions wait in select() no longer than their timeout and one turn of
\* the loop, for any timeout and in however many pieces the bytes come.
THEOREM WaitsWithinTimeout == Spec => []TimeoutKept
<1>1. Init => ConnectInv /\ WaitInv
  <2> SUFFICES ASSUME Init PROVE ConnectInv /\ WaitInv
    OBVIOUS
  <2>1. blocking \subseteq Peers /\ Timeout \in Nat
    BY TDHBAssumption DEF Init
  <2>2. QED
    BY <2>1 DEF Init, ConnectInv, WaitInv, Peers
<1>2. WaitInv => TimeoutKept
  BY DEF WaitInv, TimeoutKept
<1>3. QED
  BY <1>1, <1>2, NextConnectInv, NextWaitInv, TypeCorrect, PTL DEF Spec

\* Reading any of the head takes something off what remains of it.
LEMMA NextHeadInv == TypeOK /\ ConnectInv /\ HeadInv /\ [Next]_vars => HeadInv'
<1> SUFFICES ASSUME TypeOK, ConnectInv, HeadInv, [Next]_vars PROVE HeadInv'
  OBVIOUS
<1>h. head_len \in Nat \ {0}
  BY TDHBAssumption
<1>p. Peers = {"client", "server"}
  BY DEF Peers
<1>t. /\ phase \in [Peers -> Phases] /\ Peers = {"client", "server"}
      /\ received \in [Peers -> Seq(Nat \X Nat)]
      /\ head_remain_len \in [Peers -> 0 .. head_len] /\ head_len \in Nat \ {0}
      /\ returned \in [Peers -> {"none", "done", "CLOSE", "ERROR"}]
  BY <1>h, <1>p DEF TypeOK, Types
<1>1. CASE TDHBConnect
  BY <1>t, <1>1 DEF HeadInv, ConnectInv, TDHBConnect, context
<1>2. CASE Disconnect
  BY <1>t, <1>2 DEF HeadInv, Disconnect, Close, context
<1>3. ASSUME NEW p \in Peers, StartSend(p) \/ PeerStep(p) \/ CallFails(p) PROVE HeadInv'
  <2>1. /\ blocking' = blocking /\ phase[p] # "closed"
        /\ \A o \in Peers \ {p} :
              /\ phase'[o] = phase[o] /\ head_remain_len'[o] = head_remain_len[o]
              /\ received'[o] = received[o] /\ returned'[o] = returned[o]
    <3>1. \A o \in Peers \ {p} : phase'[o] = phase[o]
      BY <1>t, <1>3, StepFacts
    <3>2. QED
      BY <1>3, <3>1, StepFacts
  <2>2. ASSUME p \notin blocking
        PROVE  /\ phase'[p] = "receive" /\ head_remain_len'[p] = head_len => received'[p] = <<>>
               /\ returned'[p] = "CLOSE" => phase'[p] = "closed" /\ received'[p] = <<>>
    <3>1. /\ returned[p] # "CLOSE"
          /\ phase[p] = "receive" /\ head_remain_len[p] = head_len => received[p] = <<>>
      BY <2>1, <2>2 DEF HeadInv
    <3>2. CASE StartSend(p)
      BY <1>t, <3>1, <3>2 DEF StartSend
    <3>3. CASE WriteSome(p)
      <4>1. PICK k \in 1 .. Len(Unsent(p)) : WriteReturns(p, k) \/ WriteBlocks(p, k)
        BY <3>3, WriteCases
      <4>2. \/ CloseAfterResponse(p)
            \/ \E h, b : StartReceive(p, h, b)
            \/ phase' \in {[phase EXCEPT ![p] = "send"], [phase EXCEPT ![p] = "blocked"]}
               /\ UNCHANGED returned
        <5>1. CASE WriteBlocks(p, k)
          BY <5>1 DEF WriteBlocks
        <5>2. CASE WriteReturns(p, k)
          BY <5>2, Zenon DEF WriteReturns
        <5>3. QED
          BY <4>1, <5>1, <5>2
      <4>3. CASE CloseAfterResponse(p)
        BY <1>t, <4>3 DEF CloseAfterResponse
      <4>4. CASE \E h, b : StartReceive(p, h, b)
        <5>1. /\ received' = [received EXCEPT ![p] = <<>>]
              /\ UNCHANGED returned
          BY <4>4 DEF StartReceive
        <5>2. QED
          BY <1>t, <3>1, <5>1
      <4>5. CASE /\ phase' \in {[phase EXCEPT ![p] = "send"], [phase EXCEPT ![p] = "blocked"]}
                 /\ UNCHANGED returned
        BY <1>t, <3>1, <4>5
      <4>6. QED
        BY <4>2, <4>3, <4>4, <4>5
    <3>4. CASE Close(p, "ERROR")
      BY <1>t, <3>4 DEF Close
    <3>5. CASE ReadHead(p)
      <4>1. PICK k \in 1 .. head_remain_len[p] :
               head_remain_len' = [head_remain_len EXCEPT ![p] = head_remain_len[p] - k]
        BY <3>5 DEF ReadHead
      <4>2. head_remain_len'[p] # head_len
        BY <1>t, <4>1
      <4>3. returned' = returned \/ returned' = [returned EXCEPT ![p] = "ERROR"]
        BY <3>5 DEF ReadHead
      <4>4. QED
        BY <1>t, <3>1, <4>2, <4>3
    <3>6. CASE ReadBody(p)
      BY <1>t, <3>1, <3>6 DEF ReadBody
    <3>7. CASE ReadClosed(p)
      <4>1. /\ phase[p] = "receive" /\ UNCHANGED <<head_remain_len, received>>
            /\ Close(p, IF NothingReceived(p) THEN "CLOSE" ELSE "ERROR")
        BY <3>7 DEF ReadClosed, context, Close
      <4>2. NothingReceived(p) <=> head_remain_len[p] = head_len
        BY <2>2 DEF NothingReceived
      <4>3. QED
        BY <1>t, <3>1, <4>1, <4>2 DEF Close
    <3>8. CASE ReadBodyClosed(p)
      BY <2>2, <3>8 DEF ReadBodyClosed
    <3>9. QED
      BY <1>3, <3>2, <3>3, <3>4, <3>5, <3>6, <3>7, <3>8
         DEF PeerStep, WriteFails, ReadFails, SelectEnds, CallFails
  <2>3. QED
    BY <2>1, <2>2 DEF HeadInv
<1>4. CASE UNCHANGED vars
  BY <1>4 DEF HeadInv, vars, context
<1>5. QED
  BY <1>1, <1>2, <1>3, <1>4 DEF Next

\* A nonblocking receiver that takes the end of the connection for an orderly one has no
\* piece of a message, for heads of any length.
THEOREM ClosesBetweenMessages == Spec => []CloseBetweenMessages
<1>1. Init => ConnectInv /\ HeadInv
  BY DEF Init, ConnectInv, HeadInv, Peers
<1>2. HeadInv => CloseBetweenMessages
  BY DEF HeadInv, CloseBetweenMessages
<1>3. QED
  BY <1>1, <1>2, NextConnectInv, NextHeadInv, TypeCorrect, PTL DEF Spec

-----------------------------------------------------------------------------
(* The bytes of a message                                                  *)

\* Once a head has gone through in pieces, or did not fit, it stays so.
LEMMA SplitGrows ==
    ASSUME TypeOK, [Next]_vars
    PROVE  split \subseteq split' /\ (HeadsFit' => HeadsFit)
<1>1. \/ lens' = lens
      \/ \E n \in BodyLens : lens' = Append(lens, n)
  BY DEF Next, TDHBConnect, Disconnect, Close, StartSend, PeerStep, WriteSome, WriteFails,
     ReadHead, ReadBody, ReadClosed, ReadBodyClosed, ReadFails, SelectEnds, CallFails, vars
<1>2. ASSUME HeadsFit' PROVE HeadsFit
  <2>1. CASE lens' = lens
    BY <1>2, <2>1 DEF HeadsFit
  <2>2. ASSUME NEW n \in BodyLens, lens' = Append(lens, n) PROVE HeadsFit
    <3>1. PICK l \in Seq(BodyLens) : l = lens
      BY DEF TypeOK, Types
    <3>2. /\ DOMAIN l \subseteq DOMAIN Append(l, n)
          /\ \A i \in DOMAIN l : Append(l, n)[i] = l[i]
      <4>1. /\ DOMAIN Append(l, n) = 1 .. Len(l) + 1 /\ DOMAIN l = 1 .. Len(l) /\ Len(l) \in Nat
            /\ \A i \in 1 .. Len(l) : Append(l, n)[i] = l[i]
        BY AppendProperties, LenProperties
      <4>2. 1 .. Len(l) \subseteq 1 .. Len(l) + 1
        BY <4>1
      <4>3. QED
        BY <4>1, <4>2
    <3>3. QED
      BY <1>2, <2>2, <3>1, <3>2 DEF HeadsFit, Fits
  <2>3. QED
    BY <1>1, <2>1, <2>2
<1>3. split \subseteq split'
  <2>1. CASE UNCHANGED split
    BY <2>1
  <2>2. ASSUME NEW p \in Peers, WriteSome(p) PROVE split \subseteq split'
    BY <2>2 DEF WriteSome, WriteReturns, WriteBlocks
  <2>3. ASSUME NEW p \in Peers, ReadHead(p) PROVE split \subseteq split'
    BY <2>3 DEF ReadHead
  <2>4. QED
    BY <2>1, <2>2, <2>3 DEF Next, TDHBConnect, Disconnect, Close, StartSend, PeerStep, WriteFails,
       ReadBody, ReadClosed, ReadBodyClosed, ReadFails, SelectEnds, CallFails, vars
<1>4. QED
  BY <1>2, <1>3

\* Reading takes bytes from the wire to what is received.
LEMMA ReadKeepsCarried ==
    ASSUME TypeOK, NEW p \in Peers, NEW n, NEW len, Carried(p, n, len),
           NEW k \in Nat, k <= Len(wire[p]),
           received' = [received EXCEPT ![p] = @ \o SubSeq(wire[p], 1, k)],
           wire' = [wire EXCEPT ![p] = SubSeq(@, k + 1, Len(@))]
    PROVE  /\ Carried(p, n, len)'
           /\ Len(received'[p]) = Len(received[p]) + k
           /\ Len(wire'[p]) = Len(wire[p]) - k
           /\ received'[p] \in Seq(Byte) /\ wire'[p] \in Seq(Byte)
<1>1. PICK r \in Seq(Byte), w \in Seq(Byte) : r = received[p] /\ w = wire[p]
  BY DEF TypeOK, Types, Byte
<1>2. PICK x \in Seq(Byte), y \in Seq(Byte) : x = received'[p] /\ y = wire'[p]
  BY ReadFacts DEF TypeOK, Types
<1>3. /\ x = received[p] \o SubSeq(wire[p], 1, k) /\ y = SubSeq(wire[p], k + 1, Len(wire[p]))
  BY <1>2 DEF TypeOK, Types
<1>4. /\ Len(x) = Len(r) + k
      /\ \A i \in 1 .. Len(r) + k : x[i] = IF i <= Len(r) THEN r[i] ELSE w[i - Len(r)]
      /\ Len(y) = Len(w) - k
      /\ \A i \in 1 .. Len(w) - k : y[i] = w[k + i]
  BY <1>1, <1>3, ReadFacts
<1>5. Len(r) \in Nat /\ Len(w) \in Nat /\ k <= Len(w)
  BY <1>1, LenProperties
<1>6. /\ \A i \in 1 .. Len(r) : r[i] = <<n, i>>
      /\ \A i \in 1 .. Len(w) : w[i] = <<n, Len(r) + i>>
      /\ Len(r) + Len(w) = len
  BY <1>1 DEF Carried
<1>7. ASSUME NEW i \in 1 .. Len(x) PROVE x[i] = <<n, i>>
  <2>1. CASE i <= Len(r)
    BY <1>4, <1>5, <1>6, <2>1
  <2>2. CASE ~ (i <= Len(r))
    <3>1. i - Len(r) \in 1 .. Len(w) /\ Len(r) + (i - Len(r)) = i
      BY <1>4, <1>5, <2>2
    <3>2. x[i] = w[i - Len(r)]
      BY <1>4, <2>2
    <3>3. QED
      BY <1>6, <3>1, <3>2
  <2>3. QED
    BY <2>1, <2>2
<1>8. ASSUME NEW i \in 1 .. Len(y) PROVE y[i] = <<n, Len(x) + i>>
  <2>1. k + i \in 1 .. Len(w) /\ Len(r) + (k + i) = Len(x) + i
    BY <1>4, <1>5
  <2>2. y[i] = w[k + i]
    BY <1>4
  <2>3. QED
    BY <1>6, <2>1, <2>2
<1>9. Len(x) + Len(y) = len
  BY <1>4, <1>5, <1>6
<1>10. QED
  BY <1>1, <1>2, <1>4, <1>7, <1>8, <1>9 DEF Carried

\* Writing puts the next bytes on the wire.
LEMMA WriteKeepsCarried ==
    ASSUME TypeOK, NEW p \in Peers, NEW n, NEW len, Carried(p, n, len),
           NEW s \in Seq(Byte), \A i \in 1 .. Len(s) : s[i] = <<n, len + i>>,
           received'[p] = received[p], wire' = [wire EXCEPT ![p] = @ \o s]
    PROVE  Carried(p, n, len + Len(s))'
<1>1. PICK r \in Seq(Byte), w \in Seq(Byte) : r = received[p] /\ w = wire[p]
  BY DEF TypeOK, Types, Byte
<1>2. wire'[p] = w \o s
  BY <1>1 DEF TypeOK, Types
<1>3. /\ Len(w \o s) = Len(w) + Len(s)
      /\ \A i \in 1 .. Len(w) + Len(s) : (w \o s)[i] = IF i <= Len(w) THEN w[i] ELSE s[i - Len(w)]
  BY ConcatProperties
<1>4. Len(r) \in Nat /\ Len(w) \in Nat /\ Len(s) \in Nat
  BY LenProperties
<1>5. /\ \A i \in 1 .. Len(r) : r[i] = <<n, i>>
      /\ \A i \in 1 .. Len(w) : w[i] = <<n, Len(r) + i>>
      /\ Len(r) + Len(w) = len
  BY <1>1 DEF Carried
<1>6. ASSUME NEW i \in 1 .. Len(w \o s) PROVE (w \o s)[i] = <<n, Len(r) + i>>
  <2>1. CASE i <= Len(w)
    BY <1>3, <1>4, <1>5, <2>1
  <2>2. CASE ~ (i <= Len(w))
    <3>1. i - Len(w) \in 1 .. Len(s) /\ len + (i - Len(w)) = Len(r) + i
      BY <1>3, <1>4, <1>5, <2>2
    <3>2. (w \o s)[i] = s[i - Len(w)]
      BY <1>3, <2>2
    <3>3. QED
      BY <3>1, <3>2
  <2>3. QED
    BY <2>1, <2>2
<1>7. Len(r) + Len(w \o s) = len + Len(s)
  BY <1>3, <1>4, <1>5
<1>8. QED
  BY <1>1, <1>2, <1>5, <1>6, <1>7 DEF Carried

\* A sender within its message that has written k bytes of what is left, and none of the
\* head only in part, is through or goes on with the rest of the body.
LEMMA WriteOutcome ==
    ASSUME TypeOK, NEW p \in Peers, Sending(p), msg[p] \in 1 .. Len(lens), SenderInv(p, msg[p]),
           NEW k \in 1 .. Len(Unsent(p)), WriteReturns(p, k), split' = {}
    PROVE  /\ copied' = [copied EXCEPT ![p] = 0] /\ k >= head_remain_len[p]
           /\ \/ /\ k = head_remain_len[p] + body_remain_len[p]
                 /\ CloseAfterResponse(p) \/ StartReceive(p, 0, 0)
              \/ /\ k < head_remain_len[p] + body_remain_len[p]
                 /\ head_remain_len' = [head_remain_len EXCEPT ![p] = 0]
                 /\ body_remain_len' = [body_remain_len EXCEPT ![p] =
                                          head_remain_len[p] + body_remain_len[p] - k]
                 /\ phase' = [phase EXCEPT ![p] = "send"]
                 /\ UNCHANGED <<body_len, received, returned>>
<1> DEFINE head_left == IF k >= head_remain_len[p] THEN 0 ELSE head_remain_len[p] - k
<1>1. /\ head_remain_len[p] \in Nat /\ body_remain_len[p] \in Nat /\ head_len \in Nat \ {0}
      /\ k \in 1 .. head_remain_len[p] + body_remain_len[p]
      /\ head_remain_len[p] = 0 \/ head_remain_len[p] = head_len
  <2>1. head_len \in 1 .. 20
    BY TDHBAssumption
  <2>2. head_remain_len[p] \in 0 .. head_len /\ body_remain_len[p] \in Nat
    BY DEF TypeOK, Types, SendersCount, Sending
  <2>3. Len(Unsent(p)) = head_remain_len[p] + body_remain_len[p]
    BY UnsentFacts
  <2>4. head_remain_len[p] = 0 \/ head_remain_len[p] = head_len
    BY DEF SenderInv
  <2>5. k \in 1 .. head_remain_len[p] + body_remain_len[p]
    BY <2>3
  <2>6. head_len \in Nat \ {0} /\ head_remain_len[p] \in Nat
    BY <2>1, <2>2
  <2>7. QED
    BY <2>2, <2>4, <2>5, <2>6
<1>2. split' = IF head_left > 0 THEN split \cup {"write"} ELSE split
  BY DEF WriteReturns
<1>3. k >= head_remain_len[p] /\ head_left = 0
  <2>1. ~ (head_left > 0)
    <3> HIDE DEF head_left
    <3>1. QED
      BY <1>2
  <2>2. k >= head_remain_len[p]
    BY <1>1, <2>1
  <2>3. QED
    BY <2>2
<1>4. BodyLeft(p, k) = head_remain_len[p] + body_remain_len[p] - k
  BY <1>1, <1>3 DEF BodyLeft
<1>5. /\ copied' = [copied EXCEPT ![p] = 0]
      /\ IF BodyLeft(p, k) = 0
           THEN CloseAfterResponse(p) \/ StartReceive(p, 0, 0)
           ELSE /\ head_remain_len' = [head_remain_len EXCEPT ![p] = 0]
                /\ body_remain_len' = [body_remain_len EXCEPT ![p] = BodyLeft(p, k)]
                /\ phase' = [phase EXCEPT ![p] = "send"]
                /\ UNCHANGED <<body_len, received, returned>>
  <2>1. /\ copied' = [copied EXCEPT ![p] = 0]
        /\ IF BodyLeft(p, k) = 0 /\ (p \in blocking => head_left = 0)
             THEN CloseAfterResponse(p) \/ StartReceive(p, head_left, BodyLeft(p, k))
             ELSE /\ head_remain_len' = [head_remain_len EXCEPT ![p] = head_left]
                  /\ body_remain_len' = [body_remain_len EXCEPT ![p] = BodyLeft(p, k)]
                  /\ phase' = [phase EXCEPT ![p] = "send"]
                  /\ UNCHANGED <<body_len, received, returned>>
    BY DEF WriteReturns
  <2> HIDE DEF head_left
  <2>2. QED
    BY <1>3, <2>1
<1>6. CASE BodyLeft(p, k) = 0
  <2>1. k = head_remain_len[p] + body_remain_len[p]
    BY <1>1, <1>4, <1>6
  <2>2. QED
    BY <1>3, <1>5, <1>6, <2>1
<1>7. CASE BodyLeft(p, k) # 0
  <2>1. k < head_remain_len[p] + body_remain_len[p]
    BY <1>1, <1>4, <1>7
  <2>2. QED
    BY <1>3, <1>4, <1>5, <1>7, <2>1
<1>8. QED
  BY <1>6, <1>7

-----------------------------------------------------------------------------
(* The peers stay in step                                                  *)

\* What the types say of two peers, p of which sent the last message, n.
LEMMA TurnFacts ==
    ASSUME TypeOK, NEW p \in Peers, NEW q \in Peers, q = Other(p), msg[p] > msg[q]
    PROVE  /\ p # q /\ p = Other(q) /\ Peers = {p, q}
           /\ msg[p] \in 1 .. Len(lens) /\ msg[q] \in Nat /\ Len(lens) \in Nat
           /\ lens[msg[p]] \in Nat /\ head_len \in Nat /\ head_len > 0
           /\ phase \in [Peers -> Phases]
           /\ \A o \in Peers :
                 /\ head_remain_len[o] \in 0 .. head_len /\ copied[o] \in Nat
                 /\ body_len[o] \in Int /\ body_remain_len[o] \in Int
                 /\ Sending(o) => body_len[o] \in Nat /\ body_remain_len[o] \in Nat
                 /\ Len(received[o]) \in Nat /\ Len(wire[o]) \in Nat
                 /\ received[o] \in Seq(Byte) /\ wire[o] \in Seq(Byte)
<1>1. p # q /\ p = Other(q) /\ Peers = {p, q}
  BY DEF Other, Peers
<1>2. /\ msg[p] \in 0 .. Len(lens) /\ msg[q] \in 0 .. Len(lens) /\ lens \in Seq(BodyLens)
      /\ phase \in [Peers -> Phases]
  BY DEF TypeOK, Types
<1>3. Len(lens) \in Nat
  BY <1>2, LenProperties
<1>4. msg[p] \in 1 .. Len(lens) /\ msg[q] \in Nat
  BY <1>2, <1>3
<1>5. lens[msg[p]] \in Nat
  BY <1>2, <1>4, MessageFacts
<1>6. \A o \in Peers : /\ head_remain_len[o] \in 0 .. head_len /\ copied[o] \in Nat
                       /\ body_len[o] \in Int /\ body_remain_len[o] \in Int
                       /\ Sending(o) => body_len[o] \in Nat /\ body_remain_len[o] \in Nat
                       /\ received[o] \in Seq(Byte) /\ wire[o] \in Seq(Byte)
  BY DEF TypeOK, Types, SendersCount, Sending, Byte
<1>7. \A o \in Peers : Len(received[o]) \in Nat /\ Len(wire[o]) \in Nat
  BY <1>6, LenProperties
<1>8. head_len \in 1 .. 20
  BY TDHBAssumption
<1>9. head_len \in Nat /\ head_len > 0
  BY <1>8
<1>10. QED
  BY <1>1, <1>2, <1>3, <1>4, <1>5, <1>6, <1>7, <1>9

\* A peer that closes leaves the other one where it is.
LEMMA CloseKeepsInStep ==
    ASSUME TypeOK, InStep, NEW p \in Peers, NEW v, phase[p] # "unconnected",
           Close(p, v), UNCHANGED context
    PROVE  InStep'
<1>t. phase \in [Peers -> Phases] /\ Peers = {"client", "server"}
  BY DEF TypeOK, Types, Peers
<1>1. /\ phase' = [phase EXCEPT ![p] = "closed"]
      /\ UNCHANGED <<head_remain_len, body_len, body_remain_len, copied, lens, msg, received, wire>>
  BY DEF Close, context
<1>2. CASE StartInv
  BY <1>t, <1>1, <1>2 DEF InStep, StartInv, NewContext
<1>3. ASSUME NEW s \in Peers, msg[s] > msg[Other(s)], TurnInv(s, Other(s), msg[s])
      PROVE  InStep'
  <2>o. PICK o \in Peers : o = Other(s) /\ o # s
    BY DEF Other, Peers
  <2>1. PICK n : o = Other(s) /\ n = msg[s] /\ o # s
    BY <2>o
  <2>2. /\ phase'[s] = phase[s] \/ phase'[s] = "closed"
        /\ phase'[o] = phase[o] \/ phase'[o] = "closed"
    BY <1>t, <1>1
  <2>3. TurnInv(s, o, n)
    BY <1>3, <2>1
  <2>4. TurnInv(s, o, n)'
    BY <1>1, <2>2, <2>3 DEF TurnInv, Sending, SenderInv, ReceiverInv, NewContext, Written, Carried
  <2>5. msg'[s] = n /\ n > msg'[o]
    BY <1>1, <1>3, <2>1
  <2>6. QED
    BY <2>1, <2>4, <2>5 DEF InStep
<1>4. QED
  BY <1>2, <1>3 DEF InStep

\* Before the first message: the peers connect, and the client sends it.
LEMMA StartKeepsInStep ==
    ASSUME TypeOK, ConnectInv, CopiedInv, StartInv, [Next]_vars
    PROVE  InStep'
<1>t. /\ phase \in [Peers -> Phases] /\ Peers = {"client", "server"}
      /\ msg \in [Peers -> 0 .. Len(lens)] /\ Len(lens) = 0 /\ head_len \in Nat /\ head_len > 0
      /\ Other("client") = "server" /\ Other("server") = "client"
      /\ head_remain_len \in [Peers -> 0 .. head_len] /\ copied \in [Peers -> Nat]
      /\ body_len \in [Peers -> Int] /\ body_remain_len \in [Peers -> Int]
  <2>1. head_len \in 1 .. 20
    BY TDHBAssumption
  <2>2. head_len \in Nat /\ head_len > 0
    BY <2>1
  <2>3. QED
    BY <2>2 DEF TypeOK, Types, Peers, StartInv, Other
<1>w. wire["client"] = <<>> /\ wire["server"] = <<>>
  BY DEF StartInv
<1>1. CASE TDHBConnect
  BY <1>t, <1>1 DEF InStep, StartInv, ConnectInv, TDHBConnect, NewContext, context
<1>2. CASE Disconnect
  BY <1>2 DEF StartInv, Disconnect
<1>3. ASSUME NEW p \in Peers, StartSend(p) PROVE InStep'
  <2>1. p = "client" /\ phase["client"] = "idle"
    BY <1>t, <1>3 DEF StartSend, StartInv
  <2>2. PICK len \in BodyLens :
           /\ lens' = Append(lens, len)
           /\ msg' = [msg EXCEPT ![p] = Len(lens) + 1]
           /\ body_len' = [body_len EXCEPT ![p] = len]
           /\ body_remain_len' = [body_remain_len EXCEPT ![p] = len]
    BY <1>3 DEF StartSend
  <2>3. /\ head_remain_len' = [head_remain_len EXCEPT ![p] = head_len]
        /\ phase' = [phase EXCEPT ![p] = "send"]
        /\ UNCHANGED <<blocking, copied, received, wire>>
    BY <1>3 DEF StartSend
  <2>4. Len(lens') = 1 /\ lens'[1] = len /\ len \in Nat
    <3>1. lens = <<>> /\ <<>> \in Seq(BodyLens) /\ Len(<<>>) = 0
      BY DEF StartInv
    <3>2. Len(Append(<<>>, len)) = 1 /\ Append(<<>>, len)[1] = len
      BY <3>1, AppendProperties
    <3>3. QED
      BY <2>2, <3>1, <3>2, TDHBAssumption
  <2>5. msg'["client"] = 1 /\ msg'["server"] = 0
    BY <1>t, <2>1, <2>2
  <2>6. SenderInv("client", 1)'
    <3>1. /\ head_remain_len'["client"] = head_len /\ copied'["client"] = 0
          /\ body_len'["client"] = len /\ body_remain_len'["client"] = len
      BY <1>t, <2>1, <2>2, <2>3 DEF CopiedInv
    <3>2. Written("client")' = 0
      BY <1>t, <3>1 DEF Written
    <3>3. QED
      BY <1>t, <2>4, <3>1, <3>2 DEF SenderInv
  <2>7. ASSUME phase'["server"] = "receive"
        PROVE  NewContext("server")' /\ received'["server"] = <<>> /\ wire'["server"] = <<>>
    BY <1>t, <1>w, <2>1, <2>2, <2>3, <2>7 DEF StartInv, NewContext
  <2>8. ASSUME phase'["server"] = "receive" PROVE Carried("server", 1, 0)'
    <3>1. Len(<<>>) = 0 /\ 1 .. 0 = {}
      OBVIOUS
    <3>2. PICK x, y : x = received'["server"] /\ y = wire'["server"]
      OBVIOUS
    <3>3. Len(x) = 0 /\ Len(y) = 0
      BY <2>7, <2>8, <3>1, <3>2
    <3>4. /\ \A i \in 1 .. Len(x) : x[i] = <<1, i>>
          /\ \A i \in 1 .. Len(y) : y[i] = <<1, Len(x) + i>>
          /\ Len(x) + Len(y) = 0
      BY <3>1, <3>3
    <3>5. QED
      BY <3>2, <3>4 DEF Carried
  <2>9. phase'["client"] = "send" /\ phase'["server"] \in {"receive", "closed"}
    BY <1>t, <2>1, <2>3 DEF StartInv
  <2>10. Written("client")' = 0 /\ 0 \in 0 .. head_len + lens'[1]
    <3>1. /\ head_remain_len'["client"] = head_len /\ copied'["client"] = 0
      BY <1>t, <2>1, <2>2, <2>3 DEF CopiedInv
    <3>2. QED
      BY <1>t, <2>4, <3>1 DEF Written
  <2>11. TurnInv("client", "server", 1)'
    BY <1>t, <1>w, <2>3, <2>4, <2>6, <2>7, <2>8, <2>9, <2>10 DEF TurnInv, ReceiverInv, Sending
  <2>12. QED
    BY <1>t, <2>5, <2>11 DEF InStep
<1>4. ASSUME NEW p \in Peers, PeerStep(p) PROVE InStep'
  <2>1. phase[p] \notin {"send", "blocked"}
    BY <1>t DEF StartInv
  <2>2. ~ WriteSome(p) /\ ~ WriteFails(p)
    BY <2>1 DEF WriteSome, WriteFails
  <2>3. Len(wire[p]) = 0
    BY <1>t, <1>w
  <2>4. ~ ReadHead(p)
    BY <1>t, <2>3 DEF ReadHead
  <2>5. ~ ReadBody(p)
    BY <1>t, <2>3 DEF ReadBody
  <2>6. CASE ReadClosed(p) \/ SelectEnds(p)
    <3>1. /\ phase[p] # "unconnected" /\ UNCHANGED context
          /\ \E v : Close(p, v)
      BY <2>6 DEF ReadClosed, SelectEnds
    <3>2. QED
      BY <3>1, CloseKeepsInStep DEF InStep
  <2>7. CASE ReadBodyClosed(p)
    BY <2>7 DEF ReadBodyClosed, InStep, StartInv, NewContext, context
  <2>8. ~ ReadFails(p)
    BY <1>t DEF StartInv, NewContext, ReadFails
  <2>9. QED
    BY <1>4, <2>2, <2>4, <2>5, <2>6, <2>7, <2>8 DEF PeerStep
<1>5. ASSUME NEW p \in Peers, CallFails(p) PROVE InStep'
  <2>1. /\ phase[p] # "unconnected" /\ UNCHANGED context
        /\ \E v : Close(p, v)
    BY <1>5 DEF CallFails
  <2>2. QED
    BY <2>1, CloseKeepsInStep DEF InStep
<1>6. CASE UNCHANGED vars
  BY <1>6 DEF vars, InStep, StartInv, NewContext, context
<1>7. QED
  BY <1>1, <1>2, <1>3, <1>4, <1>5, <1>6 DEF Next

\* The receiver of the last message, which has all of it, sends the next one.
LEMMA StartSendKeepsInStep ==
    ASSUME TypeOK, CopiedInv, NEW p \in Peers, NEW q \in Peers, q = Other(p), msg[p] > msg[q],
           TurnInv(p, q, msg[p]), NEW s \in Peers, StartSend(s)
    PROVE  InStep'
<1>t. /\ p # q /\ p = Other(q) /\ Peers = {p, q}
      /\ Len(lens) \in Nat /\ head_len \in Nat /\ head_len > 0
      /\ phase \in [Peers -> Phases]
  BY TurnFacts
<1>1. s = q /\ phase[q] = "idle" /\ msg[p] = Len(lens) /\ wire[q] = <<>>
  BY <1>t DEF StartSend, TurnInv
<1>2. PICK len \in BodyLens :
         /\ lens' = Append(lens, len)
         /\ msg' = [msg EXCEPT ![q] = Len(lens) + 1]
         /\ body_len' = [body_len EXCEPT ![q] = len]
         /\ body_remain_len' = [body_remain_len EXCEPT ![q] = len]
  BY <1>1 DEF StartSend
<1>3. /\ head_remain_len' = [head_remain_len EXCEPT ![q] = head_len]
      /\ phase' = [phase EXCEPT ![q] = "send"]
      /\ UNCHANGED <<blocking, copied, received, wire>>
  BY <1>1 DEF StartSend
<1>4. PICK n \in Nat : n = Len(lens) + 1
  BY <1>t
<1>5. Len(lens') = n /\ lens'[n] = len /\ len \in Nat
  BY <1>2, <1>4, AppendProperties, TDHBAssumption DEF TypeOK, Types
<1>6. msg'[q] = n /\ n > msg'[p]
  <2>1. msg'[q] = n /\ msg'[p] = Len(lens)
    BY <1>t, <1>1, <1>2, <1>4 DEF TypeOK, Types
  <2>2. n > Len(lens)
    BY <1>t, <1>4
  <2>3. QED
    BY <2>1, <2>2
<1>7. /\ head_remain_len'[q] = head_len /\ body_len'[q] = len /\ body_remain_len'[q] = len
      /\ copied'[q] = 0
  BY <1>t, <1>1, <1>2, <1>3 DEF TypeOK, Types, CopiedInv
<1>8. Written(q)' = 0
  BY <1>t, <1>7 DEF Written
<1>9. SenderInv(q, n)'
  BY <1>t, <1>5, <1>7, <1>8 DEF SenderInv
<1>10. phase'[q] = "send" /\ phase'[p] = phase[p] /\ phase[p] \in {"receive", "closed"}
  BY <1>t, <1>1, <1>3 DEF TurnInv
<1>11. wire'[p] = <<>> /\ wire'[q] = <<>>
  BY <1>1, <1>3 DEF TurnInv
<1>12. ASSUME phase'[p] = "receive"
       PROVE  NewContext(p)' /\ received'[p] = <<>> /\ Carried(p, n, 0)'
  <2>1. NewContext(p)' /\ received'[p] = <<>>
    BY <1>t, <1>2, <1>3, <1>10, <1>12 DEF TypeOK, Types, TurnInv, NewContext
  <2>2. Len(<<>>) = 0 /\ 1 .. 0 = {}
    OBVIOUS
  <2>3. PICK x, y : x = received'[p] /\ y = wire'[p]
    OBVIOUS
  <2>4. Len(x) = 0 /\ Len(y) = 0
    BY <1>11, <2>1, <2>2, <2>3
  <2>5. /\ \A i \in 1 .. Len(x) : x[i] = <<n, i>>
        /\ \A i \in 1 .. Len(y) : y[i] = <<n, Len(x) + i>>
        /\ Len(x) + Len(y) = 0
    BY <2>2, <2>4
  <2>6. Carried(p, n, 0)'
    BY <2>3, <2>5 DEF Carried
  <2>7. QED
    BY <2>1, <2>6
<1>13. TurnInv(q, p, n)'
  <2>1. 0 \in 0 .. head_len + lens'[n]
    BY <1>t, <1>5
  <2>2. QED
    BY <1>5, <1>8, <1>9, <1>10, <1>11, <1>12, <2>1 DEF TurnInv, Sending, ReceiverInv
<1>14. QED
  BY <1>t, <1>6, <1>13 DEF InStep

\* How far into its message a write of k bytes brings a sender whose last one, of which
\* the connection has taken c, began at w - c.
LEMMA WriteArithmetic ==
    ASSUME NEW hl \in Nat, hl > 0, NEW hr \in Nat, NEW br \in Nat, NEW c \in Nat, NEW l \in Nat,
           NEW b \in Int, NEW k \in Int, k <= hr + br, c < k, br <= l,
           \/ hr = hl /\ br = l /\ b = 0
           \/ hr = 0 /\ b = hl + l - br
    PROVE  /\ \A i \in 1 .. k - c : c + i \in 1 .. hr + br /\ b + (c + i) = (c + b) + i
           /\ (c + b) + (k - c) \in 0 .. hl + l
           /\ k + b = (c + b) + (k - c)
           /\ hl + l - (hr + br - k) = (c + b) + (k - c)
           /\ k < hr + br => (c + b) + (k - c) < hl + l
           /\ k >= hr => hr + br - k <= l
           /\ k = hr + br => (c + b) + (k - c) = hl + l
<1>1. CASE hr = hl /\ br = l /\ b = 0
  <2>1. \A i \in 1 .. k - c : c + i \in 1 .. hr + br /\ b + (c + i) = (c + b) + i
    OBVIOUS
  <2>2. (c + b) + (k - c) = k /\ k + b = k /\ hl + l - (hr + br - k) = k
    BY <1>1
  <2>3. k \in 0 .. hl + l
    BY <1>1
  <2>4. (k < hr + br => k < hl + l) /\ (k >= hr => hr + br - k <= l)
    BY <1>1
  <2>5. k = hr + br => k = hl + l
    BY <1>1
  <2>6. QED
    BY <1>1, <2>1, <2>2, <2>3, <2>4, <2>5
<1>2. CASE hr = 0 /\ b = hl + l - br
  <2>1. \A i \in 1 .. k - c : c + i \in 1 .. hr + br /\ b + (c + i) = (c + b) + i
    OBVIOUS
  <2>2. (c + b) + (k - c) = k + b /\ hl + l - (hr + br - k) = k + b
    BY <1>2
  <2>3. k + b \in 0 .. hl + l
    BY <1>2
  <2>4. (k < br => k + b < hl + l) /\ br - k <= l
    BY <1>2
  <2>5. k = br => k + b = hl + l
    BY <1>2
  <2>6. QED
    BY <1>2, <2>1, <2>2, <2>3, <2>4, <2>5
<1>3. QED
  BY <1>1, <1>2

\* The sender writes some of its message, perhaps the last of it.
LEMMA WriteKeepsInStep ==
    ASSUME TypeOK, NEW p \in Peers, NEW q \in Peers, q = Other(p), msg[p] > msg[q],
           TurnInv(p, q, msg[p]), NEW s \in Peers, WriteSome(s), split' = {}
    PROVE  InStep'
<1>t. /\ p # q /\ p = Other(q) /\ Peers = {p, q}
      /\ msg[p] \in 1 .. Len(lens) /\ lens[msg[p]] \in Nat
      /\ Len(lens) \in Nat /\ head_len \in Nat /\ head_len > 0
      /\ phase \in [Peers -> Phases]
      /\ head_remain_len[p] \in 0 .. head_len /\ copied[p] \in Nat
      /\ Sending(p) => body_len[p] \in Nat /\ body_remain_len[p] \in Nat
  BY TurnFacts
<1>1. s = p /\ Sending(p) /\ body_len[p] \in Nat /\ body_remain_len[p] \in Nat
  BY <1>t DEF WriteSome, TurnInv, Sending
<1>2. PICK n \in 1 .. Len(lens) : n = msg[p]
  BY <1>t
<1>3. PICK k \in 1 .. Len(Unsent(p)) :
           /\ copied[p] < k
           /\ wire' = [wire EXCEPT ![q] = @ \o SubSeq(Unsent(p), copied[p] + 1, k)]
           /\ SubSeq(Unsent(p), copied[p] + 1, k) \in Seq(Byte)
           /\ Len(SubSeq(Unsent(p), copied[p] + 1, k)) = k - copied[p]
           /\ \A i \in 1 .. k - copied[p] :
                 SubSeq(Unsent(p), copied[p] + 1, k)[i] = Unsent(p)[copied[p] + i]
           /\ \/ WriteReturns(p, k)
              \/ WriteBlocks(p, k)
  BY <1>1, WriteCases
<1>4. phase[q] = "receive"
  <2>1. phase[q] # "closed"
    BY <1>1, WriteCases
  <2>2. QED
    BY <1>1, <2>1 DEF TurnInv, Sending
<1>5. SenderInv(p, n) /\ Carried(q, n, Written(p)) /\ ReceiverInv(q, n) /\ wire[p] = <<>>
      /\ n = Len(lens)
  BY <1>1, <1>2, <1>4 DEF TurnInv
<1>6. PICK hr \in Nat, br \in Nat, c \in Nat, l \in Nat, b \in Int :
         /\ hr = head_remain_len[p] /\ br = body_remain_len[p] /\ c = copied[p] /\ l = lens[n]
         /\ b = IF hr > 0 THEN 0 ELSE head_len + l - br
  <2>1. head_remain_len[p] \in Nat
    BY <1>t
  <2>2. (IF head_remain_len[p] > 0 THEN 0 ELSE head_len + lens[n] - body_remain_len[p]) \in Int
    BY <1>t, <1>1, <1>2
  <2>3. QED
    BY <1>t, <1>1, <1>2, <2>1, <2>2
<1>7. /\ k \in Int /\ k <= hr + br /\ c < k /\ br <= l
      /\ \/ hr = head_len /\ br = l /\ b = 0
         \/ hr = 0 /\ b = head_len + l - br
      /\ body_len[p] = l /\ Written(p) = c + b
  <2>1. Len(Unsent(p)) = hr + br
    BY <1>1, <1>6, UnsentFacts
  <2>2. body_len[p] = l /\ br <= l /\ (hr = 0 \/ (hr = head_len /\ br = l))
    BY <1>5, <1>6 DEF SenderInv
  <2>3. Written(p) = c + b
    BY <1>6, <2>2 DEF Written
  <2>4. k \in Int /\ k <= hr + br
    <3>1. hr + br \in Nat
      OBVIOUS
    <3>2. QED
      BY <2>1, <3>1
  <2>5. \/ hr = head_len /\ br = l /\ b = 0
        \/ hr = 0 /\ b = head_len + l - br
    <3>1. b = IF hr > 0 THEN 0 ELSE head_len + l - br
      BY <1>6
    <3>2. CASE hr = 0
      BY <3>1, <3>2
    <3>3. CASE hr = head_len /\ br = l
      BY <1>t, <3>1, <3>3
    <3>4. QED
      BY <2>2, <3>2, <3>3
  <2>6. QED
    BY <1>3, <1>6, <2>2, <2>3, <2>4, <2>5
<1>a. /\ \A i \in 1 .. k - c : c + i \in 1 .. hr + br /\ b + (c + i) = (c + b) + i
      /\ (c + b) + (k - c) \in 0 .. head_len + l
      /\ k + b = (c + b) + (k - c)
      /\ head_len + l - (hr + br - k) = (c + b) + (k - c)
      /\ k < hr + br => (c + b) + (k - c) < head_len + l
      /\ k >= hr => hr + br - k <= l
      /\ k = hr + br => (c + b) + (k - c) = head_len + l
  <2>1. PICK hl \in Nat : hl = head_len /\ hl > 0
    BY <1>t
  <2>2. /\ k <= hr + br /\ c < k /\ br <= l
        /\ \/ hr = hl /\ br = l /\ b = 0
           \/ hr = 0 /\ b = hl + l - br
    BY <1>7, <2>1
  <2>3. PICK j \in Int : j = k
    BY <1>7
  <2>4. /\ \A i \in 1 .. j - c : c + i \in 1 .. hr + br /\ b + (c + i) = (c + b) + i
        /\ (c + b) + (j - c) \in 0 .. hl + l
        /\ j + b = (c + b) + (j - c)
        /\ hl + l - (hr + br - j) = (c + b) + (j - c)
        /\ j < hr + br => (c + b) + (j - c) < hl + l
        /\ j >= hr => hr + br - j <= l
        /\ j = hr + br => (c + b) + (j - c) = hl + l
    BY <2>1, <2>2, <2>3, WriteArithmetic
  <2>5. QED
    BY <2>1, <2>3, <2>4
<1>8. PICK bytes \in Seq(Byte) : /\ bytes = SubSeq(Unsent(p), copied[p] + 1, k)
                                 /\ Len(bytes) = k - c
                                 /\ \A i \in 1 .. Len(bytes) : bytes[i] = <<n, (c + b) + i>>
  <2>1. ASSUME NEW i \in 1 .. k - c PROVE Unsent(p)[c + i] = <<n, (c + b) + i>>
    <3>1. \A j \in 1 .. hr + br : Unsent(p)[j] = <<n, b + j>>
      <4>1. Written(p) - copied[p] = b
        BY <1>6, <1>7
      <4>2. \A j \in 1 .. head_remain_len[p] + body_remain_len[p] :
               Unsent(p)[j] = <<msg[p], Written(p) - copied[p] + j>>
        BY <1>1, <1>2, <1>5, UnsentFacts
      <4>3. QED
        BY <1>2, <1>6, <4>1, <4>2
    <3>2. c + i \in 1 .. hr + br /\ b + (c + i) = (c + b) + i
      BY <1>a
    <3>3. QED
      BY <3>1, <3>2
  <2>2. QED
    BY <1>3, <1>6, <2>1
<1>9. PICK len \in 0 .. head_len + l : len = (c + b) + (k - c)
  BY <1>a
<1>10. /\ k + b = len
       /\ head_len + l - (hr + br - k) = len
       /\ k < hr + br => len < head_len + l
       /\ k >= hr => hr + br - k <= l
       /\ k = hr + br => len = head_len + l
  BY <1>a, <1>9
<1>11. ASSUME received'[q] = received[q] PROVE Carried(q, n, len)'
  <2>1. wire' = [wire EXCEPT ![q] = @ \o bytes]
    BY <1>3, <1>8
  <2>2. PICK w : w = c + b
    OBVIOUS
  <2>3. Carried(q, n, w)
    BY <1>5, <1>7, <2>2
  <2>4. Carried(q, n, w + Len(bytes))'
    BY <1>8, <1>11, <2>1, <2>2, <2>3, WriteKeepsCarried
  <2>5. QED
    BY <1>8, <1>9, <2>2, <2>4
<1>12. UNCHANGED <<lens, msg>> /\ wire'[p] = <<>>
  BY <1>t, <1>1, <1>3, <1>5 DEF WriteSome, TypeOK, Types
<1>13. ASSUME /\ phase'[q] = phase[q] /\ received'[q] = received[q]
              /\ head_remain_len'[q] = head_remain_len[q]
              /\ body_len'[q] = body_len[q] /\ body_remain_len'[q] = body_remain_len[q],
              phase'[p] \in {"send", "blocked", "receive", "closed"},
              Sending(p)' => SenderInv(p, n)' /\ Written(p)' = len,
              phase'[p] = "receive" =>
                 NewContext(p)' /\ received'[p] = <<>> /\ len = head_len + l
       PROVE  InStep'
  <2>1. ReceiverInv(q, n)'
    BY <1>5, <1>12, <1>13 DEF ReceiverInv, NewContext
  <2>2. len \in 0 .. head_len + lens'[n] /\ lens'[n] = l
    BY <1>6, <1>9, <1>12
  <2>3. TurnInv(p, q, n)'
    BY <1>4, <1>5, <1>11, <1>12, <1>13, <2>1, <2>2 DEF TurnInv
  <2>4. msg'[p] = n /\ n > msg'[q]
    BY <1>2, <1>12
  <2>5. QED
    BY <2>3, <2>4 DEF InStep
<1>14. /\ head_remain_len \in [Peers -> 0 .. head_len] /\ body_len \in [Peers -> Int]
       /\ body_remain_len \in [Peers -> Int] /\ copied \in [Peers -> Nat]
       /\ received \in [Peers -> Seq(Nat \X Nat)]
  BY DEF TypeOK, Types
<1>15. CASE WriteBlocks(p, k)
  <2>1. /\ phase' = [phase EXCEPT ![p] = "blocked"] /\ copied' = [copied EXCEPT ![p] = k]
        /\ UNCHANGED <<head_remain_len, body_len, body_remain_len, received>>
        /\ k < hr + br
    BY <1>1, <1>6, <1>15, UnsentFacts DEF WriteBlocks
  <2>2. copied'[p] = k /\ phase'[p] = "blocked" /\ phase'[q] = phase[q]
    BY <1>t, <1>14, <2>1
  <2>3. Written(p)' = len
    <3>1. Written(p)' = k + IF hr > 0 THEN 0 ELSE head_len + l - br
      BY <1>6, <1>7, <2>1, <2>2 DEF Written
    <3>2. QED
      BY <1>6, <1>10, <3>1
  <2>4. SenderInv(p, n)'
    <3>1. len < head_len + l
      BY <1>10, <2>1
    <3>2. lens'[n] = l
      BY <1>6, <1>12
    <3>3. QED
      BY <1>6, <1>7, <2>1, <2>3, <3>1, <3>2 DEF SenderInv
  <2>5. QED
    BY <1>13, <2>1, <2>2, <2>3, <2>4
<1>16. CASE WriteReturns(p, k)
  <2>1. /\ copied' = [copied EXCEPT ![p] = 0] /\ k >= hr
        /\ \/ /\ k = hr + br
              /\ CloseAfterResponse(p) \/ StartReceive(p, 0, 0)
           \/ /\ k < hr + br
              /\ head_remain_len' = [head_remain_len EXCEPT ![p] = 0]
              /\ body_remain_len' = [body_remain_len EXCEPT ![p] = hr + br - k]
              /\ phase' = [phase EXCEPT ![p] = "send"]
              /\ UNCHANGED <<body_len, received, returned>>
    BY <1>1, <1>2, <1>5, <1>6, <1>16, WriteOutcome
  <2>2. CASE k = hr + br /\ CloseAfterResponse(p)
    <3>1. /\ phase' = [phase EXCEPT ![p] = "closed"]
          /\ UNCHANGED <<head_remain_len, body_len, body_remain_len, received>>
      BY <2>2 DEF CloseAfterResponse
    <3>2. phase'[p] = "closed" /\ phase'[q] = phase[q]
      BY <1>t, <3>1
    <3>3. QED
      BY <1>13, <3>1, <3>2 DEF Sending
  <2>3. CASE k = hr + br /\ StartReceive(p, 0, 0)
    <3>1. /\ phase' = [phase EXCEPT ![p] = "receive"]
          /\ received' = [received EXCEPT ![p] = <<>>]
          /\ head_remain_len' = [head_remain_len EXCEPT ![p] = head_len]
          /\ body_remain_len' = [body_remain_len EXCEPT ![p] = 0]
          /\ body_len' = [body_len EXCEPT ![p] = 0]
      BY <2>3 DEF StartReceive
    <3>2. /\ phase'[p] = "receive" /\ phase'[q] = phase[q]
          /\ NewContext(p)' /\ received'[p] = <<>>
          /\ received'[q] = received[q] /\ head_remain_len'[q] = head_remain_len[q]
          /\ body_len'[q] = body_len[q] /\ body_remain_len'[q] = body_remain_len[q]
      BY <1>t, <1>14, <3>1 DEF NewContext
    <3>3. len = head_len + l
      BY <1>10, <2>3
    <3>4. QED
      BY <1>13, <3>2, <3>3 DEF Sending
  <2>4. CASE /\ k < hr + br
             /\ head_remain_len' = [head_remain_len EXCEPT ![p] = 0]
             /\ body_remain_len' = [body_remain_len EXCEPT ![p] = hr + br - k]
             /\ phase' = [phase EXCEPT ![p] = "send"]
             /\ UNCHANGED <<body_len, received, returned>>
    <3>1. /\ phase'[p] = "send" /\ phase'[q] = phase[q]
          /\ head_remain_len'[p] = 0 /\ body_remain_len'[p] = hr + br - k
          /\ head_remain_len'[q] = head_remain_len[q]
          /\ body_remain_len'[q] = body_remain_len[q]
          /\ body_len'[p] = l /\ copied'[p] = 0
      BY <1>t, <1>7, <1>14, <2>1, <2>4
    <3>2. Written(p)' = len
      <4>1. Written(p)' = 0 + (head_len + l - (hr + br - k))
        BY <3>1 DEF Written
      <4>2. QED
        BY <1>6, <1>9, <1>10, <4>1
    <3>3. SenderInv(p, n)'
      <4>1. len < head_len + l /\ hr + br - k <= l
        BY <1>10, <2>1, <2>4
      <4>2. lens'[n] = l
        BY <1>6, <1>12
      <4>3. QED
        BY <3>1, <3>2, <4>1, <4>2 DEF SenderInv
    <3>4. QED
      BY <1>13, <2>4, <3>1, <3>2, <3>3
  <2>5. QED
    BY <2>1, <2>2, <2>3, <2>4
<1>17. QED
  BY <1>3, <1>15, <1>16

\* The receiver reads the head, all of it, which shows the length of the body.
LEMMA ReadHeadKeepsInStep ==
    ASSUME TypeOK, NEW p \in Peers, NEW q \in Peers, q = Other(p), msg[p] > msg[q],
           TurnInv(p, q, msg[p]), HeadsFit, NEW s \in Peers, ReadHead(s), split' = {}
    PROVE  InStep'
<1>t. /\ p # q /\ p = Other(q) /\ Peers = {p, q}
      /\ msg[p] \in 1 .. Len(lens) /\ lens[msg[p]] \in Nat
      /\ head_len \in Nat /\ head_len > 0
      /\ phase \in [Peers -> Phases] /\ head_remain_len[q] \in 0 .. head_len
      /\ Len(received[q]) \in Nat /\ Len(wire[q]) \in Nat
      /\ wire[q] \in Seq(Byte) /\ received[q] \in Seq(Byte)
  BY TurnFacts
<1>f. /\ head_remain_len \in [Peers -> 0 .. head_len] /\ body_len \in [Peers -> Int]
      /\ body_remain_len \in [Peers -> Int] /\ received \in [Peers -> Seq(Nat \X Nat)]
      /\ wire \in [Peers -> Seq(Nat \X Nat)] /\ lens \in Seq(BodyLens)
  BY DEF TypeOK, Types
<1>0. PICK n \in 1 .. Len(lens) : n = msg[p]
  BY <1>t
<1>1. s = q
  <2>1. wire[p] = <<>> /\ Len(<<>>) = 0
    BY DEF TurnInv
  <2>2. ASSUME s = p PROVE FALSE
    <3>1. PICK k \in 1 .. head_remain_len[p] : k <= Len(wire[p])
      BY <2>2 DEF ReadHead
    <3>2. head_remain_len[p] \in Nat
      BY <1>t, <1>f
    <3>3. QED
      BY <2>1, <3>1, <3>2
  <2>3. QED
    BY <1>t, <2>2
<1>2. phase[q] = "receive" /\ head_remain_len[q] > 0
  BY <1>1 DEF ReadHead
<1>3. /\ head_remain_len[q] = head_len /\ received[q] = <<>> /\ NewContext(q) /\ n = Len(lens)
      /\ wire[p] = <<>>
  BY <1>0, <1>2 DEF TurnInv, ReceiverInv, NewContext
<1>4. PICK len \in 0 .. head_len + lens[n] :
                /\ Carried(q, n, len)
                /\ Sending(p) => len = Written(p)
                /\ phase[p] = "receive" => len = head_len + lens[n]
  BY <1>0, <1>2 DEF TurnInv
<1>5. PICK k \in 1 .. head_remain_len[q] :
         /\ k <= Len(wire[q])
         /\ received' = [received EXCEPT ![q] = received[q] \o SubSeq(wire[q], 1, k)]
         /\ wire' = [wire EXCEPT ![q] = SubSeq(@, k + 1, Len(@))]
         /\ head_remain_len' = [head_remain_len EXCEPT ![q] = @ - k]
         /\ split' = IF k < head_remain_len[q] THEN split \cup {"read"} ELSE split
         /\ k = head_remain_len[q] =>
              \E m \in LengthIn(received[q] \o SubSeq(wire[q], 1, k)) :
                 /\ body_len' = [body_len EXCEPT ![q] = m]
                 /\ \/ /\ phase' = [phase EXCEPT ![q] = "closed"]
                       /\ UNCHANGED body_remain_len
                    \/ /\ body_remain_len' = [body_remain_len EXCEPT ![q] = BodyToRead(m, k)]
                       /\ phase' = [phase EXCEPT ![q] =
                                      IF BodyToRead(m, k) = 0 THEN "idle" ELSE @]
  <2>1. PICK k \in 1 .. head_remain_len[q] :
         /\ k <= Len(wire[q])
         /\ received' = [received EXCEPT ![q] = received[q] \o SubSeq(wire[q], 1, k)]
         /\ wire' = [wire EXCEPT ![q] = SubSeq(@, k + 1, Len(@))]
         /\ head_remain_len' = [head_remain_len EXCEPT ![q] = @ - k]
         /\ split' = IF k < head_remain_len[q] THEN split \cup {"read"} ELSE split
         /\ \/ k < head_remain_len[q]
            \/ \E m \in LengthIn(received[q] \o SubSeq(wire[q], 1, k)) :
                 /\ body_len' = [body_len EXCEPT ![q] = m]
                 /\ \/ /\ phase' = [phase EXCEPT ![q] = "closed"]
                       /\ UNCHANGED body_remain_len
                    \/ /\ body_remain_len' = [body_remain_len EXCEPT ![q] = BodyToRead(m, k)]
                       /\ phase' = [phase EXCEPT ![q] =
                                      IF BodyToRead(m, k) = 0 THEN "idle" ELSE @]
    <3>1. PICK k \in 1 .. head_remain_len[q] :
         /\ k <= Len(wire[q])
         /\ received' = [received EXCEPT ![q] = received[q] \o SubSeq(wire[q], 1, k)]
         /\ wire' = [wire EXCEPT ![q] = SubSeq(@, k + 1, Len(@))]
         /\ head_remain_len' = [head_remain_len EXCEPT ![q] = @ - k]
         /\ split' = IF k < head_remain_len[q] THEN split \cup {"read"} ELSE split
         /\ IF k < head_remain_len[q]
              THEN UNCHANGED <<phase, returned, body_len, body_remain_len>>
              ELSE \E m \in LengthIn(received[q] \o SubSeq(wire[q], 1, k)) :
                 /\ body_len' = [body_len EXCEPT ![q] = m]
                 /\ IF m > body_bufsize
                      THEN /\ phase' = [phase EXCEPT ![q] = "closed"]
                           /\ returned' = [returned EXCEPT ![q] = "ERROR"]
                           /\ UNCHANGED body_remain_len
                      ELSE /\ body_remain_len' = [body_remain_len EXCEPT ![q] = BodyToRead(m, k)]
                           /\ phase' = [phase EXCEPT ![q] =
                                          IF BodyToRead(m, k) = 0 THEN "idle" ELSE @]
                           /\ UNCHANGED returned
      <4>1. ReadHead(q)
        BY <1>1
      <4>2. QED
        BY <4>1 DEF ReadHead
    <3>2. CASE k < head_remain_len[q]
      BY <3>1, <3>2
    <3>3. CASE ~ (k < head_remain_len[q])
      <4>1. PICK m \in LengthIn(received[q] \o SubSeq(wire[q], 1, k)) :
               /\ body_len' = [body_len EXCEPT ![q] = m]
               /\ \/ /\ phase' = [phase EXCEPT ![q] = "closed"]
                     /\ UNCHANGED body_remain_len
                  \/ /\ body_remain_len' = [body_remain_len EXCEPT ![q] = BodyToRead(m, k)]
                     /\ phase' = [phase EXCEPT ![q] =
                                    IF BodyToRead(m, k) = 0 THEN "idle" ELSE @]
        BY <3>1, <3>3
      <4>2. QED
        BY <3>1, <4>1
    <3>4. QED
      BY <3>2, <3>3
  <2>2. k = head_remain_len[q] => ~ (k < head_remain_len[q])
    BY <1>t
  <2>3. QED
    BY <2>1, <2>2
<1>6. k = head_len /\ k \in Nat
  <2>1. ~ (k < head_remain_len[q])
    BY <1>5
  <2>2. QED
    BY <1>t, <1>3, <1>5, <2>1
<1>7. /\ Carried(q, n, len)' /\ Len(received'[q]) = head_len
      /\ Len(wire'[q]) = Len(wire[q]) - head_len
      /\ received'[q] \in Seq(Byte) /\ wire'[q] \in Seq(Byte)
  <2>1. /\ Carried(q, n, len)' /\ Len(received'[q]) = Len(received[q]) + k
        /\ Len(wire'[q]) = Len(wire[q]) - k
        /\ received'[q] \in Seq(Byte) /\ wire'[q] \in Seq(Byte)
    <3>1. /\ received' = [received EXCEPT ![q] = @ \o SubSeq(wire[q], 1, k)]
          /\ wire' = [wire EXCEPT ![q] = SubSeq(@, k + 1, Len(@))]
          /\ k \in Nat /\ k <= Len(wire[q]) /\ Carried(q, n, len)
      BY <1>4, <1>5, <1>6
    <3>2. QED
      BY <3>1, ReadKeepsCarried
  <2>2. Len(received[q]) = 0
    BY <1>3
  <2>3. QED
    BY <1>6, <2>1, <2>2
<1>8. received'[q] = HeadOf(n)
  <2>1. PICK x \in Seq(Byte) : x = received'[q] /\ Len(x) = head_len
    BY <1>7
  <2>2. \A i \in 1 .. head_len : x[i] = <<n, i>>
    BY <1>7, <2>1 DEF Carried
  <2>3. PICK y \in Seq(Byte) : /\ y = HeadOf(n) /\ Len(y) = head_len
                               /\ \A i \in 1 .. head_len : y[i] = <<n, i>>
    BY <1>f, MessageFacts
  <2>4. x = y
    <3>1. \A i \in 1 .. Len(x) : x[i] = y[i]
      BY <2>1, <2>2, <2>3
    <3>2. QED
      BY <2>1, <2>3, <3>1, SeqEqual
  <2>5. QED
    BY <2>1, <2>3, <2>4
<1>9. LengthIn(received[q] \o SubSeq(wire[q], 1, k)) = {lens[n]}
  <2>1. received'[q] = received[q] \o SubSeq(wire[q], 1, k)
    BY <1>5, <1>f
  <2>2. Fits(lens[n])
    <3>1. DOMAIN lens = 1 .. Len(lens)
      BY <1>f, LenProperties
    <3>2. QED
      BY <3>1 DEF HeadsFit
  <2>3. QED
    BY <1>8, <1>f, <2>1, <2>2, LengthInFacts
<1>10. BodyToRead(lens[n], k) = lens[n]
  BY <1>t, <1>0, <1>6 DEF BodyToRead
<1>11. /\ body_len' = [body_len EXCEPT ![q] = lens[n]]
       /\ \/ /\ phase' = [phase EXCEPT ![q] = "closed"]
             /\ UNCHANGED body_remain_len
          \/ /\ body_remain_len' = [body_remain_len EXCEPT ![q] = lens[n]]
             /\ phase' = [phase EXCEPT ![q] = IF lens[n] = 0 THEN "idle" ELSE @]
  BY <1>3, <1>5, <1>6, <1>9, <1>10
<1>12. UNCHANGED <<copied, lens, msg>>
  BY <1>1 DEF ReadHead
<1>13. /\ phase'[p] = phase[p] /\ wire'[p] = wire[p] /\ received'[p] = received[p]
       /\ head_remain_len'[p] = head_remain_len[p] /\ body_len'[p] = body_len[p]
       /\ body_remain_len'[p] = body_remain_len[p] /\ copied'[p] = copied[p]
       /\ head_remain_len'[q] = 0 /\ body_len'[q] = lens[n]
  <2>1. head_remain_len[q] - k = 0
    BY <1>t, <1>3, <1>6
  <2>2. head_remain_len'[q] = 0
    BY <1>f, <1>5, <2>1
  <2>3. /\ wire'[p] = wire[p] /\ received'[p] = received[p]
        /\ head_remain_len'[p] = head_remain_len[p]
    BY <1>t, <1>f, <1>5
  <2>4. /\ phase'[p] = phase[p] /\ body_len'[p] = body_len[p]
        /\ body_remain_len'[p] = body_remain_len[p]
    BY <1>t, <1>f, <1>11
  <2>5. QED
    BY <1>f, <1>11, <1>12, <2>2, <2>3, <2>4
<1>14. /\ Sending(p) => SenderInv(p, n)' /\ len = Written(p)' /\ len < head_len + lens[n]
       /\ phase'[p] = "receive" =>
            NewContext(p)' /\ received'[p] = <<>> /\ len = head_len + lens[n]
  BY <1>0, <1>4, <1>12, <1>13 DEF TurnInv, Sending, SenderInv, Written, NewContext
<1>15. Len(wire'[q]) = len - head_len
  <2>1. Len(received[q]) + Len(wire[q]) = len /\ Len(received[q]) = 0
    BY <1>3, <1>4 DEF Carried
  <2>2. PICK a \in Nat : a = Len(wire[q])
    BY <1>t
  <2>3. a = len
    BY <2>1, <2>2
  <2>4. QED
    BY <1>7, <2>2, <2>3
<1>16. ASSUME phase'[q] = "receive" PROVE ReceiverInv(q, n)'
  <2>1. lens[n] # 0 /\ body_remain_len'[q] = lens[n]
    BY <1>t, <1>f, <1>11, <1>16
  <2>2. lens[n] \in 1 .. lens[n] /\ head_len + lens[n] - lens[n] = head_len
    BY <1>t, <1>0, <2>1
  <2>3. QED
    BY <1>7, <1>12, <1>13, <2>1, <2>2 DEF ReceiverInv
<1>17. ASSUME phase'[q] = "idle"
       PROVE  /\ phase[p] \in {"receive", "closed"} /\ wire'[q] = <<>>
              /\ Carried(q, n, head_len + lens[n])'
  <2>1. lens[n] = 0
    BY <1>t, <1>2, <1>11, <1>17
  <2>2. len = head_len + lens[n] /\ len = head_len
    BY <1>t, <1>4, <1>7, <1>15, <2>1, LenProperties
  <2>3. ~ Sending(p)
    BY <1>t, <1>14, <2>2
  <2>4. wire'[q] = <<>>
    <3>1. PICK y \in Seq(Byte) : y = wire'[q] /\ Len(y) = 0
      BY <1>t, <1>7, <1>15, <2>2
    <3>2. QED
      BY <3>1, EmptySeq
  <2>5. Carried(q, n, head_len + lens[n])'
    BY <1>7, <1>12, <2>2 DEF Carried
  <2>6. QED
    BY <2>3, <2>4, <2>5 DEF TurnInv, Sending
<1>18. phase'[q] \in {"receive", "idle", "closed"}
  BY <1>t, <1>2, <1>11
<1>19. TurnInv(p, q, n)'
  BY <1>0, <1>3, <1>7, <1>12, <1>13, <1>14, <1>16, <1>17, <1>18 DEF TurnInv, Sending
<1>20. QED
  BY <1>0, <1>12, <1>19 DEF InStep

\* The receiver reads some of the body, perhaps the last of it.
LEMMA ReadBodyKeepsInStep ==
    ASSUME TypeOK, NEW p \in Peers, NEW q \in Peers, q = Other(p), msg[p] > msg[q],
           TurnInv(p, q, msg[p]), NEW s \in Peers, ReadBody(s)
    PROVE  InStep'
<1>t. /\ p # q /\ p = Other(q) /\ Peers = {p, q}
      /\ msg[p] \in 1 .. Len(lens) /\ lens[msg[p]] \in Nat
      /\ head_len \in Nat /\ head_len > 0
      /\ phase \in [Peers -> Phases]
      /\ body_remain_len[q] \in Int /\ Len(received[q]) \in Nat /\ Len(wire[q]) \in Nat
  BY TurnFacts
<1>f. /\ body_remain_len \in [Peers -> Int] /\ received \in [Peers -> Seq(Nat \X Nat)]
      /\ wire \in [Peers -> Seq(Nat \X Nat)]
  BY DEF TypeOK, Types
<1>0. PICK n \in 1 .. Len(lens) : n = msg[p]
  BY <1>t
<1>1. s = q /\ phase[q] = "receive" /\ head_remain_len[q] = 0
  <2>1. phase[s] = "receive" /\ head_remain_len[s] = 0
    BY DEF ReadBody
  <2>2. ~ (s = p)
    BY <1>t, <2>1 DEF TurnInv, NewContext
  <2>3. QED
    BY <1>t, <2>1, <2>2
<1>2. PICK l \in Nat, br \in Int : l = lens[n] /\ br = body_remain_len[q]
  BY <1>t, <1>0
<1>3. /\ body_len[q] = l /\ br \in 1 .. l /\ Len(received[q]) = head_len + l - br
      /\ n = Len(lens) /\ wire[p] = <<>>
  <2>1. ReceiverInv(q, n) /\ n = Len(lens) /\ wire[p] = <<>>
    BY <1>0, <1>1 DEF TurnInv
  <2>2. ~ NewContext(q)
    BY <1>t, <1>1 DEF NewContext
  <2>3. QED
    BY <1>2, <2>1, <2>2 DEF ReceiverInv
<1>4. PICK len \in 0 .. head_len + l :
                /\ Carried(q, n, len)
                /\ Sending(p) => len = Written(p)
                /\ phase[p] = "receive" => len = head_len + l
  BY <1>0, <1>1, <1>2 DEF TurnInv
<1>5. PICK k \in 1 .. br :
         /\ k <= Len(wire[q])
         /\ received' = [received EXCEPT ![q] = @ \o SubSeq(wire[q], 1, k)]
         /\ wire' = [wire EXCEPT ![q] = SubSeq(@, k + 1, Len(@))]
         /\ body_remain_len' = [body_remain_len EXCEPT ![q] = @ - k]
         /\ phase' = [phase EXCEPT ![q] = IF k = br THEN "idle" ELSE @]
  <2>1. ReadBody(q)
    BY <1>1
  <2>2. QED
    BY <1>2, <2>1 DEF ReadBody
<1>6. UNCHANGED <<head_remain_len, body_len, copied, lens, msg>>
  BY DEF ReadBody
<1>7. /\ Carried(q, n, len)' /\ Len(received'[q]) = Len(received[q]) + k
      /\ Len(wire'[q]) = Len(wire[q]) - k
      /\ received'[q] \in Seq(Byte) /\ wire'[q] \in Seq(Byte)
  <2>1. k \in Nat
    OBVIOUS
  <2>2. QED
    BY <1>4, <1>5, <2>1, ReadKeepsCarried
<1>8. PICK r \in Nat, w \in Nat, y \in Seq(Byte) :
         /\ r = Len(received[q]) /\ w = Len(wire[q]) /\ r + w = len /\ y = wire'[q]
  BY <1>t, <1>4, <1>7 DEF Carried
<1>9. /\ Len(received'[q]) = r + k /\ Len(y) = w - k /\ r = head_len + l - br /\ k <= w
  BY <1>3, <1>5, <1>7, <1>8
<1>10. /\ phase'[p] = phase[p] /\ wire'[p] = wire[p] /\ received'[p] = received[p]
       /\ body_remain_len'[p] = body_remain_len[p] /\ body_remain_len'[q] = br - k
       /\ phase'[q] = IF k = br THEN "idle" ELSE "receive"
  BY <1>t, <1>f, <1>1, <1>2, <1>5
<1>11. /\ Sending(p) => SenderInv(p, n)' /\ len = Written(p)' /\ len < head_len + l
       /\ phase'[p] = "receive" =>
            NewContext(p)' /\ received'[p] = <<>> /\ len = head_len + l
  BY <1>0, <1>2, <1>4, <1>6, <1>10 DEF TurnInv, Sending, SenderInv, Written, NewContext
<1>12. ASSUME k # br PROVE ReceiverInv(q, n)'
  <2>1. r + k = head_len + l - (br - k) /\ br - k \in 1 .. l
    <3>1. PICK hl \in Nat : hl = head_len /\ r = hl + l - br
      BY <1>t, <1>9
    <3>2. k \in Int /\ 1 <= k /\ k <= br /\ 1 <= br /\ br <= l /\ k # br
      BY <1>3, <1>12
    <3>3. r + k = hl + l - (br - k)
      BY <3>1, <3>2
    <3>4. br - k \in 1 .. l
      BY <3>2
    <3>5. QED
      BY <3>1, <3>3, <3>4
  <2>2. QED
    BY <1>1, <1>2, <1>3, <1>6, <1>9, <1>10, <2>1 DEF ReceiverInv
<1>13. ASSUME k = br
       PROVE  /\ phase[p] \in {"receive", "closed"} /\ wire'[q] = <<>>
              /\ Carried(q, n, head_len + l)'
  <2>1. len = head_len + l /\ w - k = 0
    <3>1. PICK sum \in Nat : sum = head_len + l
      BY <1>t
    <3>2. r = sum - k /\ k <= w /\ r + w = len
      <4>1. r = head_len + l - k /\ k <= w
        BY <1>9, <1>13
      <4>2. r + w = len
        BY <1>8
      <4>3. head_len \in Nat
        BY <1>t
      <4>4. QED
        BY <3>1, <4>1, <4>2, <4>3
    <3>3. len \in Nat /\ len <= sum
      BY <3>1
    <3>4. len = sum /\ w - k = 0
      BY <3>2, <3>3
    <3>5. QED
      BY <3>1, <3>4
  <2>2. ~ Sending(p)
    BY <1>t, <1>11, <2>1
  <2>3. wire'[q] = <<>>
    BY <1>8, <1>9, <2>1, EmptySeq
  <2>4. QED
    BY <1>0, <1>7, <2>1, <2>2, <2>3 DEF TurnInv, Sending
<1>14. TurnInv(p, q, n)'
  <2>1. lens' = lens /\ lens'[n] = l
    BY <1>2, <1>6
  <2>2. phase[p] \in {"send", "blocked", "receive", "closed"}
    BY DEF TurnInv
  <2>3. CASE k = br
    BY <1>3, <1>10, <1>11, <1>13, <2>1, <2>2, <2>3 DEF TurnInv, Sending
  <2>4. CASE k # br
    BY <1>3, <1>7, <1>10, <1>11, <1>12, <2>1, <2>2, <2>4 DEF TurnInv, Sending
  <2>5. QED
    BY <2>3, <2>4
<1>15. QED
  BY <1>0, <1>6, <1>14 DEF InStep

\* Every step keeps the peers in step, as long as heads fit and go through in one piece.
LEMMA TurnKeepsInStep ==
    ASSUME TypeOK, ConnectInv, CopiedInv, HeadsFit, InStep, [Next]_vars, split' = {},
           NEW p \in Peers, msg[p] > msg[Other(p)], TurnInv(p, Other(p), msg[p])
    PROVE  InStep'
<1>1. PICK q \in Peers : q = Other(p)
  BY DEF Other, Peers
<1>t. Peers = {p, q} /\ msg[p] > msg[q] /\ TurnInv(p, q, msg[p])
  BY <1>1 DEF Other, Peers
<1>2. CASE TDHBConnect
  BY <1>t, <1>2 DEF TDHBConnect, TurnInv, Peers
<1>3. CASE Disconnect
  <2>1. /\ "client" \in Peers /\ phase["client"] # "unconnected" /\ Close("client", "done")
        /\ UNCHANGED context
    BY <1>3 DEF Disconnect, Peers
  <2>2. QED
    BY <2>1, CloseKeepsInStep
<1>4. ASSUME NEW s \in Peers, StartSend(s) PROVE InStep'
  BY <1>1, <1>t, <1>4, StartSendKeepsInStep
<1>5. ASSUME NEW s \in Peers, WriteSome(s) PROVE InStep'
  BY <1>1, <1>t, <1>5, WriteKeepsInStep
<1>6. ASSUME NEW s \in Peers, ReadHead(s) PROVE InStep'
  BY <1>1, <1>t, <1>6, ReadHeadKeepsInStep
<1>7. ASSUME NEW s \in Peers, ReadBody(s) PROVE InStep'
  BY <1>1, <1>t, <1>7, ReadBodyKeepsInStep
<1>8. ASSUME NEW s \in Peers,
             WriteFails(s) \/ ReadClosed(s) \/ ReadFails(s) \/ SelectEnds(s) \/ CallFails(s)
      PROVE  InStep'
  <2>1. phase[s] # "unconnected" /\ UNCHANGED context /\ \E v : Close(s, v)
    BY <1>8 DEF WriteFails, ReadClosed, ReadFails, SelectEnds, CallFails
  <2>2. QED
    BY <2>1, CloseKeepsInStep
<1>9. ASSUME NEW s \in Peers, ReadBodyClosed(s) PROVE InStep'
  <2>1. UNCHANGED <<phase, head_remain_len, body_len, body_remain_len, copied, lens, msg,
                    received, wire>>
    BY <1>9 DEF ReadBodyClosed, context
  <2>2. QED
    BY <2>1 DEF InStep, StartInv, TurnInv, Sending, SenderInv, ReceiverInv, NewContext, Written, Carried
<1>10. CASE UNCHANGED vars
  <2>1. UNCHANGED <<phase, head_remain_len, body_len, body_remain_len, copied, lens, msg,
                    received, wire>>
    BY <1>10 DEF vars, context
  <2>2. QED
    BY <2>1 DEF InStep, StartInv, TurnInv, Sending, SenderInv, ReceiverInv, NewContext, Written, Carried
<1>11. QED
  BY <1>2, <1>3, <1>4, <1>5, <1>6, <1>7, <1>8, <1>9, <1>10 DEF Next, PeerStep

\* A receiver has nothing of a head, or all of it and a body for which there is room.
Receiving(p) == phase[p] = "receive" \/ (phase[p] = "unconnected" /\ p = "server")
RoomInv ==
    split = {} => \A p \in Peers : Receiving(p) =>
        \/ head_remain_len[p] = head_len
        \/ /\ head_remain_len[p] = 0
           /\ body_remain_len[p] <= body_len[p] /\ body_len[p] <= body_bufsize

\* As long as heads go through in one piece every body that is read has its room, whether
\* its length fits its head or not.
LEMMA NextRoomInv == TypeOK /\ ConnectInv /\ RoomInv /\ [Next]_vars => RoomInv'
<1> SUFFICES ASSUME TypeOK, ConnectInv, RoomInv, [Next]_vars, split' = {} PROVE RoomInv'
  BY DEF RoomInv
<1>t. /\ phase \in [Peers -> Phases] /\ Peers = {"client", "server"} /\ head_len \in Nat
      /\ head_remain_len \in [Peers -> 0 .. head_len] /\ body_bufsize \in Nat
      /\ body_len \in [Peers -> Int] /\ body_remain_len \in [Peers -> Int]
  BY TDHBAssumption DEF TypeOK, Types, Peers
<1>s. /\ split = {}
      /\ \A p \in Peers : Receiving(p) =>
           \/ head_remain_len[p] = head_len
           \/ /\ head_remain_len[p] = 0
              /\ body_remain_len[p] <= body_len[p] /\ body_len[p] <= body_bufsize
  BY SplitGrows DEF RoomInv
<1>1. CASE TDHBConnect
  BY <1>t, <1>s, <1>1 DEF RoomInv, Receiving, ConnectInv, TDHBConnect, context
<1>2. CASE Disconnect
  BY <1>t, <1>s, <1>2 DEF RoomInv, Receiving, Disconnect, Close, context
<1>3. ASSUME NEW p \in Peers, StartSend(p) \/ PeerStep(p) \/ CallFails(p) PROVE RoomInv'
  <2>1. PICK x \in Phases \ {"unconnected"} : phase' = [phase EXCEPT ![p] = x]
    BY <1>3, StepFacts
  <2>2. ASSUME NEW o \in Peers \ {p}, Receiving(o)'
        PROVE  \/ head_remain_len'[o] = head_len
               \/ /\ head_remain_len'[o] = 0
                  /\ body_remain_len'[o] <= body_len'[o] /\ body_len'[o] <= body_bufsize
    <3>1. /\ head_remain_len'[o] = head_remain_len[o] /\ body_len'[o] = body_len[o]
          /\ body_remain_len'[o] = body_remain_len[o]
      BY <1>3, StepFacts
    <3>2. Receiving(o)
      BY <1>t, <2>1, <2>2 DEF Receiving
    <3>3. QED
      BY <1>s, <3>1, <3>2
  <2>3. ASSUME phase'[p] = "receive"
        PROVE  \/ head_remain_len'[p] = head_len
               \/ /\ head_remain_len'[p] = 0
                  /\ body_remain_len'[p] <= body_len'[p] /\ body_len'[p] <= body_bufsize
    <3>1. CASE StartSend(p)
      BY <1>t, <2>3, <3>1 DEF StartSend
    <3>2. CASE WriteSome(p)
      <4>1. PICK k \in 1 .. Len(Unsent(p)) : WriteReturns(p, k) \/ WriteBlocks(p, k)
        BY <3>2, WriteCases
      <4>2. WriteReturns(p, k)
        BY <1>t, <2>3, <4>1 DEF WriteBlocks
      <4>3. PICK h : /\ h = (IF k >= head_remain_len[p] THEN 0 ELSE head_remain_len[p] - k)
                     /\ split' = IF h > 0 THEN split \cup {"write"} ELSE split
                     /\ BodyLeft(p, k) = 0 /\ (p \in blocking => h = 0)
                     /\ StartReceive(p, h, BodyLeft(p, k))
        BY <1>t, <2>3, <4>2 DEF WriteReturns, CloseAfterResponse
      <4>4. h = 0
        <5>1. k \in Int
          BY <3>2, UnsentFacts DEF WriteSome, Sending
        <5>2. ~ (h > 0)
          BY <4>3
        <5>3. QED
          BY <1>t, <4>3, <5>1, <5>2
      <4>5. head_remain_len' = [head_remain_len EXCEPT ![p] = head_len]
        BY <4>3, <4>4 DEF StartReceive
      <4>6. QED
        BY <1>t, <4>5
    <3>3. CASE \E v : Close(p, v)
      BY <1>t, <2>3, <3>3 DEF Close
    <3>4. CASE ReadHead(p)
      <4>1. PICK k \in 1 .. head_remain_len[p] :
               /\ head_remain_len' = [head_remain_len EXCEPT ![p] = @ - k]
               /\ split' = IF k < head_remain_len[p] THEN split \cup {"read"} ELSE split
               /\ ~ (k < head_remain_len[p]) =>
                    \E n \in LengthIn(received[p] \o SubSeq(wire[p], 1, k)) :
                         /\ body_len' = [body_len EXCEPT ![p] = n]
                         /\ \/ phase' = [phase EXCEPT ![p] = "closed"]
                            \/ /\ ~ (n > body_bufsize)
                               /\ body_remain_len' = [body_remain_len EXCEPT ![p] = BodyToRead(n, k)]
        BY <3>4 DEF ReadHead
      <4>2. /\ phase[p] = "receive" /\ head_remain_len[p] > 0
        BY <3>4 DEF ReadHead
      <4>3. k = head_len /\ head_remain_len[p] = head_len /\ ~ (k < head_remain_len[p])
        <5>1. ~ (k < head_remain_len[p])
          BY <4>1
        <5>2. head_remain_len[p] = head_len
          BY <1>s, <4>2 DEF Receiving
        <5>3. QED
          BY <1>t, <5>1, <5>2
      <4>4. PICK n \in LengthIn(received[p] \o SubSeq(wire[p], 1, k)) :
                         /\ body_len' = [body_len EXCEPT ![p] = n]
                         /\ \/ phase' = [phase EXCEPT ![p] = "closed"]
                            \/ /\ ~ (n > body_bufsize)
                               /\ body_remain_len' = [body_remain_len EXCEPT ![p] = BodyToRead(n, k)]
        BY <4>1, <4>3
      <4>5. n \in Int
        BY LengthInFacts DEF TypeOK, Types
      <4>6. BodyToRead(n, k) = n
        BY <1>t, <4>3, <4>5 DEF BodyToRead
      <4>7. /\ body_len'[p] = n /\ body_remain_len'[p] = n /\ n <= body_bufsize
            /\ head_remain_len'[p] = 0
        BY <1>t, <2>3, <4>1, <4>3, <4>4, <4>5, <4>6
      <4>8. QED
        BY <4>5, <4>7
    <3>5. CASE ReadBody(p)
      <4>1. PICK k \in 1 .. body_remain_len[p] :
               body_remain_len' = [body_remain_len EXCEPT ![p] = @ - k]
        BY <3>5 DEF ReadBody
      <4>2. /\ phase[p] = "receive" /\ head_remain_len[p] = 0 /\ head_remain_len' = head_remain_len
            /\ body_len' = body_len
        BY <3>5 DEF ReadBody
      <4>3. head_len # 0
        BY TDHBAssumption
      <4>4. body_remain_len[p] <= body_len[p] /\ body_len[p] <= body_bufsize
        BY <1>s, <4>2, <4>3 DEF Receiving
      <4>5. QED
        BY <1>t, <4>1, <4>2, <4>4
    <3>6. CASE ReadBodyClosed(p)
      BY <1>s, <2>3, <3>6 DEF ReadBodyClosed, Receiving, context
    <3>7. QED
      BY <1>3, <3>1, <3>2, <3>3, <3>4, <3>5, <3>6
         DEF PeerStep, WriteFails, ReadClosed, ReadFails, SelectEnds, CallFails
  <2>4. Receiving(p)' => phase'[p] = "receive"
    BY <1>t, <2>1 DEF Receiving
  <2>5. QED
    BY <2>2, <2>3, <2>4 DEF RoomInv
<1>4. CASE UNCHANGED vars
  BY <1>s, <1>4 DEF RoomInv, Receiving, vars, context
<1>5. QED
  BY <1>1, <1>2, <1>3, <1>4 DEF Next

LEMMA RoomInvariant == Spec => []RoomInv
<1>1. Init => ConnectInv /\ RoomInv
  BY DEF Init, ConnectInv, RoomInv, Receiving, Peers
<1>2. QED
  BY <1>1, NextConnectInv, NextRoomInv, TypeCorrect, PTL DEF Spec

\* Only a write that blocks, or the end of one, leaves bytes of it counted.
LEMMA NextCopiedInv == TypeOK /\ ConnectInv /\ CopiedInv /\ [Next]_vars => CopiedInv'
<1> SUFFICES ASSUME TypeOK, ConnectInv, CopiedInv, [Next]_vars PROVE CopiedInv'
  OBVIOUS
<1>t. /\ phase \in [Peers -> Phases] /\ copied \in [Peers -> Nat] /\ Peers = {"client", "server"}
  BY DEF TypeOK, Types, Peers
<1>1. CASE TDHBConnect
  BY <1>t, <1>1 DEF CopiedInv, ConnectInv, TDHBConnect, context
<1>2. CASE Disconnect
  BY <1>t, <1>2 DEF CopiedInv, Disconnect, Close, context
<1>3. ASSUME NEW p \in Peers, StartSend(p) \/ PeerStep(p) \/ CallFails(p) PROVE CopiedInv'
  <2>1. \A o \in Peers \ {p} : phase'[o] = phase[o] /\ copied'[o] = copied[o]
    <3>1. \A o \in Peers \ {p} : phase'[o] = phase[o]
      BY <1>t, <1>3, StepFacts
    <3>2. QED
      BY <1>3, <3>1, StepFacts
  <2>2. phase'[p] \notin {"blocked", "closed"} => copied'[p] = 0
    <3>1. CASE StartSend(p)
      BY <1>t, <3>1 DEF StartSend, CopiedInv
    <3>2. CASE WriteSome(p)
      <4>1. PICK k \in 1 .. Len(Unsent(p)) : WriteReturns(p, k) \/ WriteBlocks(p, k)
        BY <3>2, WriteCases
      <4>2. CASE WriteReturns(p, k)
        <5>1. copied' = [copied EXCEPT ![p] = 0]
          BY <4>2 DEF WriteReturns
        <5>2. QED
          BY <1>t, <5>1
      <4>3. CASE WriteBlocks(p, k)
        BY <1>t, <4>3 DEF WriteBlocks
      <4>4. QED
        BY <4>1, <4>2, <4>3
    <3>3. CASE \E v : Close(p, v)
      BY <1>t, <3>3 DEF Close
    <3>4. CASE ReadHead(p) \/ ReadBody(p) \/ ReadBodyClosed(p)
      BY <1>t, <3>4 DEF ReadHead, ReadBody, ReadBodyClosed, CopiedInv, context
    <3>5. QED
      BY <1>3, <3>1, <3>2, <3>3, <3>4
         DEF PeerStep, WriteFails, ReadClosed, ReadFails, SelectEnds, CallFails
  <2>3. QED
    BY <2>1, <2>2 DEF CopiedInv
<1>4. CASE UNCHANGED vars
  BY <1>4 DEF CopiedInv, vars, context
<1>5. QED
  BY <1>1, <1>2, <1>3, <1>4 DEF Next

\* Every step keeps the invariant of the bytes.
LEMMA NextStreamInv == TypeOK /\ ConnectInv /\ StreamInv /\ [Next]_vars => StreamInv'
<1> SUFFICES ASSUME TypeOK, ConnectInv, StreamInv, [Next]_vars PROVE StreamInv'
  OBVIOUS
<1>1. CopiedInv'
  BY NextCopiedInv DEF StreamInv
<1>2. ASSUME split' = {}, HeadsFit' PROVE InStep'
  <2>1. split = {} /\ HeadsFit
    BY <1>2, SplitGrows
  <2>2. InStep /\ CopiedInv
    BY <2>1 DEF StreamInv
  <2>3. CASE StartInv
    BY <2>2, <2>3, StartKeepsInStep
  <2>4. ASSUME NEW p \in Peers, msg[p] > msg[Other(p)], TurnInv(p, Other(p), msg[p])
        PROVE  InStep'
    BY <1>2, <2>1, <2>2, <2>4, TurnKeepsInStep
  <2>5. QED
    BY <2>2, <2>3, <2>4 DEF InStep
<1>3. QED
  BY <1>1, <1>2 DEF StreamInv

\* The invariants of the bytes hold in every reachable state.
LEMMA StreamInvariant == Spec => [](TypeOK /\ StreamInv)
<1>1. Init => ConnectInv /\ StreamInv
  <2> SUFFICES ASSUME Init PROVE ConnectInv /\ StreamInv
    OBVIOUS
  <2>1. ConnectInv /\ CopiedInv
    BY DEF Init, ConnectInv, CopiedInv, Peers
  <2>2. StartInv
    BY DEF Init, StartInv, NewContext, Peers
  <2>3. QED
    BY <2>1, <2>2 DEF StreamInv, InStep
<1>2. QED
  BY <1>1, NextConnectInv, NextStreamInv, TypeCorrect, PTL DEF Spec

-----------------------------------------------------------------------------
(* What the invariant says of the messages                                 *)

\* Bytes that are those of message n are an initial piece of it, and all of it if they
\* are as many.
LEMMA CarriedFacts ==
    ASSUME TypeOK, NEW p \in Peers, NEW n \in 1 .. Len(lens), NEW len \in 0 .. head_len + lens[n],
           Carried(p, n, len)
    PROVE  /\ IsPrefixOf(received[p] \o wire[p], Message(n))
           /\ len = head_len + lens[n] => received[p] \o wire[p] = Message(n)
<1>1. PICK r \in Seq(Byte), w \in Seq(Byte) : r = received[p] /\ w = wire[p]
  BY DEF TypeOK, Types, Byte
<1>2. PICK m \in Seq(Byte), l \in Nat :
         /\ m = Message(n) /\ l = head_len + lens[n] /\ Len(m) = l
         /\ \A i \in 1 .. l : m[i] = <<n, i>>
  <2>1. lens \in Seq(BodyLens)
    BY DEF TypeOK, Types
  <2>2. head_len + lens[n] \in Nat
    BY <2>1, MessageFacts
  <2>3. QED
    BY <2>1, <2>2, MessageFacts
<1>3. PICK b \in Seq(Byte) : b = r \o w
  BY ConcatProperties
<1>4. /\ Len(b) = Len(r) + Len(w)
      /\ \A i \in 1 .. Len(r) + Len(w) : b[i] = IF i <= Len(r) THEN r[i] ELSE w[i - Len(r)]
  BY <1>3, ConcatProperties
<1>5. Len(r) \in Nat /\ Len(w) \in Nat
  BY LenProperties
<1>6. /\ \A i \in 1 .. Len(r) : r[i] = <<n, i>>
      /\ \A i \in 1 .. Len(w) : w[i] = <<n, Len(r) + i>>
      /\ Len(r) + Len(w) = len
  BY <1>1 DEF Carried
<1>7. ASSUME NEW i \in 1 .. len PROVE b[i] = <<n, i>>
  <2>1. CASE i <= Len(r)
    BY <1>4, <1>5, <1>6, <2>1
  <2>2. CASE ~ (i <= Len(r))
    <3>1. i - Len(r) \in 1 .. Len(w) /\ Len(r) + (i - Len(r)) = i
      BY <1>5, <1>6, <2>2
    <3>2. b[i] = w[i - Len(r)]
      BY <1>4, <1>6, <2>2
    <3>3. QED
      BY <1>6, <3>1, <3>2
  <2>3. QED
    BY <2>1, <2>2
<1>8. len \in Nat /\ len <= l /\ Len(b) = len
  BY <1>2, <1>4, <1>5, <1>6
<1>9. Len(b) <= Len(m) /\ b = SubSeq(m, 1, Len(b))
  <2>1. /\ SubSeq(m, 1, len) \in Seq(Byte) /\ Len(SubSeq(m, 1, len)) = len - 1 + 1
        /\ \A i \in 1 .. len - 1 + 1 : SubSeq(m, 1, len)[i] = m[1 + i - 1]
    BY <1>2, <1>8, PieceFacts
  <2>2. PICK x \in Seq(Byte) : x = SubSeq(m, 1, len)
    BY <2>1
  <2>3. Len(x) = len /\ \A i \in 1 .. len : x[i] = m[i]
    <3>1. len - 1 + 1 = len /\ \A i \in 1 .. len : 1 + i - 1 = i
      BY <1>8
    <3>2. QED
      BY <2>1, <2>2, <3>1
  <2>4. \A i \in 1 .. len : i \in 1 .. l
    BY <1>8
  <2>5. \A i \in 1 .. len : b[i] = x[i]
    BY <1>2, <1>7, <2>3, <2>4
  <2>6. b = x
    BY <1>8, <2>3, <2>5, SeqEqual
  <2>7. QED
    BY <1>2, <1>8, <2>2, <2>6
<1>10. ASSUME len = l PROVE b = m
  BY <1>2, <1>7, <1>8, <1>10, SeqEqual
<1>11. QED
  BY <1>1, <1>2, <1>3, <1>9, <1>10 DEF IsPrefixOf

\* A sender and a receiver, where the sender's message is the last one.
LEMMA TurnProperties ==
    ASSUME TypeOK, NEW p \in Peers, NEW q \in Peers, q = Other(p), msg[p] > msg[q],
           TurnInv(p, q, msg[p])
    PROVE  /\ phase[q] = "receive" =>
                /\ IsPrefixOf(received[q] \o wire[q], Message(msg[p]))
                /\ phase[p] = "receive" => received[q] \o wire[q] = Message(msg[p])
           /\ phase[q] = "idle" => received[q] = Message(msg[p])
           /\ phase[p] # "idle"
<1>t. /\ msg[p] \in 1 .. Len(lens) /\ lens[msg[p]] \in Nat /\ head_len \in Nat
      /\ received[q] \in Seq(Byte)
  BY TurnFacts
<1>0. PICK n \in 1 .. Len(lens), l \in Nat : n = msg[p] /\ l = lens[n]
  BY <1>t
<1>1. ASSUME phase[q] = "receive"
      PROVE  /\ IsPrefixOf(received[q] \o wire[q], Message(n))
             /\ phase[p] = "receive" => received[q] \o wire[q] = Message(n)
  <2>1. PICK len \in 0 .. head_len + lens[n] :
           Carried(q, n, len) /\ (phase[p] = "receive" => len = head_len + lens[n])
    BY <1>0, <1>1 DEF TurnInv
  <2>2. QED
    BY <2>1, CarriedFacts
<1>2. ASSUME phase[q] = "idle" PROVE received[q] = Message(n)
  <2>1. wire[q] = <<>> /\ Carried(q, n, head_len + lens[n])
    BY <1>0, <1>2 DEF TurnInv
  <2>2. PICK len \in 0 .. head_len + lens[n] : len = head_len + lens[n]
    BY <1>t, <1>0
  <2>3. received[q] \o wire[q] = Message(n)
    BY <2>1, <2>2, CarriedFacts
  <2>4. received[q] \o <<>> = received[q]
    BY <1>t, ConcatEmptySeq
  <2>5. QED
    BY <2>1, <2>3, <2>4
<1>3. phase[p] # "idle"
  BY DEF TurnInv
<1>4. QED
  BY <1>0, <1>1, <1>2, <1>3

\* What is on the way to a receiver, after what it has, is the message the other side sends:
\* for heads and bodies of any length, whatever the connection holds and in whatever pieces
\* the body is written and read.
THEOREM StreamStaysIntact == Spec => []StreamIntact
<1>1. ASSUME TypeOK, StreamInv, split = {}, HeadsFit PROVE BytesInOrder
  <2>0. InStep
    BY <1>1 DEF StreamInv
  <2> SUFFICES ASSUME NEW q \in Peers, phase[q] = "receive", msg[Other(q)] > msg[q]
               PROVE  /\ IsPrefixOf(received[q] \o wire[q], Message(msg[Other(q)]))
                      /\ phase[Other(q)] = "receive" =>
                           received[q] \o wire[q] = Message(msg[Other(q)])
    BY Zenon DEF BytesInOrder
  <2>1. PICK p \in Peers : p = Other(q) /\ q = Other(p) /\ Peers = {p, q} /\ p # q
    BY DEF Other, Peers
  <2>2. msg[p] \in Nat /\ msg[q] \in Nat
    <3>1. Len(lens) \in Nat /\ msg[p] \in 0 .. Len(lens) /\ msg[q] \in 0 .. Len(lens)
      BY <1>1, LenProperties DEF TypeOK, Types
    <3>2. QED
      BY <3>1
  <2>3. ~ StartInv
    <3>1. StartInv => Len(lens) = 0
      BY DEF StartInv
    <3>2. Len(lens) = 0 => msg[p] = 0 /\ msg[q] = 0
      BY <1>1 DEF TypeOK, Types
    <3>3. QED
      BY <2>1, <2>2, <3>1, <3>2
  <2>4. TurnInv(p, q, msg[p])
    <3>1. ASSUME NEW s \in Peers, msg[s] > msg[Other(s)], TurnInv(s, Other(s), msg[s])
          PROVE  TurnInv(p, q, msg[p])
      <4>1. s = p
        BY <2>1, <2>2, <3>1
      <4>2. QED
        BY <2>1, <3>1, <4>1
    <3>2. QED
      BY <2>0, <2>3, <3>1 DEF InStep
  <2>5. QED
    BY <1>1, <2>1, <2>4, TurnProperties
<1>2. TypeOK /\ StreamInv => StreamIntact
  BY <1>1 DEF StreamIntact
<1>3. QED
  BY <1>2, StreamInvariant, PTL

\* A message that is received is the one that was sent, byte by byte; and the buffer holds
\* every body that is read, also one whose length did not fit its head.
THEOREM ReceivesWhole == Spec => []ReceivedWhole
<1>1. ASSUME TypeOK, StreamInv, split = {}, HeadsFit, NEW q \in Peers
      PROVE  phase[q] = "idle" /\ msg[Other(q)] > 0 => received[q] = Message(msg[Other(q)])
  <2>0. InStep
    BY <1>1 DEF StreamInv
  <2>1. CASE StartInv
    <3>1. Len(lens) = 0 /\ Other(q) \in Peers
      BY <2>1 DEF StartInv, Other, Peers
    <3>2. ~ (msg[Other(q)] > 0)
      BY <1>1, <3>1 DEF TypeOK, Types
    <3>3. QED
      BY <3>2
  <2>2. ASSUME NEW s \in Peers, msg[s] > msg[Other(s)], TurnInv(s, Other(s), msg[s])
        PROVE  phase[q] = "idle" /\ msg[Other(q)] > 0 => received[q] = Message(msg[Other(q)])
    <3>1. PICK o \in Peers : o = Other(s) /\ s = Other(o) /\ Peers = {s, o} /\ s # o
      BY DEF Other, Peers
    <3>2. /\ phase[o] = "idle" => received[o] = Message(msg[s])
          /\ phase[s] # "idle"
      BY <1>1, <2>2, <3>1, TurnProperties
    <3>3. QED
      BY <3>1, <3>2
  <2>3. QED
    BY <2>0, <2>1, <2>2 DEF InStep
<1>2. TypeOK /\ StreamInv /\ RoomInv => ReceivedWhole
  <2> SUFFICES ASSUME TypeOK, StreamInv, RoomInv, split = {}, NEW q \in Peers
               PROVE  /\ HeadsFit /\ phase[q] = "idle" /\ msg[Other(q)] > 0 =>
                            received[q] = Message(msg[Other(q)])
                      /\ phase[q] = "receive" /\ head_remain_len[q] = 0 =>
                            body_remain_len[q] <= body_len[q] /\ body_len[q] <= body_bufsize
    BY Zenon DEF ReceivedWhole
  <2>1. head_len # 0
    BY TDHBAssumption
  <2>2. QED
    BY <1>1, <2>1 DEF RoomInv, Receiving
<1>3. QED
  BY <1>2, StreamInvariant, RoomInvariant, PTL
=============================================================================
