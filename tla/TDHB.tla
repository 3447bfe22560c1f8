-------------------------------- MODULE TDHB --------------------------------
(***************************************************************************)
(* The fixed head + body protocol that tcpdaemon offers to applications:   *)
(* TDHBSendData and TDHBReceiveData, which block in select() with a        *)
(* timeout, and TDHBSendDataWithNonblock and TDHBReceiveDataWithNonblock,  *)
(* which keep what is left to do in a TDHBContext.  A client and a server  *)
(* exchange requests and responses over a connection that takes and        *)
(* delivers bytes in pieces of any size.  A byte is <<message, position>>. *)
(***************************************************************************)
EXTENDS Integers, SequencesExt

CONSTANTS
    head_len,       \* length of the head, which holds the length of the body
    HeadBase,       \* the base of its digits: 10 in the code
    body_bufsize,   \* *p_body_bufsize: what the buffer of a receiver holds
    BodyLens,       \* the lengths of the bodies
    StrayLens,      \* what atoi() may make of bytes that are no head
    Timeout,        \* the timeout a blocking peer gives an exchange
    ClockSteps,     \* by how much a clock may be set back during a turn, forward if negative
    Modes,          \* which peers may use the blocking functions
    MaxSetBack,     \* bound: by how much the clocks of the peers are set back in all
    Capacity,       \* bound: bytes the connection holds in each direction
    MaxMessages     \* bound: messages, requests and responses together

Peers == {"client", "server"}
Other(p) == IF p = "client" THEN "server" ELSE "client"

ASSUME TDHBAssumption ==
    /\ head_len \in 1 .. 20 /\ body_bufsize \in Nat
    /\ HeadBase \in Nat \ {0, 1} /\ BodyLens \subseteq Nat /\ StrayLens \subseteq Int
    /\ ClockSteps \subseteq Int /\ MaxSetBack \in Nat
    /\ Timeout \in Nat /\ Capacity \in Nat \ {0} /\ MaxMessages \in Nat
    /\ Modes \subseteq SUBSET Peers

VARIABLES
    blocking,           \* the peers that use the blocking functions: it never changes
    phase,              \* where each peer is
    head_remain_len,    \* the TDHBContext of each peer
    body_len,
    body_remain_len,
    copied,             \* bytes the connection has taken of a write that blocks
    lens,               \* the lengths of the bodies of the messages so far
    msg,                \* the message each peer sends, or sent last; 0: none
    received,           \* the bytes of the message each peer is receiving, or received last
    wire,               \* the bytes on the way to each peer
    timeout,            \* what is left of *timeout
    waited,             \* how long each peer has waited in this exchange
    setback,            \* by how much the clock of each peer has been set back meanwhile
    returned,           \* why each peer closed: it was done, or what tcpmain returned
    split               \* a head has been read, or written, in pieces

context == <<head_remain_len, body_len, body_remain_len, copied>>
time == <<timeout, waited, setback>>
vars == <<blocking, phase, context, lens, msg, received, wire, time, returned, split>>

\* "idle": between receiving a message and sending one; "blocked": within a write.
Phases == {"unconnected", "idle", "send", "blocked", "receive", "closed"}

Types ==
    /\ blocking \in Modes
    /\ phase \in [Peers -> Phases]
    /\ head_remain_len \in [Peers -> 0 .. head_len]
    /\ body_len \in [Peers -> Int]
    /\ body_remain_len \in [Peers -> Int]
    /\ copied \in [Peers -> Nat]
    /\ lens \in Seq(BodyLens)
    /\ msg \in [Peers -> 0 .. Len(lens)]
    /\ received \in [Peers -> Seq(Nat \X Nat)]
    /\ wire \in [Peers -> Seq(Nat \X Nat)]
    /\ timeout \in [Peers -> Int]
    /\ waited \in [Peers -> Nat]
    /\ setback \in [Peers -> Nat]
    /\ returned \in [Peers -> {"none", "done", "CLOSE", "ERROR"}]
    /\ split \in SUBSET {"read", "write"}

\* What a sender has to write is a number of bytes; a receiver may take any number for one.
SendersCount ==
    \A p \in Peers : phase[p] \in {"send", "blocked"} =>
        body_len[p] \in Nat /\ body_remain_len[p] \in Nat

TypeOK == Types /\ SendersCount

\* There is no connection yet.
Init ==
    /\ blocking \in Modes
    /\ phase = [p \in Peers |-> "unconnected"]
    /\ head_remain_len = [p \in Peers |-> IF p = "client" THEN 0 ELSE head_len]
    /\ body_len = [p \in Peers |-> 0]
    /\ body_remain_len = [p \in Peers |-> 0]
    /\ copied = [p \in Peers |-> 0]
    /\ lens = <<>>
    /\ msg = [p \in Peers |-> 0]
    /\ received = [p \in Peers |-> <<>>]
    /\ wire = [p \in Peers |-> <<>>]
    /\ timeout = [p \in Peers |-> Timeout]
    /\ waited = [p \in Peers |-> 0]
    /\ setback = [p \in Peers |-> 0]
    /\ returned = [p \in Peers |-> "none"]
    /\ split = {}

-----------------------------------------------------------------------------
(* Messages                                                                *)

\* sprintf "%0*d" prints all digits of a length, and the first head_len of them are sent:
\* the length with the digits after these cut off.
Fits(len) == len < HeadBase ^ head_len
Sent(len) ==
    IF Fits(len) THEN {len}
    ELSE {m \in 0 .. len : /\ m >= HeadBase ^ (head_len - 1) /\ Fits(m)
                           /\ \E k \in 1 .. len : m = len \div HeadBase ^ k}

HeadOf(n) == [i \in 1 .. head_len |-> <<n, i>>]
Message(n) == [i \in 1 .. head_len + lens[n] |-> <<n, i>>]

\* The byte at an offset from body_buffer; outside the body it is any byte, 0.
BodyByte(n, offset) ==
    <<n, IF offset \in 0 .. lens[n] - 1 THEN head_len + offset + 1 ELSE 0>>

\* What is left to write: the two iovs, the second from the start of the body,
\* or what the body has from the offset the context gives.
Unsent(p) ==
    LET n      == msg[p]
        hr     == head_remain_len[p]
        offset == IF hr > 0 THEN 0 ELSE body_len[p] - body_remain_len[p]
    IN  [i \in 1 .. hr |-> <<n, head_len - hr + i>>]
          \o [i \in 1 .. body_remain_len[p] |-> BodyByte(n, offset + i - 1)]

\* atoi of the head: what it shows of the length it was made from; of other bytes, such as
\* those of a body, any number, below 0 too.
LengthIn(bytes) ==
    LET made == UNION {Sent(lens[n]) : n \in {m \in 1 .. Len(lens) : bytes = HeadOf(m)}}
    IN  IF made # {} THEN made ELSE StrayLens

-----------------------------------------------------------------------------
(* Time, and the end of the connection                                     *)

\* Mutant: the wait is not taken off the timeout.
SelectUncounted(p) ==
    IF p \in blocking
      THEN /\ timeout[p] >= 0
           /\ \E d \in 0 .. timeout[p] + 1 : waited' = [waited EXCEPT ![p] = @ + d]
           /\ UNCHANGED <<timeout, setback>>
      ELSE UNCHANGED time

\* select() waits until the socket is ready; what the clock says of the wait, and of the
\* time the turn of the loop takes, is taken off the timeout: a clock set back meanwhile
\* adds to it. select() may have taken off the wait before (Linux does).
Select(p) ==
    IF p \in blocking
      THEN /\ timeout[p] >= 0
           /\ \E d \in 0 .. timeout[p] + 1, s \in ClockSteps :
                /\ waited' = [waited EXCEPT ![p] = @ + d]
                /\ timeout' \in {[timeout EXCEPT ![p] = @ - d + s],
                                 [timeout EXCEPT ![p] = @ - 2 * d + s]}
                /\ setback' = [setback EXCEPT ![p] = IF s > 0 THEN @ + s ELSE @]
                /\ setback'["client"] + setback'["server"] <= MaxSetBack
      ELSE UNCHANGED time

\* tcpmain returns and the socket is closed.
Close(p, value) ==
    /\ phase' = [phase EXCEPT ![p] = "closed"]
    /\ returned' = [returned EXCEPT ![p] = value]
    /\ UNCHANGED <<blocking, lens, msg, received, wire, split>>

Ready(p) ==
    \/ phase[p] = "send" /\ (Len(wire[Other(p)]) < Capacity \/ phase[Other(p)] = "closed")
    \/ phase[p] = "receive" /\ (wire[p] # <<>> \/ phase[Other(p)] = "closed")

\* Mutant: a select() that fails is tried again.
SelectEndsOnlyInTime(p) ==
    /\ p \in blocking
    /\ phase[p] \in {"send", "receive"}
    /\ timeout[p] >= 0 /\ ~ Ready(p)
    /\ waited' = [waited EXCEPT ![p] = @ + timeout[p]]
    /\ Close(p, "ERROR")
    /\ UNCHANGED <<context, timeout, setback>>

\* select() returns 0, or fails as the timeout is negative.
SelectEnds(p) ==
    /\ p \in blocking
    /\ phase[p] \in {"send", "receive"}
    /\ timeout[p] < 0 \/ ~ Ready(p)
    /\ waited' = [waited EXCEPT ![p] = IF timeout[p] > 0 THEN @ + timeout[p] ELSE @]
    /\ Close(p, "ERROR")
    /\ UNCHANGED <<context, timeout, setback>>

-----------------------------------------------------------------------------
(* TDHBSendData, TDHBSendDataWithNonblock                                  *)

\* A call to send, with a new head. A blocking client sends one request (TDHBCall).
StartSend(p) ==
    /\ phase[p] = "idle"
    /\ Len(lens) < MaxMessages
    /\ p \in blocking /\ p = "client" => lens = <<>>
    /\ \E n \in BodyLens :
         /\ lens' = Append(lens, n)
         /\ msg' = [msg EXCEPT ![p] = Len(lens) + 1]
         /\ body_len' = [body_len EXCEPT ![p] = n]
         /\ body_remain_len' = [body_remain_len EXCEPT ![p] = n]
    /\ head_remain_len' = [head_remain_len EXCEPT ![p] = head_len]
    /\ phase' = [phase EXCEPT ![p] = "send"]
    /\ UNCHANGED <<blocking, copied, received, wire, time, returned, split>>

\* The message is sent and the peer calls to receive: the context of a nonblocking
\* peer is the same one, and new only if it says that nothing remains.
StartReceive(p, head_left, body_left) ==
    /\ phase' = [phase EXCEPT ![p] = "receive"]
    /\ received' = [received EXCEPT ![p] = <<>>]
    /\ UNCHANGED returned
    /\ IF p \in blocking \/ (head_left = 0 /\ body_left = 0)
         THEN /\ head_remain_len' = [head_remain_len EXCEPT ![p] = head_len]
              /\ body_remain_len' = [body_remain_len EXCEPT ![p] = 0]
              /\ body_len' = [body_len EXCEPT ![p] = 0]
         ELSE /\ head_remain_len' = [head_remain_len EXCEPT ![p] = head_left]
              /\ body_remain_len' = [body_remain_len EXCEPT ![p] = body_left]
              /\ UNCHANGED body_len

\* A blocking server, tcpmain of LF or IF, closes the socket after its response.
CloseAfterResponse(p) ==
    /\ phase' = [phase EXCEPT ![p] = "closed"]
    /\ returned' = [returned EXCEPT ![p] = "done"]
    /\ UNCHANGED <<head_remain_len, body_len, body_remain_len, received>>

\* The client connects, is about to send the first request, and the server receives; or
\* there is no connection and the client gives up.
TDHBConnect ==
    /\ phase["client"] = "unconnected"
    /\ \/ /\ phase' = [p \in Peers |-> IF p = "client" THEN "idle" ELSE "receive"]
          /\ UNCHANGED returned
       \/ /\ phase' = [phase EXCEPT !["client"] = "closed"]
          /\ returned' = [returned EXCEPT !["client"] = "ERROR"]
    /\ UNCHANGED <<blocking, context, lens, msg, received, wire, time, split>>

\* The client has had enough (TDHBDisconnect).
Disconnect ==
    /\ phase["client"] = "idle"
    /\ lens # <<>>
    /\ Close("client", "done")
    /\ UNCHANGED <<context, time>>

\* Mutant: the bytes of the head count as bytes of the body.
BodyLeftIgnoringHead(p, k) ==
    IF head_remain_len[p] > k THEN body_remain_len[p] ELSE body_remain_len[p] - k

\* What writing k bytes leaves of the body: once the head is through, all of it is
\* taken to have been in this piece.
BodyLeft(p, k) ==
    IF head_remain_len[p] = 0 THEN body_remain_len[p] - k
    ELSE IF k >= head_remain_len[p] THEN body_remain_len[p] - (k - head_len)
    ELSE body_remain_len[p]

\* A write returns k. Where nothing is left of the message its sender goes on.
WriteReturns(p, k) ==
    LET head_left == IF k >= head_remain_len[p] THEN 0 ELSE head_remain_len[p] - k
        body_left == BodyLeft(p, k)
    IN  /\ split' = IF head_left > 0 THEN split \cup {"write"} ELSE split
        /\ copied' = [copied EXCEPT ![p] = 0]
        /\ IF body_left = 0 /\ (p \in blocking => head_left = 0)
             THEN IF p \in blocking /\ p = "server"
                    THEN CloseAfterResponse(p)
                    ELSE StartReceive(p, head_left, body_left)
             ELSE /\ head_remain_len' = [head_remain_len EXCEPT ![p] = head_left]
                  /\ body_remain_len' = [body_remain_len EXCEPT ![p] = body_left]
                  /\ phase' = [phase EXCEPT ![p] = "send"]
                  /\ UNCHANGED <<body_len, received, returned>>

\* The socket of a blocking peer is a blocking one: a write to it, which may have begun
\* before, does not return before the connection has taken all.
WriteBlocks(p, k) ==
    /\ p \in blocking /\ k < Len(Unsent(p))
    /\ copied' = [copied EXCEPT ![p] = k]
    /\ phase' = [phase EXCEPT ![p] = "blocked"]
    /\ UNCHANGED <<head_remain_len, body_len, body_remain_len, received, returned, split>>

\* One turn of a loop that writes: some of what is left, as much as fits.
WriteSome(p) ==
    /\ phase[p] \in {"send", "blocked"}
    /\ phase[Other(p)] # "closed"
    /\ IF phase[p] = "send" THEN Select(p) ELSE UNCHANGED time
    /\ \E k \in copied[p] + 1 .. Len(Unsent(p)) :
         /\ Len(wire[Other(p)]) + k - copied[p] <= Capacity
         /\ wire' = [wire EXCEPT ![Other(p)] = @ \o SubSeq(Unsent(p), copied[p] + 1, k)]
         /\ \/ (p \in blocking => k = Len(Unsent(p))) /\ WriteReturns(p, k)
            \/ WriteBlocks(p, k)
    /\ UNCHANGED <<blocking, lens, msg>>

\* The other side has closed the connection.
WriteFails(p) ==
    /\ phase[p] \in {"send", "blocked"}
    /\ phase[Other(p)] = "closed"
    /\ IF phase[p] = "send" THEN Select(p) ELSE UNCHANGED time
    /\ Close(p, "ERROR")
    /\ UNCHANGED context

-----------------------------------------------------------------------------
(* TDHBReceiveData, TDHBReceiveDataWithNonblock                            *)

\* Mutant: one byte of the body is taken for there already.
BodyToReadLessOne(n, k) == n - (k - head_len) - (IF n > 1 THEN 1 ELSE 0)

\* What there is to read of a body of n bytes when the last piece of the head had k.
BodyToRead(n, k) == n - (k - head_len)

\* One turn of a loop that reads the head; once all of it is there the length of the
\* body is known.
ReadHead(p) ==
    /\ phase[p] = "receive"
    /\ head_remain_len[p] > 0
    /\ Select(p)
    /\ \E k \in 1 .. head_remain_len[p] :
         LET bytes == received[p] \o SubSeq(wire[p], 1, k)
         IN  /\ k <= Len(wire[p])
             /\ received' = [received EXCEPT ![p] = bytes]
             /\ wire' = [wire EXCEPT ![p] = SubSeq(@, k + 1, Len(@))]
             /\ head_remain_len' = [head_remain_len EXCEPT ![p] = @ - k]
             /\ split' = IF k < head_remain_len[p] THEN split \cup {"read"} ELSE split
             /\ IF k < head_remain_len[p]
                  THEN UNCHANGED <<phase, returned, body_len, body_remain_len>>
                  ELSE \E n \in LengthIn(bytes) :
                         /\ body_len' = [body_len EXCEPT ![p] = n]
                         /\ IF n > body_bufsize
                              THEN /\ phase' = [phase EXCEPT ![p] = "closed"]
                                   /\ returned' = [returned EXCEPT ![p] = "ERROR"]
                                   /\ UNCHANGED body_remain_len
                              ELSE LET left == BodyToRead(n, k)
                                   IN  /\ body_remain_len' = [body_remain_len EXCEPT ![p] = left]
                                       /\ phase' = [phase EXCEPT ![p] =
                                                      IF left = 0 THEN "idle" ELSE @]
                                       /\ UNCHANGED returned
    /\ UNCHANGED <<blocking, copied, lens, msg>>

\* One turn of a loop that reads the body.
ReadBody(p) ==
    /\ phase[p] = "receive"
    /\ head_remain_len[p] = 0
    /\ Select(p)
    /\ \E k \in 1 .. body_remain_len[p] :
         /\ k <= Len(wire[p])
         /\ received' = [received EXCEPT ![p] = @ \o SubSeq(wire[p], 1, k)]
         /\ wire' = [wire EXCEPT ![p] = SubSeq(@, k + 1, Len(@))]
         /\ body_remain_len' = [body_remain_len EXCEPT ![p] = @ - k]
         /\ phase' = [phase EXCEPT ![p] = IF k = body_remain_len[p] THEN "idle" ELSE @]
    /\ UNCHANGED <<blocking, head_remain_len, body_len, copied, lens, msg, returned, split>>

\* Mutant: a connection closed within a head counts as closed between messages.
ClosedWithinHeadIsNone(p) == head_remain_len[p] > 0

\* *p_body_bufsize is 0, which tcpmain takes for a close between two messages.
NothingReceived(p) ==
    IF p \in blocking THEN head_remain_len[p] > 0 ELSE head_remain_len[p] = head_len

\* The other side has closed the connection: read() returns 0.
ReadClosed(p) ==
    /\ phase[p] = "receive"
    /\ wire[p] = <<>> /\ phase[Other(p)] = "closed"
    /\ IF p \in blocking THEN head_remain_len[p] > 0
                         ELSE head_remain_len[p] > 0 \/ body_remain_len[p] > 0
    /\ Select(p)
    /\ Close(p, IF NothingReceived(p) THEN "CLOSE" ELSE "ERROR")
    /\ UNCHANGED context

\* TDHBReceiveData takes 0 from read() for a piece of the body and turns again.
ReadBodyClosed(p) ==
    /\ phase[p] = "receive"
    /\ wire[p] = <<>> /\ phase[Other(p)] = "closed"
    /\ p \in blocking /\ head_remain_len[p] = 0 /\ body_remain_len[p] > 0
    /\ Select(p)
    /\ UNCHANGED <<blocking, phase, context, lens, msg, received, wire, returned, split>>

\* read() fails where what remains of the body, taken for a size, is a negative number.
ReadFails(p) ==
    /\ phase[p] = "receive"
    /\ head_remain_len[p] = 0 /\ body_remain_len[p] < 0
    /\ p \in blocking => Ready(p)
    /\ Select(p)
    /\ Close(p, "ERROR")
    /\ UNCHANGED context

-----------------------------------------------------------------------------
\* A fault: select(), read() or write() fails, for a signal or for want of memory.
CallFails(p) ==
    /\ phase[p] \in {"send", "blocked", "receive"}
    /\ IF phase[p] = "blocked" THEN UNCHANGED time ELSE Select(p)
    /\ Close(p, "ERROR")
    /\ UNCHANGED context

PeerStep(p) ==
    \/ WriteSome(p) \/ WriteFails(p)
    \/ ReadHead(p) \/ ReadBody(p) \/ ReadClosed(p) \/ ReadBodyClosed(p)
    \/ ReadFails(p) \/ SelectEnds(p)

Next == TDHBConnect \/ Disconnect \/ \E p \in Peers : StartSend(p) \/ PeerStep(p) \/ CallFails(p)

\* A peer whose socket is ready, or whose select() is over, goes on. A turn that changes
\* nothing and takes no time is no step, so that a loop does not turn for ever without
\* time passing. Nothing has to fail.
Fairness == \A p \in Peers : WF_vars(PeerStep(p))

Spec == Init /\ [][Next]_vars
FairSpec == Spec /\ Fairness

-----------------------------------------------------------------------------
(* Properties                                                              *)

IsPrefixOf(s, t) == Len(s) <= Len(t) /\ s = SubSeq(t, 1, Len(s))

\* What is on the way to a receiver, after what it has of the message, is the message the
\* other side sends, and all of it once the other side waits for an answer.
BytesInOrder ==
    \A p \in Peers :
        LET n == msg[Other(p)]
        IN  phase[p] = "receive" /\ n > msg[p] =>
                /\ IsPrefixOf(received[p] \o wire[p], Message(n))
                /\ phase[Other(p)] = "receive" => received[p] \o wire[p] = Message(n)

\* Every head shows the whole length of its body.
HeadsFit == \A n \in DOMAIN lens : Fits(lens[n])

\* As long as every head fits and goes through in one piece.
StreamIntact == split = {} /\ HeadsFit => BytesInOrder

\* Then, too, a message that is received is the one that was sent. And whether the heads
\* fit or not, what is read of a body goes to its place in the buffer, which holds all of it.
ReceivedWhole ==
    split = {} => \A p \in Peers :
        /\ HeadsFit /\ phase[p] = "idle" /\ msg[Other(p)] > 0 =>
              received[p] = Message(msg[Other(p)])
        /\ phase[p] = "receive" /\ head_remain_len[p] = 0 =>
              body_remain_len[p] <= body_len[p] /\ body_len[p] <= body_bufsize

\* A nonblocking receiver takes the end of the connection for an orderly one only
\* when it has no piece of a message.
CloseBetweenMessages ==
    \A p \in Peers \ blocking : returned[p] = "CLOSE" => received[p] = <<>>

\* The blocking functions do not wait in select() longer than the timeout (and one turn
\* of the loop), in however many pieces the bytes come, and whatever select() does; where
\* the clock is set back meanwhile, not by more than it is set back in all.
TimeoutKept == \A p \in blocking : waited[p] <= Timeout + 1 + setback[p]

\* A call of a blocking function returns, even if the connection is closed within a body.
\* Only a write, for which the timeout does not count, may wait for ever, for a side
\* that does not read.
CallsReturn ==
    \A p \in Peers :
        /\ p \in blocking /\ phase[p] = "receive" ~> phase[p] # "receive"
        /\ p \in blocking /\ phase[p] \in {"send", "blocked"} ~>
               \/ phase[p] \notin {"send", "blocked"}
               \/ phase[p] = "blocked" /\ phase[Other(p)] \notin {"receive", "closed"}

\* A message that is being sent is received by the other side, unless one side
\* gives up or a head did not fit or has gone through in pieces.
Arrives(p) ==
    phase[p] = "send" ~> phase[Other(p)] \in {"idle", "closed"} \/ phase[p] = "closed" \/ split # {}
                      \/ ~ HeadsFit
MessagesArrive == \A p \in Peers : Arrives(p)

-----------------------------------------------------------------------------
(* What the source promises and the code does not keep, as BytesInOrder    *)

\* A message that was written in order is received, in whatever pieces it is read.
ReadInPieces ==
    \A p \in Peers :
        phase[p] = "send" ~> \/ phase[Other(p)] \in {"idle", "closed"} \/ phase[p] = "closed"
                            \/ "write" \in split
=============================================================================
