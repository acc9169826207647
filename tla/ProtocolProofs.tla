--------------------------- MODULE ProtocolProofs ---------------------------
(***************************************************************************)
(* Proofs about the NBD protocol of the server, negotiation and            *)
(* transmission, for any options, commands, lengths, sizes of buffers and  *)
(* numbers of errors.                                                      *)
(***************************************************************************)
EXTENDS Negotiation, Transmission, TLAPS

-----------------------------------------------------------------------------
(* Sequences *)

\* r is s, and then t.
Joined(r, s, t) ==
    /\ Len(r) = Len(s) + Len(t)
    /\ \A i \in 1..Len(s) : r[i] = s[i]
    /\ \A i \in 1..Len(t) : r[Len(s) + i] = t[i]
    /\ \A i \in 1..Len(r) : i \in 1..Len(s) \/ \E j \in 1..Len(t) : i = Len(s) + j

LEMMA Concat ==
    ASSUME NEW S, NEW s \in Seq(S), NEW t \in Seq(S)
    PROVE  s \o t \in Seq(S) /\ Joined(s \o t, s, t)
<1>1. s \o t \in Seq(S) /\ Len(s \o t) = Len(s) + Len(t) /\ Len(s) \in Nat /\ Len(t) \in Nat
  OBVIOUS
<1>2. \A i \in 1..Len(s) : (s \o t)[i] = s[i]
  OBVIOUS
<1>3. \A i \in 1..Len(t) : (s \o t)[Len(s) + i] = t[i]
  OBVIOUS
<1>4. ASSUME NEW i \in 1..Len(s \o t), i \notin 1..Len(s)
      PROVE  \E j \in 1..Len(t) : i = Len(s) + j
  <2>1. PICK m, n : m = Len(s) /\ n = Len(t) /\ m \in Nat /\ n \in Nat /\ i \in 1..m + n
    BY <1>1, Zenon
  <2>2. i - m \in 1..n /\ i = m + (i - m)
    BY <1>4, <2>1
  <2> QED BY <2>1, <2>2, Zenon
<1> QED BY <1>1, <1>2, <1>3, <1>4, Zenon DEF Joined

LEMMA Listed ==
    ASSUME NEW S, NEW n \in Nat, NEW f \in [1..n -> S]
    PROVE  f \in Seq(S) /\ Len(f) = n
OBVIOUS

LEMMA TailOf ==
    ASSUME NEW S, NEW s \in Seq(S), s # <<>>
    PROVE  /\ Tail(s) \in Seq(S) /\ Head(s) = s[1] /\ Head(s) \in S /\ 1 \in 1..Len(s)
           /\ \A i \in 1..Len(Tail(s)) :
                 i + 1 \in 1..Len(s) /\ i + 1 # 1 /\ Tail(s)[i] = s[i + 1]
<1>1. Len(s) \in Nat /\ Len(s) > 0 /\ Head(s) = s[1] /\ Tail(s) \in Seq(S)
  OBVIOUS
<1>2. Len(Tail(s)) = Len(s) - 1
  OBVIOUS
<1>3. \A i \in 1..Len(Tail(s)) : Tail(s)[i] = s[i + 1]
  OBVIOUS
<1>4. s[1] \in S
  BY <1>1
<1> QED BY <1>1, <1>2, <1>3, <1>4

-----------------------------------------------------------------------------
(* Transmission.  The worker that holds the mutex is the one in a          *)
(* transaction, its reply is the last one and the only one that is not     *)
(* whole; and a command goes one way only, from the client to its header.  *)

\* What the client may send, and what it may be sent
Arrivals == [is : {"command", "payload"}, cookie : Cookies]
Headers == [is : {"header"}, cookie : Cookies, error : {"OK", "EIO", "EINVAL", "ENOTSUP"}]
Blocks == [is : {"block"}, cookie : Cookies, at : Nat, bogus : BOOLEAN]

ArrivalsTyped ==
    /\ inbound \in Seq(Arrivals) /\ rcmd \subseteq Arrivals
    /\ sent \in [Cookies -> CommandTypes \union {"no"}]
    /\ \A k \in Cookies : sent[k] \in Offered[k] \union {"no"}

RepliesTyped ==
    /\ out \in Seq(Headers \union Blocks)
    /\ mcmd \subseteq Cookies /\ inTx \subseteq Cookies
    /\ lock \in Cookies \union {"nobody"}
    /\ wpc \in [Cookies -> {"none", "read", "eio", "begin", "send", "done"}]
    /\ cur \in [Cookies -> Nat]
    /\ got \in [Cookies -> [n : Nat, bogus : BOOLEAN]]

\* A command is on its way to the main loop, or is yet to be sent.
Queued(k) == \E i \in 1..Len(inbound) : inbound[i] = Command(k)
Waits(k) == sent[k] = "no" \/ Queued(k) \/ Command(k) \in rcmd

\* No header was sent for it.
Unanswered(k) == \A i \in 1..Len(out) : out[i].is = "header" => out[i].cookie # k

\* A command arrives once.
ArrivesOnce ==
    /\ \A i, j \in 1..Len(inbound) :
          inbound[i].is = "command" /\ inbound[j] = inbound[i] => i = j
    /\ \A k \in Cookies : Queued(k) => Command(k) \notin rcmd
    /\ \A k \in Cookies : sent[k] = "no" => ~Queued(k) /\ Command(k) \notin rcmd

\* A command that waits, is refused or whose read has not begun to send has
\* no header.
AnsweredOnce ==
    \A k \in Cookies :
        /\ Waits(k) => Unanswered(k) /\ wpc[k] = "none" /\ k \notin mcmd
        /\ k \in mcmd => Unanswered(k) /\ wpc[k] = "none"
        /\ wpc[k] \in {"read", "begin", "eio"} /\ k \notin inTx => Unanswered(k)

\* The mutex is held by the worker that is in a transaction; what a worker has
\* read fits.
Alone(k) ==
    /\ k \in inTx => lock = k /\ wpc[k] \in {"read", "send"}
    /\ lock = k => k \in inTx
    /\ wpc[k] = "send" => k \in inTx
    /\ wpc[k] # "done" /\ k \notin inTx => cur[k] = 0
    /\ wpc[k] \in {"begin", "send"} => got[k].n <= LenOf[k] - cur[k]
    /\ k \in inTx => cur[k] < LenOf[k]
    /\ wpc[k] \in {"read", "eio", "begin"} => LenOf[k] > 0

Exclusive == \A k \in Cookies : Alone(k)

\* The reply of the worker that holds the mutex is the last, and it is the only
\* one that is not whole.
LastReply ==
    link = "up" =>
        /\ \A i \in 1..Len(out) :
              (out[i].is = "header" /\ out[i].error = "OK" /\ i + LenOf[out[i].cookie] > Len(out))
                  => lock = out[i].cookie /\ i + cur[out[i].cookie] = Len(out)
        /\ \A k \in Cookies : lock = k =>
              cur[k] < Len(out) /\ out[Len(out) - cur[k]] = Header(k, "OK")

ArrivalsInv == ArrivalsTyped /\ ArrivesOnce
RepliesInv == RepliesTyped /\ AnsweredOnce /\ Exclusive /\ LastReply /\ RepliesWhole

\* A step that sends nothing
WholeOf(o) ==
    /\ \A i, j \in 1..Len(o) :
          i # j /\ o[i].is = "header" /\ o[j].is = "header"
              => o[i].cookie # o[j].cookie
    /\ \A i \in 1..Len(o) :
          LET k == o[i].cookie
          IN  /\ o[i].is = "header" /\ o[i].error = "OK" =>
                    \A d \in 1..LenOf[k] : i + d <= Len(o) =>
                        /\ o[i + d].is = "block" /\ o[i + d].cookie = k
                        /\ o[i + d].at = d - 1
              /\ o[i].is = "block" =>
                    /\ o[i].at + 1 < i
                    /\ o[i - o[i].at - 1] = Header(k, "OK")

LEMMA SameOut ==
    ASSUME RepliesWhole, out' = out
    PROVE  RepliesWhole'
<1>1. WholeOf(out)
  BY Zenon DEF RepliesWhole, WholeOf
<1>2. WholeOf(out')
  BY <1>1, Zenon
<1> QED BY <1>2, Zenon DEF RepliesWhole, WholeOf

\* Records of the client's
LEMMA Sends ==
    ASSUME NEW j \in Cookies, NEW k \in Cookies
    PROVE  /\ Command(k) \in Arrivals /\ Payload(k) \in Arrivals
           /\ Command(k).is = "command" /\ Payload(k).is # "command"
           /\ Command(k).cookie = k
           /\ Command(j) = Command(k) => j = k
           /\ \A c \in Arrivals : c.is = "command" => c = Command(c.cookie) /\ c.cookie \in Cookies
<1>1. Command(k).cookie = k /\ Command(j).cookie = j
  BY DEF Command
<1>2. \A c \in Arrivals : c.is = "command" => c = Command(c.cookie) /\ c.cookie \in Cookies
  BY DEF Arrivals, Command
<1>3. Command(k).is = "command" /\ Payload(k).is # "command"
  BY DEF Command, Payload
<1>4. Command(k) \in Arrivals /\ Payload(k) \in Arrivals
  BY DEF Arrivals, Command, Payload
<1> QED BY <1>1, <1>2, <1>3, <1>4, Zenon

\* ClientSend adds the command behind the others.
LEMMA SendAdds ==
    ASSUME ArrivalsTyped, NEW k \in Cookies, NEW type, ClientSend(k, type)
    PROVE  /\ inbound' \in Seq(Arrivals) /\ Len(inbound) \in Nat /\ Len(inbound') \in Nat
           /\ \A i \in 1..Len(inbound') :
                 \/ i \in 1..Len(inbound) /\ inbound'[i] = inbound[i]
                 \/ i = Len(inbound) + 1 /\ inbound'[i] = Command(k)
                 \/ inbound'[i] = Payload(k)
<1>1. PICK payload : payload = IF type = "WRITE" THEN [i \in 1..LenOf[k] |-> Payload(k)] ELSE <<>>
  BY Zenon
<1>2. payload \in Seq(Arrivals) /\ \A i \in 1..Len(payload) : payload[i] = Payload(k)
  <2>1. Payload(k) \in Arrivals /\ LenOf[k] \in Nat
    BY Sends, TransmissionAssumption
  <2>2. CASE type = "WRITE"
    BY <1>1, <2>1, <2>2
  <2>3. CASE type # "WRITE"
    BY <1>1, <2>3
  <2> QED BY <2>2, <2>3
<1>3. PICK s : s = inbound \o <<Command(k)>>
  BY Zenon
<1>4. inbound \in Seq(Arrivals) /\ <<Command(k)>> \in Seq(Arrivals)
  BY Sends DEF ArrivalsTyped
<1>5. /\ s \in Seq(Arrivals) /\ Len(s) = Len(inbound) + 1 /\ s[Len(inbound) + 1] = Command(k)
      /\ \A i \in 1..Len(inbound) : s[i] = inbound[i]
  <2>1. Len(<<Command(k)>>) = 1 /\ <<Command(k)>>[1] = Command(k) /\ 1 \in 1..1
    OBVIOUS
  <2>2. s \in Seq(Arrivals) /\ Joined(s, inbound, <<Command(k)>>)
    BY <1>3, <1>4, Concat, Zenon
  <2> QED BY <2>1, <2>2 DEF Joined
<1>6. inbound' = s \o payload
  BY <1>1, <1>3, Zenon DEF ClientSend
<1>7. inbound' \in Seq(Arrivals) /\ Joined(inbound', s, payload)
  BY <1>2, <1>5, <1>6, Concat, Zenon
<1>8. Len(inbound) \in Nat /\ Len(inbound') \in Nat
  BY <1>4, <1>7
<1>9. ASSUME NEW i \in 1..Len(inbound')
      PROVE  \/ i \in 1..Len(inbound) /\ inbound'[i] = inbound[i]
             \/ i = Len(inbound) + 1 /\ inbound'[i] = Command(k)
             \/ inbound'[i] = Payload(k)
  <2>1. CASE i \in 1..Len(s)
    <3>1. i \in 1..Len(inbound) \/ i = Len(inbound) + 1
      BY <1>5, <1>8, <2>1
    <3> QED BY <1>5, <1>7, <2>1, <3>1, Zenon DEF Joined
  <2>2. CASE \E j \in 1..Len(payload) : i = Len(s) + j
    BY <1>2, <1>7, <2>2, Zenon DEF Joined
  <2> QED BY <1>7, <2>1, <2>2, Zenon DEF Joined
<1> QED BY <1>7, <1>8, <1>9, Zenon

\* How commands move: the client sends one, the receiver takes the first, the
\* main loop discards it, or takes what the receiver has.
LEMMA Flow ==
    ASSUME [Next]_vars
    PROVE  \/ \E k \in Cookies : \E type \in Offered[k] : ClientSend(k, type)
           \/ inbound # <<>> /\ inbound' = Tail(inbound) /\ sent' = sent
              /\ (rcmd' = {Head(inbound)} \/ rcmd' = rcmd)
           \/ inbound' = inbound /\ sent' = sent /\ (rcmd' = {} \/ rcmd' = rcmd)
<1>1. CASE UNCHANGED vars
  BY <1>1, Zenon DEF vars, connVars, readerVars
<1>2. CASE Client \/ SoftShutdown
  BY <1>2, Zenon DEF Client, ClientHangUp, SoftShutdown, connVars, readerVars
<1>3. CASE Receiver
  BY <1>3, Zenon DEF Receiver, Receive, ReceiveFail, ReceiverStop, connVars
<1>4. CASE Main
  BY <1>4, Zenon DEF Main, MainStop, TakeGarbage, TakeRead, TakeDisc, TakeOther, Take, Discard,
     DiscardFail, Reject, MainEnd, connVars, readerVars
<1>5. CASE \E k \in Cookies : Worker(k)
  BY <1>5, Zenon DEF Worker, ReadSome, ReadNothing, ReadNothingInTx, Locked, Begin, SendEIO,
     SendData, connVars, readerVars
<1> QED BY <1>1, <1>2, <1>3, <1>4, <1>5, Zenon DEF Next

\* A command that waits was waiting before, and none arrives twice.
LEMMA ArrivesStep ==
    ASSUME ArrivalsInv, [Next]_vars
    PROVE  ArrivalsInv' /\ \A k \in Cookies : Waits(k)' => Waits(k)
<1> USE DEF ArrivalsInv
<1>1. ASSUME NEW k \in Cookies, NEW type \in Offered[k], ClientSend(k, type)
      PROVE  ArrivalsInv' /\ \A j \in Cookies : Waits(j)' => Waits(j)
  <2>1. sent[k] = "no" /\ sent' = [sent EXCEPT ![k] = type] /\ rcmd' = rcmd
    BY <1>1, Zenon DEF ClientSend, readerVars
  <2>9. /\ Payload(k).is # "command" /\ \A j \in Cookies : Command(j).is = "command"
        /\ \A j \in Cookies : Command(j) = Command(k) => j = k
    BY Sends, Zenon
  <2>2. \A j \in Cookies : Queued(j)' => Queued(j) \/ j = k
    <3>1. SUFFICES ASSUME NEW j \in Cookies, NEW i \in 1..Len(inbound'), inbound'[i] = Command(j)
                   PROVE  Queued(j) \/ j = k
      BY Zenon DEF Queued
    <3>2. CASE i \in 1..Len(inbound) /\ inbound'[i] = inbound[i]
      BY <3>1, <3>2, Zenon DEF Queued
    <3>3. CASE inbound'[i] = Command(k) \/ inbound'[i] = Payload(k)
      BY <2>9, <3>1, <3>3, Zenon
    <3> QED BY <1>1, <3>2, <3>3, SendAdds, Zenon
  <2>3. \A j \in Cookies : sent'[j] = "no" => sent[j] = "no" /\ j # k
    <3>1. type # "no"
      BY TransmissionAssumption DEF CommandTypes
    <3> QED BY <2>1, <3>1 DEF ArrivalsTyped
  <2>4. ~Queued(k) /\ Command(k) \notin rcmd
    BY <2>1, Zenon DEF ArrivesOnce
  <2>5. ASSUME NEW i \in 1..Len(inbound'), NEW j \in 1..Len(inbound'),
               inbound'[i].is = "command", inbound'[j] = inbound'[i]
        PROVE  i = j
    <3> DEFINE Old(n) == n \in 1..Len(inbound) /\ inbound'[n] = inbound[n]
               Added(n) == n = Len(inbound) + 1 /\ inbound'[n] = Command(k)
    <3>1. (Old(i) \/ Added(i)) /\ (Old(j) \/ Added(j))
      <4>1. \A n \in 1..Len(inbound') : Old(n) \/ Added(n) \/ inbound'[n] = Payload(k)
        BY <1>1, SendAdds, Zenon
      <4> QED BY <2>5, <2>9, <4>1, Zenon
    <3>2. CASE Old(i) /\ Old(j)
      BY <2>5, <3>2, Zenon DEF ArrivesOnce
    <3>3. CASE Added(i) /\ Added(j)
      BY <3>3, Zenon
    <3>4. CASE (Old(i) /\ Added(j)) \/ (Added(i) /\ Old(j))
      BY <2>4, <2>5, <3>4, Zenon DEF Queued
    <3> QED BY <3>1, <3>2, <3>3, <3>4, Zenon
  <2>6. ArrivesOnce'
    BY <2>1, <2>2, <2>3, <2>4, <2>5, Zenon DEF ArrivesOnce
  <2>7. \A j \in Cookies : Waits(j)' => Waits(j)
    BY <2>1, <2>2, <2>3, Zenon DEF Waits
  <2>8. /\ sent' \in [Cookies -> CommandTypes \union {"no"}]
        /\ \A j \in Cookies : sent'[j] \in Offered[j] \union {"no"}
    <3>1. type \in CommandTypes
      BY TransmissionAssumption
    <3>2. sent' \in [Cookies -> CommandTypes \union {"no"}]
      BY <2>1, <3>1 DEF ArrivalsTyped
    <3>3. sent'[k] = type /\ \A j \in Cookies : j # k => sent'[j] = sent[j]
      BY <2>1 DEF ArrivalsTyped
    <3> QED BY <3>2, <3>3, Zenon DEF ArrivalsTyped
  <2> QED BY <1>1, <2>1, <2>6, <2>7, <2>8, SendAdds, Zenon DEF ArrivalsTyped
<1>2. ASSUME inbound # <<>>, inbound' = Tail(inbound), sent' = sent,
             rcmd' = {Head(inbound)} \/ rcmd' = rcmd
      PROVE  ArrivalsInv' /\ \A j \in Cookies : Waits(j)' => Waits(j)
  <2>1. /\ inbound' \in Seq(Arrivals) /\ Head(inbound) = inbound[1] /\ 1 \in 1..Len(inbound)
        /\ \A i \in 1..Len(inbound') :
              i + 1 \in 1..Len(inbound) /\ i + 1 # 1 /\ inbound'[i] = inbound[i + 1]
    BY <1>2, TailOf, Zenon DEF ArrivalsTyped
  <2>2. \A i, j \in 1..Len(inbound') : i + 1 = j + 1 => i = j
    BY <2>1
  <2>3. \A j \in Cookies : Queued(j)' => Queued(j) /\ Head(inbound) # Command(j)
    <3>1. SUFFICES ASSUME NEW j \in Cookies, NEW i \in 1..Len(inbound'), inbound'[i] = Command(j)
                   PROVE  Queued(j) /\ Head(inbound) # Command(j)
      BY Zenon DEF Queued
    <3>2. i + 1 \in 1..Len(inbound) /\ i + 1 # 1 /\ inbound[i + 1] = Command(j)
      BY <2>1, <3>1, Zenon
    <3>3. Command(j).is = "command"
      BY Sends, Zenon
    <3>4. Head(inbound) # Command(j)
      BY <2>1, <3>2, <3>3, Zenon DEF ArrivesOnce
    <3> QED BY <3>2, <3>4, Zenon DEF Queued
  <2>4. \A j \in Cookies : Head(inbound) = Command(j) => Queued(j)
    BY <2>1, Zenon DEF Queued
  <2>5. \A i, j \in 1..Len(inbound') :
           inbound'[i].is = "command" /\ inbound'[j] = inbound'[i] => i = j
    BY <2>1, <2>2, Zenon DEF ArrivesOnce
  <2>6. \A j \in Cookies : Command(j) \in rcmd' => Command(j) \in rcmd \/ Head(inbound) = Command(j)
    BY <1>2, Zenon
  <2>7. ArrivesOnce'
    BY <1>2, <2>3, <2>4, <2>5, <2>6, Zenon DEF ArrivesOnce
  <2>8. \A j \in Cookies : Waits(j)' => Waits(j)
    BY <1>2, <2>3, <2>4, <2>6, Zenon DEF Waits
  <2>9. Head(inbound) \in Arrivals
    BY <1>2, TailOf, Zenon DEF ArrivalsTyped
  <2> QED BY <1>2, <2>1, <2>7, <2>8, <2>9, Zenon DEF ArrivalsTyped
<1>3. ASSUME inbound' = inbound, sent' = sent, rcmd' = {} \/ rcmd' = rcmd
      PROVE  ArrivalsInv' /\ \A j \in Cookies : Waits(j)' => Waits(j)
  BY <1>3, Zenon DEF ArrivesOnce, Waits, Queued, ArrivalsTyped
<1> QED BY <1>1, <1>2, <1>3, Flow, Zenon

-----------------------------------------------------------------------------
(* What is sent *)

\* A step that neither sends anything nor moves a worker
Quiet ==
    /\ out' = out /\ link' \in {link, "down"} /\ mcmd' \subseteq mcmd
    /\ wpc' = wpc /\ cur' = cur /\ got' = got /\ inTx' = inTx /\ lock' = lock

LEMMA Kinds ==
    ASSUME [Next]_vars
    PROVE  \/ Quiet
           \/ \E c \in rcmd : TakeRead(c) \/ TakeOther(c)
           \/ \E k \in Cookies : Reject(k) \/ SendEIO(k) \/ Begin(k) \/ SendData(k)
           \/ \E k \in Cookies : ReadNothing(k) \/ ReadNothingInTx(k)
           \/ \E k \in Cookies : \E n \in 1..BufferSize, failed \in BOOLEAN : ReadSome(k, n, failed)
<1>1. CASE UNCHANGED vars
  BY <1>1, Zenon DEF Quiet, vars, connVars, mainVars, workerVars
<1>2. CASE Client \/ SoftShutdown \/ Receiver
  BY <1>2, Zenon DEF Quiet, connVars, mainVars, workerVars, Client, ClientSend, ClientHangUp,
     SoftShutdown, Receiver, Receive, ReceiveFail, ReceiverStop
<1>3. CASE Main
  BY <1>3, Zenon DEF Quiet, connVars, mainVars, workerVars, Main, MainStop, LeaveLoop,
     TakeGarbage, TakeDisc, Discard, DiscardFail, MainEnd
<1>4. CASE \E k \in Cookies : Worker(k)
  BY <1>4, Zenon DEF Worker, Locked
<1> QED BY <1>1, <1>2, <1>3, <1>4, Zenon DEF Next

\* The fields of what is sent
LEMMA Sent ==
    ASSUME RepliesTyped
    PROVE  /\ Len(out) \in Nat
           /\ \A i \in 1..Len(out) :
                 /\ out[i] \in Headers \union Blocks /\ out[i].cookie \in Cookies
                 /\ LenOf[out[i].cookie] \in Nat /\ cur[out[i].cookie] \in Nat
                 /\ out[i].is = "block" => out[i].at \in Nat
<1>1. /\ Len(out) \in Nat
      /\ \A i \in 1..Len(out) : out[i] \in Headers \union Blocks
  BY DEF RepliesTyped
<1>2. \A r \in Headers \union Blocks : r.cookie \in Cookies /\ (r.is = "block" => r.at \in Nat)
  BY Zenon DEF Headers, Blocks
<1>3. \A k \in Cookies : LenOf[k] \in Nat /\ cur[k] \in Nat
  BY TransmissionAssumption DEF RepliesTyped
<1> QED BY <1>1, <1>2, <1>3, Zenon

LEMMA HeaderFields ==
    ASSUME NEW k \in Cookies, NEW e \in {"OK", "EIO", "EINVAL", "ENOTSUP"}
    PROVE  /\ Header(k, e) \in Headers /\ Header(k, e).is = "header"
           /\ Header(k, e).cookie = k /\ Header(k, e).error = e
           /\ <<Header(k, e)>> \in Seq(Headers \union Blocks)
           /\ Len(<<Header(k, e)>>) = 1 /\ <<Header(k, e)>>[1] = Header(k, e)
<1>1. /\ Header(k, e) \in Headers /\ Header(k, e).is = "header"
      /\ Header(k, e).cookie = k /\ Header(k, e).error = e
  BY DEF Header, Headers
<1>2. Header(k, e) \in Headers \union Blocks
  BY <1>1, Zenon
<1> QED BY <1>1, <1>2

\* One header is added.
LEMMA HeaderAdded ==
    ASSUME RepliesTyped, NEW k \in Cookies, NEW e \in {"OK", "EIO", "EINVAL", "ENOTSUP"},
           Deliver(<<Header(k, e)>>)
    PROVE  /\ out' \in Seq(Headers \union Blocks)
           /\ link # "up" => out' = out
           /\ link = "up" => /\ Len(out') = Len(out) + 1 /\ out'[Len(out) + 1] = Header(k, e)
                             /\ \A i \in 1..Len(out) : out'[i] = out[i]
<1>1. CASE link = "up"
  <2>1. out' = out \o <<Header(k, e)>>
    BY <1>1, Zenon DEF Deliver
  <2>2. <<Header(k, e)>> \in Seq(Headers \union Blocks) /\ out \in Seq(Headers \union Blocks)
    BY HeaderFields DEF RepliesTyped
  <2>3. out' \in Seq(Headers \union Blocks) /\ Joined(out', out, <<Header(k, e)>>)
    BY <2>1, <2>2, Concat, Zenon
  <2>4. Len(<<Header(k, e)>>) = 1 /\ <<Header(k, e)>>[1] = Header(k, e) /\ 1 \in 1..1
    OBVIOUS
  <2> QED BY <1>1, <2>3, <2>4, Zenon DEF Joined
<1>2. CASE link # "up"
  BY <1>2, Zenon DEF Deliver, RepliesTyped
<1> QED BY <1>1, <1>2, Zenon

\* The header of an unanswered command, while nobody holds the mutex: replies
\* are whole, and the ones before it complete.
LEMMA WholeWithHeader ==
    ASSUME RepliesInv, NEW k \in Cookies, NEW e \in {"OK", "EIO", "EINVAL", "ENOTSUP"},
           Deliver(<<Header(k, e)>>), lock = "nobody", Unanswered(k), link = "up"
    PROVE  /\ RepliesWhole'
           /\ \A i \in 1..Len(out) : out'[i].is = "header" /\ out'[i].error = "OK" =>
                 i + LenOf[out'[i].cookie] <= Len(out)
<1> DEFINE n == Len(out)
<1>1. n \in Nat /\ Len(out') = n + 1 /\ out'[n + 1] = Header(k, e)
  BY HeaderAdded, Sent, Zenon DEF RepliesInv
<1>2. \A i \in 1..n : out'[i] = out[i]
  BY HeaderAdded, Zenon DEF RepliesInv
<1>3. \A i \in 1..n + 1 : i \in 1..n \/ i = n + 1
  BY <1>1
<1>4. \A i \in 1..n : out[i].is = "header" /\ out[i].error = "OK" => i + LenOf[out[i].cookie] <= n
  <2>1. lock \notin Cookies
    BY TransmissionAssumption
  <2>2. SUFFICES ASSUME NEW i \in 1..n, out[i].is = "header", out[i].error = "OK"
                 PROVE  i + LenOf[out[i].cookie] <= n
    OBVIOUS
  <2>3. out[i].cookie \in Cookies /\ LenOf[out[i].cookie] \in Nat
    BY Sent, Zenon DEF RepliesInv
  <2>4. ~(i + LenOf[out[i].cookie] > n)
    BY <2>1, <2>2, <2>3, Zenon DEF RepliesInv, LastReply
  <2> QED BY <1>1, <2>3, <2>4
<1>5. out'[n + 1].is = "header" /\ out'[n + 1].is # "block" /\ out'[n + 1].cookie = k
  <2>1. Header(k, e).is = "header" /\ Header(k, e).cookie = k
    BY HeaderFields
  <2> QED BY <1>1, <2>1
<1>6. ASSUME NEW i \in 1..n + 1, NEW j \in 1..n + 1, i # j,
             out'[i].is = "header", out'[j].is = "header"
      PROVE  out'[i].cookie # out'[j].cookie
  <2>1. CASE i \in 1..n /\ j \in 1..n
    <3>1. out[i].is = "header" /\ out[j].is = "header" => out[i].cookie # out[j].cookie
      BY <1>6, <2>1, Zenon DEF RepliesInv, RepliesWhole
    <3> QED BY <1>2, <1>6, <2>1, <3>1
  <2>2. CASE i \in 1..n /\ j = n + 1
    BY <1>2, <1>5, <1>6, <2>2, Zenon DEF Unanswered
  <2>3. CASE j \in 1..n /\ i = n + 1
    BY <1>2, <1>5, <1>6, <2>3, Zenon DEF Unanswered
  <2> QED BY <1>3, <1>6, <2>1, <2>2, <2>3, Zenon
<1>7. ASSUME NEW i \in 1..n + 1, out'[i].is = "header", out'[i].error = "OK",
             NEW d \in 1..LenOf[out'[i].cookie], i + d <= n + 1
      PROVE  /\ out'[i + d].is = "block" /\ out'[i + d].cookie = out'[i].cookie
             /\ out'[i + d].at = d - 1
  <2>1. CASE i \in 1..n
    <3>1. out'[i] = out[i] /\ LenOf[out[i].cookie] \in Nat /\ i + LenOf[out[i].cookie] <= n
      BY <1>2, <1>4, <1>7, <2>1, Sent, Zenon DEF RepliesInv
    <3>2. i + d \in 1..n /\ i + d <= n
      BY <1>1, <1>7, <2>1, <3>1
    <3>3. /\ out[i + d].is = "block" /\ out[i + d].cookie = out[i].cookie
          /\ out[i + d].at = d - 1
      BY <1>7, <2>1, <3>1, <3>2, Zenon DEF RepliesInv, RepliesWhole
    <3> QED BY <1>2, <3>1, <3>2, <3>3, Zenon
  <2>2. CASE i = n + 1
    <3>1. LenOf[k] \in Nat
      BY TransmissionAssumption
    <3> QED BY <1>1, <1>5, <1>7, <2>2, <3>1
  <2> QED BY <1>3, <2>1, <2>2, Zenon
<1>8. ASSUME NEW i \in 1..n + 1, out'[i].is = "block"
      PROVE  /\ out'[i].at + 1 < i
             /\ out'[i - out'[i].at - 1] = Header(out'[i].cookie, "OK")
  <2>1. i \in 1..n /\ out'[i] = out[i] /\ out[i].is = "block"
    BY <1>2, <1>3, <1>5, <1>8, Zenon
  <2>2. out[i].at + 1 < i /\ out[i - out[i].at - 1] = Header(out[i].cookie, "OK")
    BY <2>1, Zenon DEF RepliesInv, RepliesWhole
  <2>3. out[i].at \in Nat
    BY <2>1, Sent, Zenon DEF RepliesInv
  <2>4. i - out[i].at - 1 \in 1..n
    BY <1>1, <2>1, <2>2, <2>3
  <2> QED BY <1>2, <2>1, <2>2, <2>4, Zenon
<1>9. RepliesWhole'
  BY <1>1, <1>6, <1>7, <1>8, Zenon DEF RepliesWhole
<1> QED BY <1>2, <1>4, <1>9, Zenon

\* The blocks that were read are added.
LEMMA BlocksAdded ==
    ASSUME RepliesTyped, NEW k \in Cookies,
           Deliver([i \in 1..got[k].n |-> Block(k, cur[k] + i - 1, got[k].bogus)])
    PROVE  /\ out' \in Seq(Headers \union Blocks)
           /\ link # "up" => out' = out
           /\ link = "up" =>
                 /\ Len(out') = Len(out) + got[k].n
                 /\ \A i \in 1..Len(out) : out'[i] = out[i]
                 /\ \A t \in 1..got[k].n :
                       out'[Len(out) + t] = Block(k, cur[k] + t - 1, got[k].bogus)
                 /\ \A i \in 1..Len(out') :
                       i \in 1..Len(out) \/ \E t \in 1..got[k].n : i = Len(out) + t
<1>1. CASE link = "up"
  <2>1. PICK items : items = [i \in 1..got[k].n |-> Block(k, cur[k] + i - 1, got[k].bogus)]
    BY Zenon
  <2>2. got[k].n \in Nat /\ got[k].bogus \in BOOLEAN /\ cur[k] \in Nat
    BY DEF RepliesTyped
  <2>3. ASSUME NEW i \in 1..got[k].n
        PROVE  Block(k, cur[k] + i - 1, got[k].bogus) \in Headers \union Blocks
    <3>1. cur[k] + i - 1 \in Nat
      BY <2>2
    <3>2. Block(k, cur[k] + i - 1, got[k].bogus) \in Blocks
      BY <2>2, <3>1 DEF Block, Blocks
    <3> QED BY <3>2, Zenon
  <2>4. /\ items \in Seq(Headers \union Blocks) /\ Len(items) = got[k].n
        /\ \A i \in 1..got[k].n : items[i] = Block(k, cur[k] + i - 1, got[k].bogus)
    <3>1. items \in [1..got[k].n -> Headers \union Blocks]
      BY <2>1, <2>3, Zenon
    <3>2. items \in Seq(Headers \union Blocks) /\ Len(items) = got[k].n
      BY <2>2, <3>1, Listed, Zenon
    <3> QED BY <2>1, <3>2, Zenon
  <2>5. out' = out \o items /\ out \in Seq(Headers \union Blocks)
    BY <1>1, <2>1, Zenon DEF Deliver, RepliesTyped
  <2>6. out' \in Seq(Headers \union Blocks) /\ Joined(out', out, items)
    BY <2>4, <2>5, Concat, Zenon
  <2> QED BY <1>1, <2>4, <2>6, Zenon DEF Joined
<1>2. CASE link # "up"
  BY <1>2, Zenon DEF Deliver, RepliesTyped
<1> QED BY <1>1, <1>2, Zenon

\* The next blocks of the reply of the worker that holds the mutex: replies are
\* whole, and none but its own lacks any.
LEMMA WholeWithBlocks ==
    ASSUME RepliesInv, NEW k \in Cookies, lock = k, wpc[k] = "send", link = "up",
           Deliver([i \in 1..got[k].n |-> Block(k, cur[k] + i - 1, got[k].bogus)])
    PROVE  /\ RepliesWhole'
           /\ \A i \in 1..Len(out') :
                 ( /\ out'[i].is = "header" /\ out'[i].error = "OK"
                   /\ i + LenOf[out'[i].cookie] > Len(out') )
                     => /\ out'[i].cookie = k
                        /\ i + (cur[k] + got[k].n) = Len(out')
                        /\ cur[k] + got[k].n < LenOf[k]
           /\ cur[k] + got[k].n < Len(out')
           /\ out'[Len(out') - (cur[k] + got[k].n)] = Header(k, "OK")
<1>0. PICK n, m, c, z : n = Len(out) /\ m = got[k].n /\ c = cur[k] /\ z = Len(out')
  BY Zenon
<1>1. n \in Nat /\ m \in Nat /\ c \in Nat /\ LenOf[k] \in Nat
  BY <1>0, Sent, TransmissionAssumption DEF RepliesInv, RepliesTyped
<1>2. /\ z = n + m
      /\ \A i \in 1..n : out'[i] = out[i]
      /\ \A t \in 1..m : out'[n + t] = Block(k, c + t - 1, got[k].bogus)
      /\ \A i \in 1..z : i \in 1..n \/ \E t \in 1..m : i = n + t
  BY <1>0, BlocksAdded, Zenon DEF RepliesInv
<1>3. /\ c < n /\ out[n - c] = Header(k, "OK") /\ m <= LenOf[k] - c
  BY <1>0, Zenon DEF RepliesInv, LastReply, Exclusive, Alone
<1>4. \A i \in 1..n : (out[i].is = "header" /\ out[i].error = "OK" /\ i + LenOf[out[i].cookie] > n)
                          => k = out[i].cookie /\ i + c = n
  BY <1>0, Zenon DEF RepliesInv, LastReply
<1>5. \A t \in 1..m : /\ out'[n + t].is = "block" /\ out'[n + t].is # "header"
                      /\ out'[n + t].cookie = k /\ out'[n + t].at = c + t - 1
  <2>1. ASSUME NEW t \in 1..m
        PROVE  LET b == Block(k, c + t - 1, got[k].bogus)
               IN b.is = "block" /\ b.is # "header" /\ b.cookie = k /\ b.at = c + t - 1
    BY DEF Block
  <2> QED BY <1>2, <2>1, Zenon
<1>6. \A i \in 1..z : out'[i].is = "header" => i \in 1..n /\ out'[i] = out[i]
  BY <1>2, <1>5, Zenon
<1>7. ASSUME NEW i \in 1..z, NEW j \in 1..z, i # j,
             out'[i].is = "header", out'[j].is = "header"
      PROVE  out'[i].cookie # out'[j].cookie
  <2>1. i \in 1..n /\ j \in 1..n /\ out'[i] = out[i] /\ out'[j] = out[j]
    BY <1>6, <1>7, Zenon
  <2>2. out[i].is = "header" /\ out[j].is = "header" => out[i].cookie # out[j].cookie
    BY <1>7, <2>1, <1>0, Zenon DEF RepliesInv, RepliesWhole
  <2> QED BY <1>7, <2>1, <2>2
<1>8. ASSUME NEW i \in 1..z, out'[i].is = "header", out'[i].error = "OK",
             NEW d \in 1..LenOf[out'[i].cookie], i + d <= z
      PROVE  /\ out'[i + d].is = "block" /\ out'[i + d].cookie = out'[i].cookie
             /\ out'[i + d].at = d - 1
  <2>1. i \in 1..n /\ out'[i] = out[i] /\ LenOf[out[i].cookie] \in Nat
    BY <1>6, <1>8, <1>0, Sent, Zenon DEF RepliesInv
  <2>2. d \in Nat /\ d >= 1 /\ d <= LenOf[out[i].cookie] /\ i \in Nat
    BY <1>1, <1>8, <2>1
  <2>3. CASE i + d <= n
    <3>1. i + d \in 1..n
      BY <1>1, <2>2, <2>3
    <3>2. /\ out[i + d].is = "block" /\ out[i + d].cookie = out[i].cookie
          /\ out[i + d].at = d - 1
      BY <1>8, <2>1, <2>3, <1>0, Zenon DEF RepliesInv, RepliesWhole
    <3> QED BY <1>2, <2>1, <3>1, <3>2
  <2>4. CASE ~(i + d <= n)
    <3>1. i + LenOf[out[i].cookie] > n
      BY <1>1, <2>1, <2>2, <2>4
    <3>2. out[i].cookie = k /\ i + c = n
      BY <1>4, <1>8, <2>1, <3>1, Zenon
    <3>3. PICK t \in 1..m : i + d = n + t
      <4>1. i + d - n \in 1..m /\ i + d = n + (i + d - n)
        BY <1>1, <1>2, <1>8, <2>2, <2>4
      <4> QED BY <4>1
    <3>4. c + t - 1 = d - 1
      BY <1>1, <2>2, <3>2, <3>3
    <3> QED BY <1>5, <2>1, <3>2, <3>3, <3>4
  <2> QED BY <2>3, <2>4
<1>9. ASSUME NEW i \in 1..z, out'[i].is = "block"
      PROVE  /\ out'[i].at + 1 < i
             /\ out'[i - out'[i].at - 1] = Header(out'[i].cookie, "OK")
  <2>1. CASE i \in 1..n
    <3>1. out'[i] = out[i] /\ out[i].is = "block"
      BY <1>2, <1>9, <2>1, Zenon
    <3>2. out[i].at + 1 < i /\ out[i - out[i].at - 1] = Header(out[i].cookie, "OK")
      BY <2>1, <3>1, <1>0, Zenon DEF RepliesInv, RepliesWhole
    <3>3. out[i].at \in Nat
      BY <2>1, <3>1, <1>0, Sent, Zenon DEF RepliesInv
    <3>4. i - out[i].at - 1 \in 1..n
      BY <1>1, <2>1, <3>2, <3>3
    <3> QED BY <1>2, <3>1, <3>2, <3>4
  <2>2. ASSUME NEW t \in 1..m, i = n + t
        PROVE  /\ out'[i].at + 1 < i
               /\ out'[i - out'[i].at - 1] = Header(out'[i].cookie, "OK")
    <3>1. out'[i].cookie = k /\ out'[i].at = c + t - 1
      BY <1>5, <2>2
    <3>2. out'[i].at + 1 < i /\ i - out'[i].at - 1 = n - c /\ n - c \in 1..n
      BY <1>1, <1>3, <2>2, <3>1
    <3> QED BY <1>2, <1>3, <3>1, <3>2
  <2> QED BY <1>2, <2>1, <2>2, Zenon
<1>10. RepliesWhole'
  BY <1>0, <1>7, <1>8, <1>9, Zenon DEF RepliesWhole
<1>11. ASSUME NEW i \in 1..z, out'[i].is = "header", out'[i].error = "OK",
              i + LenOf[out'[i].cookie] > z
       PROVE  out'[i].cookie = k /\ i + (c + m) = z /\ c + m < LenOf[k]
  <2>1. i \in 1..n /\ out'[i] = out[i] /\ LenOf[out[i].cookie] \in Nat
    BY <1>6, <1>11, <1>0, Sent, Zenon DEF RepliesInv
  <2>2. i + LenOf[out[i].cookie] > n
    BY <1>1, <1>2, <1>11, <2>1
  <2>3. out[i].cookie = k /\ i + c = n
    BY <1>4, <1>11, <2>1, <2>2, Zenon
  <2> QED BY <1>1, <1>2, <1>11, <2>1, <2>3
<1>12. /\ c + m < z /\ z - (c + m) = n - c
       /\ n - c \in 1..n
  BY <1>1, <1>2, <1>3
<1> QED BY <1>0, <1>2, <1>3, <1>10, <1>11, <1>12, Zenon

-----------------------------------------------------------------------------
(* The invariant, step by step *)

\* What ArrivesStep says of the commands that wait
NoneReturns == \A j \in Cookies : Waits(j)' => Waits(j)

LEMMA StepQuiet ==
    ASSUME RepliesInv, Quiet, NoneReturns
    PROVE  RepliesInv'
<1>1. RepliesTyped' /\ RepliesWhole'
  BY SameOut, Zenon DEF RepliesInv, RepliesTyped, Quiet
<1>2. AnsweredOnce'
  BY Zenon DEF RepliesInv, AnsweredOnce, Unanswered, Quiet, NoneReturns
<1>3. Exclusive'
  BY Zenon DEF RepliesInv, Exclusive, Alone, Quiet
<1>4. LastReply'
  <2>1. link' = "up" => link = "up"
    BY Zenon DEF Quiet
  <2> QED BY <2>1, Zenon DEF RepliesInv, LastReply, Quiet
<1> QED BY <1>1, <1>2, <1>3, <1>4, Zenon DEF RepliesInv

\* The main loop takes a command that was not answered, and is gone.
LEMMA Taken ==
    ASSUME ArrivalsInv, RepliesInv, NEW c \in rcmd, Take(c), c.is = "command",
           sent' = sent, inbound' = inbound
    PROVE  /\ c.cookie \in Cookies /\ ~Waits(c.cookie)'
           /\ Unanswered(c.cookie) /\ wpc[c.cookie] = "none" /\ c.cookie \notin mcmd
           /\ c.cookie \notin inTx /\ lock # c.cookie /\ cur[c.cookie] = 0
<1> DEFINE k == c.cookie
<1>1. c = Command(k) /\ k \in Cookies
  <2>1. c \in Arrivals
    BY DEF ArrivalsInv, ArrivalsTyped
  <2> QED BY <2>1 DEF Arrivals, Command
<1>2. Waits(k) /\ sent[k] # "no" /\ ~Queued(k)
  BY <1>1, Zenon DEF ArrivalsInv, ArrivesOnce, Waits
<1>3. ~Waits(k)'
  <2>1. rcmd' = {}
    BY DEF Take
  <2> QED BY <1>2, <2>1, Zenon DEF Waits, Queued
<1>4. Unanswered(k) /\ wpc[k] = "none" /\ k \notin mcmd
  BY <1>1, <1>2, Zenon DEF RepliesInv, AnsweredOnce
<1>5. k \notin inTx /\ lock # k /\ cur[k] = 0
  BY <1>1, <1>4, Zenon DEF RepliesInv, Exclusive, Alone
<1> QED BY <1>1, <1>3, <1>4, <1>5, Zenon

LEMMA StepTake ==
    ASSUME ArrivalsInv, RepliesInv, NoneReturns, NEW c \in rcmd, TakeRead(c) \/ TakeOther(c)
    PROVE  RepliesInv'
<1> DEFINE k == c.cookie
<1>1. /\ out' = out /\ link' = link /\ lock' = lock /\ cur' = cur /\ got' = got /\ inTx' = inTx
      /\ sent' = sent /\ inbound' = inbound /\ Take(c) /\ c.is = "command"
  BY Zenon DEF TakeRead, TakeOther, connVars, workerVars
<1>2. /\ k \in Cookies /\ ~Waits(k)' /\ Unanswered(k) /\ wpc[k] = "none" /\ k \notin mcmd
      /\ k \notin inTx /\ lock # k /\ cur[k] = 0
  BY <1>1, Taken, Zenon
<1>3. RepliesWhole' /\ LastReply'
  BY <1>1, SameOut, Zenon DEF RepliesInv, LastReply
<1>4. \A j \in Cookies : Unanswered(j) => Unanswered(j)'
  BY <1>1, Zenon DEF Unanswered
<1>5. CASE TakeRead(c)
  <2>1. wpc' = [wpc EXCEPT ![k] = "read"] /\ mcmd' = mcmd /\ sent[k] = "READ"
    BY <1>5, Zenon DEF TakeRead, mainVars
  <2>2. wpc \in [Cookies -> {"none", "read", "eio", "begin", "send", "done"}]
    BY Zenon DEF RepliesInv, RepliesTyped
  <2>3. wpc'[k] = "read" /\ \A j \in Cookies : j # k => wpc'[j] = wpc[j]
    BY <1>2, <2>1, <2>2
  <2>4. wpc' \in [Cookies -> {"none", "read", "eio", "begin", "send", "done"}]
    BY <1>2, <2>1, <2>2
  <2>5. RepliesTyped'
    BY <1>1, <2>1, <2>4, Zenon DEF RepliesInv, RepliesTyped
  <2>6. LenOf[k] > 0
    <3>1. "READ" \in Offered[k]
      BY <1>2, <2>1 DEF ArrivalsInv, ArrivalsTyped
    <3> QED BY <1>2, <3>1, TransmissionAssumption
  <2>7. AnsweredOnce'
    BY <1>1, <1>2, <1>4, <2>1, <2>3, Zenon DEF RepliesInv, AnsweredOnce, NoneReturns
  <2>8. Exclusive'
    <3>1. SUFFICES ASSUME NEW j \in Cookies PROVE Alone(j)'
      BY Zenon DEF Exclusive, Alone
    <3>2. CASE j = k
      BY <1>1, <1>2, <2>3, <2>6, <3>2, Zenon DEF Exclusive, Alone
    <3>3. CASE j # k
      BY <1>1, <2>3, <3>3, Zenon DEF RepliesInv, Exclusive, Alone
    <3> QED BY <3>2, <3>3
  <2> QED BY <1>3, <2>5, <2>7, <2>8, Zenon DEF RepliesInv
<1>6. CASE TakeOther(c)
  <2>1. wpc' = wpc /\ mcmd' = {k}
    BY <1>6, Zenon DEF TakeOther, workerVars
  <2>2. RepliesTyped'
    BY <1>1, <1>2, <2>1, Zenon DEF RepliesInv, RepliesTyped
  <2>3. AnsweredOnce'
    BY <1>1, <1>2, <1>4, <2>1, Zenon DEF RepliesInv, AnsweredOnce, NoneReturns
  <2>4. Exclusive'
    BY <1>1, <2>1, Zenon DEF RepliesInv, Exclusive, Alone
  <2> QED BY <1>3, <2>2, <2>3, <2>4, Zenon DEF RepliesInv
<1> QED BY <1>5, <1>6

\* A worker has been read a command of: nobody else knows of it any more.
LEMMA AtWork ==
    ASSUME RepliesInv, NoneReturns, NEW k \in Cookies, wpc[k] # "none"
    PROVE  ~Waits(k)' /\ k \notin mcmd
BY Zenon DEF RepliesInv, AnsweredOnce, NoneReturns

\* Worker k reads: nothing is sent, and nobody else moves.
LEMMA StepRead ==
    ASSUME RepliesInv, NoneReturns, NEW k \in Cookies, NEW pc, NEW g,
           \/ pc = "eio" /\ k \notin inTx /\ got' = got
           \/ /\ pc = (IF k \in inTx THEN "send" ELSE "begin") /\ got' = [got EXCEPT ![k] = g]
              /\ g \in [n : Nat, bogus : BOOLEAN] /\ g.n <= LenOf[k] - cur[k],
           wpc[k] = "read", wpc' = [wpc EXCEPT ![k] = pc],
           out' = out, link' = link, mcmd' = mcmd, lock' = lock, cur' = cur, inTx' = inTx
    PROVE  RepliesInv'
<1>1. /\ wpc \in [Cookies -> {"none", "read", "eio", "begin", "send", "done"}]
      /\ got \in [Cookies -> [n : Nat, bogus : BOOLEAN]]
  BY Zenon DEF RepliesInv, RepliesTyped
<1>2. pc \in {"eio", "begin", "send"}
  OBVIOUS
<1>3. /\ wpc'[k] = pc /\ \A j \in Cookies : j # k => wpc'[j] = wpc[j]
      /\ wpc' \in [Cookies -> {"none", "read", "eio", "begin", "send", "done"}]
  BY <1>1, <1>2
<1>4. /\ got' \in [Cookies -> [n : Nat, bogus : BOOLEAN]]
      /\ \A j \in Cookies : j # k => got'[j] = got[j]
      /\ pc # "eio" => got'[k] = g
  BY <1>1, <1>2
<1>5. RepliesTyped'
  BY <1>3, <1>4, Zenon DEF RepliesInv, RepliesTyped
<1>6. RepliesWhole'
  BY SameOut, Zenon DEF RepliesInv
<1>7. LastReply'
  BY Zenon DEF RepliesInv, LastReply
<1>8. ~Waits(k)' /\ k \notin mcmd
  BY AtWork, Zenon
<1>9. AnsweredOnce'
  <2>1. \A j \in Cookies : Unanswered(j)' <=> Unanswered(j)
    BY DEF Unanswered
  <2>2. k \notin inTx => Unanswered(k)
    BY Zenon DEF RepliesInv, AnsweredOnce
  <2>3. pc # "send" => k \notin inTx
    BY <1>2
  <2> QED BY <1>2, <1>3, <1>8, <2>1, <2>2, <2>3, Zenon DEF RepliesInv, AnsweredOnce, NoneReturns
<1>10. Exclusive'
  <2>1. SUFFICES ASSUME NEW j \in Cookies PROVE Alone(j)'
    BY Zenon DEF Exclusive
  <2>2. Alone(j) /\ Alone(k)
    BY Zenon DEF RepliesInv, Exclusive
  <2>3. CASE j = k
    BY <1>2, <1>3, <1>4, <2>2, <2>3 DEF Alone
  <2>4. CASE j # k
    BY <1>3, <1>4, <2>2, <2>4, Zenon DEF Alone
  <2> QED BY <2>3, <2>4
<1> QED BY <1>5, <1>6, <1>7, <1>9, <1>10, Zenon DEF RepliesInv

\* The commands that have no header, after one for k
LEMMA OthersUnanswered ==
    ASSUME RepliesTyped, NEW k \in Cookies, NEW e \in {"OK", "EIO", "EINVAL", "ENOTSUP"},
           Deliver(<<Header(k, e)>>), NEW j \in Cookies, Unanswered(j), j # k
    PROVE  Unanswered(j)'
<1>1. CASE link # "up"
  <2>1. out' = out
    BY <1>1, Zenon DEF Deliver
  <2> QED BY <2>1, Zenon DEF Unanswered
<1>2. CASE link = "up"
  <2>1. /\ Len(out') = Len(out) + 1 /\ out'[Len(out) + 1] = Header(k, e)
        /\ \A i \in 1..Len(out) : out'[i] = out[i]
    BY <1>2, HeaderAdded, Zenon
  <2>2. \A i \in 1..Len(out') : i \in 1..Len(out) \/ i = Len(out) + 1
    BY <2>1, Sent
  <2>3. Header(k, e).cookie = k
    BY DEF Header
  <2> QED BY <2>1, <2>2, <2>3, Zenon DEF Unanswered
<1> QED BY <1>1, <1>2

\* An error: the reply is the header, and nobody has the mutex.
LEMMA LastIsError ==
    ASSUME RepliesInv, NEW k \in Cookies, NEW e \in {"EIO", "EINVAL", "ENOTSUP"},
           Deliver(<<Header(k, e)>>), lock = "nobody", Unanswered(k),
           link' = link, lock' = lock
    PROVE  RepliesWhole' /\ LastReply'
<1>1. CASE link # "up"
  <2>1. out' = out
    BY <1>1, Zenon DEF Deliver
  <2>2. RepliesWhole'
    BY <2>1, SameOut, Zenon DEF RepliesInv
  <2> QED BY <1>1, <2>2, Zenon DEF LastReply
<1>2. CASE link = "up"
  <2>1. /\ RepliesWhole'
        /\ \A i \in 1..Len(out) : out'[i].is = "header" /\ out'[i].error = "OK" =>
              i + LenOf[out'[i].cookie] <= Len(out)
    BY <1>2, WholeWithHeader, Zenon
  <2>2. /\ Len(out') = Len(out) + 1 /\ out'[Len(out) + 1] = Header(k, e)
        /\ \A i \in 1..Len(out) : out'[i] = out[i]
    BY <1>2, HeaderAdded, Zenon DEF RepliesInv
  <2>3. Len(out) \in Nat /\ \A i \in 1..Len(out) : LenOf[out[i].cookie] \in Nat
    BY Sent, Zenon DEF RepliesInv
  <2>4. \A i \in 1..Len(out') : i \in 1..Len(out) \/ i = Len(out) + 1
    BY <2>2, <2>3
  <2>5. Header(k, e).error # "OK"
    BY DEF Header
  <2>6. \A i \in 1..Len(out) : i + LenOf[out[i].cookie] <= Len(out) =>
            ~(i + LenOf[out[i].cookie] > Len(out) + 1)
    BY <2>3
  <2>7. \A j \in Cookies : lock' # j
    BY TransmissionAssumption
  <2> QED BY <2>1, <2>2, <2>4, <2>5, <2>6, <2>7, Zenon DEF LastReply
<1> QED BY <1>1, <1>2

LEMMA StepReject ==
    ASSUME RepliesInv, NoneReturns, NEW k \in Cookies, Reject(k)
    PROVE  RepliesInv'
<1>1. PICK e \in {"EIO", "EINVAL", "ENOTSUP"} : Deliver(<<Header(k, e)>>)
  <2>1. (IF sent[k] = "FLAGS" THEN "EINVAL" ELSE "ENOTSUP") \in {"EIO", "EINVAL", "ENOTSUP"}
    OBVIOUS
  <2> QED BY <2>1, Zenon DEF Reject
<1>2. /\ mcmd = {k} /\ mcmd' = {} /\ lock = "nobody" /\ lock' = lock /\ link' = link
      /\ wpc' = wpc /\ cur' = cur /\ got' = got /\ inTx' = inTx
  BY Zenon DEF Reject, LeaveLoop, workerVars
<1>3. Unanswered(k) /\ wpc[k] = "none" /\ ~Waits(k)'
  BY <1>2, Zenon DEF RepliesInv, AnsweredOnce, NoneReturns
<1>4. out' \in Seq(Headers \union Blocks)
  BY <1>1, HeaderAdded, Zenon DEF RepliesInv
<1>5. RepliesTyped'
  BY <1>2, <1>4, Zenon DEF RepliesInv, RepliesTyped
<1>6. RepliesWhole' /\ LastReply'
  BY <1>1, <1>2, <1>3, LastIsError, Zenon
<1>7. AnsweredOnce'
  <2>1. \A j \in Cookies : Unanswered(j) /\ j # k => Unanswered(j)'
    BY <1>1, OthersUnanswered, Zenon DEF RepliesInv
  <2> QED BY <1>2, <1>3, <2>1, Zenon DEF RepliesInv, AnsweredOnce, NoneReturns
<1>8. Exclusive'
  BY <1>2, Zenon DEF RepliesInv, Exclusive, Alone
<1> QED BY <1>5, <1>6, <1>7, <1>8, Zenon DEF RepliesInv

\* The worker of k returns.
LEMMA Finished ==
    ASSUME RepliesInv, NEW k \in Cookies, Finish(k)
    PROVE  /\ wpc' \in [Cookies -> {"none", "read", "eio", "begin", "send", "done"}]
           /\ got' \in [Cookies -> [n : Nat, bogus : BOOLEAN]]
           /\ inTx' \subseteq Cookies /\ lock' \in Cookies \union {"nobody"}
           /\ wpc'[k] = "done" /\ k \notin inTx' /\ lock' # k
           /\ \A j \in Cookies : j # k =>
                 wpc'[j] = wpc[j] /\ got'[j] = got[j] /\ (j \in inTx' <=> j \in inTx)
           /\ lock' \in Cookies => lock' = lock
<1>1. RepliesTyped
  BY DEF RepliesInv
<1>2. Nothing \in [n : Nat, bogus : BOOLEAN]
  BY DEF Nothing
<1>3. /\ wpc' \in [Cookies -> {"none", "read", "eio", "begin", "send", "done"}]
      /\ wpc'[k] = "done" /\ \A j \in Cookies : j # k => wpc'[j] = wpc[j]
  BY <1>1 DEF RepliesTyped, Finish
<1>4. /\ got' \in [Cookies -> [n : Nat, bogus : BOOLEAN]]
      /\ \A j \in Cookies : j # k => got'[j] = got[j]
  BY <1>1, <1>2 DEF RepliesTyped, Finish
<1>5. /\ inTx' \subseteq Cookies /\ k \notin inTx'
      /\ \A j \in Cookies : j # k => (j \in inTx' <=> j \in inTx)
  BY <1>1, Zenon DEF RepliesTyped, Finish
<1>6. /\ lock' \in Cookies \union {"nobody"} /\ lock' # k
      /\ lock' \in Cookies => lock' = lock
  <2>1. "nobody" \notin Cookies
    BY TransmissionAssumption
  <2> QED BY <1>1, <2>1 DEF RepliesTyped, Finish
<1> QED BY <1>3, <1>4, <1>5, <1>6, Zenon

\* Without the worker that returns, the others are as they were.
LEMMA OthersAlone ==
    ASSUME RepliesInv, NEW k \in Cookies, Finish(k), lock \in {"nobody", k},
           \A j \in Cookies : j # k => cur'[j] = cur[j]
    PROVE  Exclusive'
<1>1. SUFFICES ASSUME NEW j \in Cookies PROVE Alone(j)'
  BY Zenon DEF Exclusive
<1>2. Alone(j)
  BY Zenon DEF RepliesInv, Exclusive
<1>3. CASE j = k
  BY <1>3, Finished, Zenon DEF Alone
<1>4. CASE j # k
  <2>1. "nobody" \notin Cookies
    BY TransmissionAssumption
  <2>2. lock' # j /\ lock # j
    BY <1>4, <2>1, Finished, Zenon
  <2>3. wpc'[j] = wpc[j] /\ got'[j] = got[j] /\ (j \in inTx' <=> j \in inTx) /\ cur'[j] = cur[j]
    BY <1>4, Finished, Zenon
  <2> QED BY <1>2, <2>2, <2>3, Zenon DEF Alone
<1> QED BY <1>3, <1>4

LEMMA StepEIO ==
    ASSUME RepliesInv, NoneReturns, NEW k \in Cookies, SendEIO(k)
    PROVE  RepliesInv'
<1>1. /\ wpc[k] = "eio" /\ lock = "nobody" /\ Finish(k) /\ Deliver(<<Header(k, "EIO")>>)
      /\ link' = link /\ mcmd' = mcmd /\ cur' = cur
  BY Zenon DEF SendEIO, mainVars
<1>2. "EIO" \in {"OK", "EIO", "EINVAL", "ENOTSUP"} /\ "EIO" \in {"EIO", "EINVAL", "ENOTSUP"}
  OBVIOUS
<1>3. k # "nobody" /\ k \notin inTx /\ lock' = lock
  <2>1. k # "nobody"
    BY TransmissionAssumption
  <2>2. lock' = lock
    BY <1>1, <2>1, Zenon DEF Finish
  <2> QED BY <1>1, <2>1, <2>2, Zenon DEF RepliesInv, Exclusive, Alone
<1>4. Unanswered(k) /\ ~Waits(k)' /\ k \notin mcmd
  <2>1. wpc[k] # "none" /\ wpc[k] \in {"read", "begin", "eio"}
    BY <1>1
  <2> QED BY <1>3, <2>1, AtWork, Zenon DEF RepliesInv, AnsweredOnce
<1>5. RepliesTyped'
  <2>1. out' \in Seq(Headers \union Blocks)
    BY <1>1, <1>2, HeaderAdded, Zenon DEF RepliesInv
  <2> QED BY <1>1, <2>1, Finished, Zenon DEF RepliesInv, RepliesTyped
<1>6. RepliesWhole' /\ LastReply'
  BY <1>1, <1>2, <1>3, <1>4, LastIsError, Zenon
<1>7. AnsweredOnce'
  <2>1. \A j \in Cookies : Unanswered(j) /\ j # k => Unanswered(j)'
    BY <1>1, <1>2, OthersUnanswered, Zenon DEF RepliesInv
  <2>2. wpc'[k] = "done" /\ \A j \in Cookies : j # k => wpc'[j] = wpc[j] /\ (j \in inTx' <=> j \in inTx)
    BY <1>1, Finished, Zenon
  <2> QED BY <1>1, <1>4, <2>1, <2>2, Zenon DEF RepliesInv, AnsweredOnce, NoneReturns
<1>8. Exclusive'
  BY <1>1, OthersAlone, Zenon
<1> QED BY <1>5, <1>6, <1>7, <1>8, Zenon DEF RepliesInv

LEMMA StepBegin ==
    ASSUME RepliesInv, NoneReturns, NEW k \in Cookies, Begin(k)
    PROVE  RepliesInv'
<1>1. /\ wpc[k] = "begin" /\ lock = "nobody" /\ Deliver(<<Header(k, "OK")>>)
      /\ link' = link /\ mcmd' = mcmd /\ cur' = cur
  BY Zenon DEF Begin, mainVars
<1>2. "OK" \in {"OK", "EIO", "EINVAL", "ENOTSUP"}
  OBVIOUS
<1>3. /\ \A j \in Cookies : lock # j /\ j \notin inTx /\ wpc[j] # "send"
      /\ cur[k] = 0 /\ LenOf[k] > 0 /\ got[k].n <= LenOf[k] - cur[k]
  <2>1. \A j \in Cookies : lock # j
    BY <1>1, TransmissionAssumption
  <2> QED BY <1>1, <2>1, Zenon DEF RepliesInv, Exclusive, Alone
<1>4. Unanswered(k) /\ ~Waits(k)' /\ k \notin mcmd
  <2>1. wpc[k] # "none" /\ wpc[k] \in {"read", "begin", "eio"}
    BY <1>1
  <2> QED BY <1>3, <2>1, AtWork, Zenon DEF RepliesInv, AnsweredOnce
<1>5. out' \in Seq(Headers \union Blocks)
  BY <1>1, <1>2, HeaderAdded, Zenon DEF RepliesInv
<1>6. \A j \in Cookies : Unanswered(j) /\ j # k => Unanswered(j)'
  BY <1>1, <1>2, OthersUnanswered, Zenon DEF RepliesInv
<1>7. CASE link = "down" /\ Finish(k)
  <2>1. out' = out /\ link # "up"
    BY <1>1, <1>7 DEF Deliver
  <2>2. RepliesTyped'
    BY <1>1, <1>5, <1>7, Finished, Zenon DEF RepliesInv, RepliesTyped
  <2>3. RepliesWhole'
    BY <2>1, SameOut, Zenon DEF RepliesInv
  <2>4. LastReply'
    BY <1>1, <2>1, Zenon DEF LastReply
  <2>5. wpc'[k] = "done" /\ \A j \in Cookies : j # k => wpc'[j] = wpc[j] /\ (j \in inTx' <=> j \in inTx)
    BY <1>7, Finished, Zenon
  <2>6. AnsweredOnce'
    BY <1>1, <1>4, <1>6, <2>5, Zenon DEF RepliesInv, AnsweredOnce, NoneReturns
  <2>7. Exclusive'
    BY <1>1, <1>7, OthersAlone, Zenon
  <2> QED BY <2>2, <2>3, <2>4, <2>6, <2>7, Zenon DEF RepliesInv
<1>8. CASE wpc' = [wpc EXCEPT ![k] = "send"] /\ lock' = k /\ inTx' = inTx \union {k} /\ got' = got
  <2>1. /\ wpc' \in [Cookies -> {"none", "read", "eio", "begin", "send", "done"}]
        /\ wpc'[k] = "send" /\ \A j \in Cookies : j # k => wpc'[j] = wpc[j]
    BY <1>8 DEF RepliesInv, RepliesTyped
  <2>2. RepliesTyped'
    BY <1>1, <1>5, <1>8, <2>1, Zenon DEF RepliesInv, RepliesTyped
  <2>3. AnsweredOnce'
    BY <1>1, <1>3, <1>4, <1>6, <1>8, <2>1, Zenon DEF RepliesInv, AnsweredOnce, NoneReturns
  <2>4. Exclusive'
    <3>1. SUFFICES ASSUME NEW j \in Cookies PROVE Alone(j)'
      BY Zenon DEF Exclusive
    <3>2. CASE j = k
      BY <1>1, <1>3, <1>8, <2>1, <3>2 DEF Alone
    <3>3. CASE j # k
      BY <1>1, <1>3, <1>8, <2>1, <3>3, Zenon DEF RepliesInv, Exclusive, Alone
    <3> QED BY <3>2, <3>3
  <2>5. RepliesWhole' /\ LastReply'
    <3>1. CASE link # "up"
      <4>1. out' = out
        BY <1>1, <3>1, Zenon DEF Deliver
      <4>2. RepliesWhole'
        BY <4>1, SameOut, Zenon DEF RepliesInv
      <4> QED BY <1>1, <3>1, <4>2, Zenon DEF LastReply
    <3>2. CASE link = "up"
      <4>1. /\ RepliesWhole'
            /\ \A i \in 1..Len(out) : out'[i].is = "header" /\ out'[i].error = "OK" =>
                  i + LenOf[out'[i].cookie] <= Len(out)
        BY <1>1, <1>2, <1>4, <3>2, WholeWithHeader, Zenon
      <4>2. /\ Len(out') = Len(out) + 1 /\ out'[Len(out) + 1] = Header(k, "OK")
            /\ \A i \in 1..Len(out) : out'[i] = out[i]
        BY <1>1, <1>2, <3>2, HeaderAdded, Zenon DEF RepliesInv
      <4>3. Len(out) \in Nat /\ \A i \in 1..Len(out) : LenOf[out[i].cookie] \in Nat
        BY Sent, Zenon DEF RepliesInv
      <4>4. \A i \in 1..Len(out') : i \in 1..Len(out) \/ i = Len(out) + 1
        BY <4>2, <4>3
      <4>5. Header(k, "OK").cookie = k
        BY DEF Header
      <4>6. \A i \in 1..Len(out) : i + LenOf[out[i].cookie] <= Len(out) =>
                ~(i + LenOf[out[i].cookie] > Len(out) + 1)
        BY <4>3
      <4>7. /\ cur[k] = 0 /\ cur[k] < Len(out) + 1
            /\ (Len(out) + 1) - cur[k] = Len(out) + 1 /\ (Len(out) + 1) + cur[k] = Len(out) + 1
        BY <1>3, <4>3
      <4>8. ASSUME NEW i \in 1..Len(out'), out'[i].is = "header", out'[i].error = "OK",
                   i + LenOf[out'[i].cookie] > Len(out')
            PROVE  lock' = out'[i].cookie /\ i + cur'[out'[i].cookie] = Len(out')
        <5>1. i = Len(out) + 1
          BY <4>1, <4>2, <4>4, <4>6, <4>8, Zenon
        <5> QED BY <1>1, <1>8, <4>2, <4>5, <4>7, <5>1, Zenon
      <4>9. cur'[k] < Len(out') /\ out'[Len(out') - cur'[k]] = Header(k, "OK")
        BY <1>1, <4>2, <4>7, Zenon
      <4> QED BY <1>8, <4>1, <4>8, <4>9, Zenon DEF LastReply
    <3> QED BY <3>1, <3>2
  <2> QED BY <2>2, <2>3, <2>4, <2>5, Zenon DEF RepliesInv
<1> QED BY <1>7, <1>8, Zenon DEF Begin, MayFail

\* SendData sends no header.
LEMMA BlocksAnswerNone ==
    ASSUME RepliesTyped, NEW k \in Cookies, NEW j \in Cookies, Unanswered(j),
           Deliver([i \in 1..got[k].n |-> Block(k, cur[k] + i - 1, got[k].bogus)])
    PROVE  Unanswered(j)'
<1>1. CASE link # "up"
  <2>1. out' = out
    BY <1>1, Zenon DEF Deliver
  <2> QED BY <2>1, Zenon DEF Unanswered
<1>2. CASE link = "up"
  <2>1. /\ \A i \in 1..Len(out) : out'[i] = out[i]
        /\ \A t \in 1..got[k].n :
              out'[Len(out) + t] = Block(k, cur[k] + t - 1, got[k].bogus)
        /\ \A i \in 1..Len(out') :
              i \in 1..Len(out) \/ \E t \in 1..got[k].n : i = Len(out) + t
    BY <1>2, BlocksAdded, Zenon
  <2>2. \A t \in 1..got[k].n : Block(k, cur[k] + t - 1, got[k].bogus).is # "header"
    BY DEF Block
  <2> QED BY <2>1, <2>2, Zenon DEF Unanswered
<1> QED BY <1>1, <1>2

LEMMA StepData ==
    ASSUME RepliesInv, NoneReturns, NEW k \in Cookies, SendData(k)
    PROVE  RepliesInv'
<1>1. /\ wpc[k] = "send" /\ cur' = [cur EXCEPT ![k] = @ + got[k].n]
      /\ Deliver([i \in 1..got[k].n |-> Block(k, cur[k] + i - 1, got[k].bogus)])
      /\ link' = link /\ mcmd' = mcmd
  BY Zenon DEF SendData, mainVars
<1>2. k \in inTx /\ lock = k /\ got[k].n <= LenOf[k] - cur[k]
  BY <1>1, Zenon DEF RepliesInv, Exclusive, Alone
<1>3. ~Waits(k)' /\ k \notin mcmd
  <2>1. wpc[k] # "none"
    BY <1>1
  <2> QED BY <2>1, AtWork, Zenon
<1>4. /\ got[k].n \in Nat /\ cur[k] \in Nat /\ LenOf[k] \in Nat
      /\ cur' \in [Cookies -> Nat] /\ cur'[k] = cur[k] + got[k].n
      /\ \A j \in Cookies : j # k => cur'[j] = cur[j]
  <2>1. got[k].n \in Nat /\ cur \in [Cookies -> Nat] /\ LenOf[k] \in Nat
    BY TransmissionAssumption DEF RepliesInv, RepliesTyped
  <2>2. cur[k] + got[k].n \in Nat
    BY <2>1
  <2> QED BY <1>1, <2>1, <2>2
<1>5. out' \in Seq(Headers \union Blocks)
  BY <1>1, BlocksAdded, Zenon DEF RepliesInv
<1>6. \A j \in Cookies : Unanswered(j) => Unanswered(j)'
  BY <1>1, BlocksAnswerNone, Zenon DEF RepliesInv
<1>7. /\ RepliesWhole'
      /\ link = "up" =>
            /\ \A i \in 1..Len(out') :
                 ( /\ out'[i].is = "header" /\ out'[i].error = "OK"
                   /\ i + LenOf[out'[i].cookie] > Len(out') )
                     => out'[i].cookie = k /\ i + cur'[k] = Len(out') /\ cur'[k] < LenOf[k]
            /\ cur'[k] < Len(out') /\ out'[Len(out') - cur'[k]] = Header(k, "OK")
  <2>1. CASE link # "up"
    <3>1. out' = out
      BY <1>1, <2>1, Zenon DEF Deliver
    <3>2. RepliesWhole'
      BY <3>1, SameOut, Zenon DEF RepliesInv
    <3> QED BY <2>1, <3>2, Zenon
  <2>2. CASE link = "up"
    BY <1>1, <1>2, <1>4, <2>2, WholeWithBlocks, Zenon
  <2> QED BY <2>1, <2>2, Zenon
<1>8. CASE /\ cur[k] + got[k].n < LenOf[k] /\ wpc' = [wpc EXCEPT ![k] = "read"]
           /\ got' = [got EXCEPT ![k] = Nothing] /\ lock' = lock /\ inTx' = inTx
  <2>1. /\ wpc' \in [Cookies -> {"none", "read", "eio", "begin", "send", "done"}]
        /\ wpc'[k] = "read" /\ \A j \in Cookies : j # k => wpc'[j] = wpc[j]
    BY <1>8 DEF RepliesInv, RepliesTyped
  <2>2. /\ got' \in [Cookies -> [n : Nat, bogus : BOOLEAN]]
        /\ \A j \in Cookies : j # k => got'[j] = got[j]
    BY <1>8 DEF RepliesInv, RepliesTyped, Nothing
  <2>3. RepliesTyped'
    BY <1>1, <1>4, <1>5, <1>8, <2>1, <2>2, Zenon DEF RepliesInv, RepliesTyped
  <2>4. AnsweredOnce'
    BY <1>1, <1>2, <1>3, <1>6, <1>8, <2>1, Zenon DEF RepliesInv, AnsweredOnce, NoneReturns
  <2>5. Exclusive'
    <3>1. SUFFICES ASSUME NEW j \in Cookies PROVE Alone(j)'
      BY Zenon DEF Exclusive
    <3>2. CASE j = k
      <4>1. LenOf[k] > 0
        BY <1>4, <1>8
      <4> QED BY <1>2, <1>4, <1>8, <2>1, <3>2, <4>1 DEF Alone
    <3>3. CASE j # k
      BY <1>4, <1>8, <2>1, <2>2, <3>3, Zenon DEF RepliesInv, Exclusive, Alone
    <3> QED BY <3>2, <3>3
  <2>6. LastReply'
    BY <1>1, <1>2, <1>7, <1>8, Zenon DEF LastReply
  <2> QED BY <1>7, <2>3, <2>4, <2>5, <2>6, Zenon DEF RepliesInv
<1>9. CASE Finish(k) /\ (cur[k] + got[k].n >= LenOf[k] \/ link = "down")
  <2>1. RepliesTyped'
    BY <1>1, <1>4, <1>5, <1>9, Finished, Zenon DEF RepliesInv, RepliesTyped
  <2>2. wpc'[k] = "done" /\ \A j \in Cookies : j # k => wpc'[j] = wpc[j] /\ (j \in inTx' <=> j \in inTx)
    BY <1>9, Finished, Zenon
  <2>3. AnsweredOnce'
    BY <1>1, <1>3, <1>6, <2>2, Zenon DEF RepliesInv, AnsweredOnce, NoneReturns
  <2>4. Exclusive'
    BY <1>2, <1>4, <1>9, OthersAlone, Zenon
  <2>5. LastReply'
    <3>1. \A j \in Cookies : lock' # j
      BY <1>2, <1>9, Finished, Zenon
    <3>2. CASE link = "up"
      <4>1. ~(cur'[k] < LenOf[k])
        BY <1>4, <1>9, <3>2
      <4> QED BY <1>7, <3>1, <3>2, <4>1, Zenon DEF LastReply
    <3>3. CASE link # "up"
      BY <1>1, <3>3, Zenon DEF LastReply
    <3> QED BY <3>2, <3>3
  <2> QED BY <1>7, <2>1, <2>3, <2>4, <2>5, Zenon DEF RepliesInv
<1> QED BY <1>8, <1>9, Zenon DEF SendData, MayFail

\* What ReadAt gives fits into the rest of the reply.
LEMMA WantedFits ==
    ASSUME RepliesInv, NEW k \in Cookies, wpc[k] = "read"
    PROVE  /\ Wanted(k) \in Nat /\ Wanted(k) <= LenOf[k] - cur[k]
           /\ LenOf[k] - cur[k] \in Nat
<1>1. LenOf[k] \in Nat /\ cur[k] \in Nat /\ BufferSize \in Nat
  BY TransmissionAssumption DEF RepliesInv, RepliesTyped
<1>2. cur[k] < LenOf[k]
  <2>1. k \in inTx => cur[k] < LenOf[k]
    BY Zenon DEF RepliesInv, Exclusive, Alone
  <2>2. k \notin inTx => cur[k] = 0 /\ LenOf[k] > 0
    BY Zenon DEF RepliesInv, Exclusive, Alone
  <2> QED BY <2>1, <2>2
<1> QED BY <1>1, <1>2 DEF Wanted

LEMMA RepliesStep ==
    ASSUME ArrivalsInv, RepliesInv, [Next]_vars
    PROVE  ArrivalsInv' /\ RepliesInv'
<1>1. ArrivalsInv' /\ NoneReturns
  BY ArrivesStep, Zenon DEF NoneReturns
<1>2. ASSUME NEW k \in Cookies, ReadNothing(k) PROVE RepliesInv'
  <2>1. /\ wpc[k] = "read" /\ k \notin inTx /\ wpc' = [wpc EXCEPT ![k] = "eio"] /\ got' = got
        /\ out' = out /\ link' = link /\ mcmd' = mcmd /\ lock' = lock /\ cur' = cur /\ inTx' = inTx
    BY <1>2, Zenon DEF ReadNothing, connVars, mainVars
  <2> QED BY <1>1, <2>1, StepRead, Zenon
<1>3. ASSUME NEW k \in Cookies, ReadNothingInTx(k) PROVE RepliesInv'
  <2>1. PICK g : g = IF ioErrors[k] + 1 > IoErrorsThreshold
                     THEN [n |-> Wanted(k), bogus |-> TRUE] ELSE Nothing
    BY Zenon
  <2>5. got' = [got EXCEPT ![k] = g]
    BY <1>3, <2>1, Zenon DEF ReadNothingInTx
  <2>2. /\ wpc[k] = "read" /\ k \in inTx /\ wpc' = [wpc EXCEPT ![k] = "send"]
        /\ out' = out /\ link' = link /\ mcmd' = mcmd /\ lock' = lock /\ cur' = cur /\ inTx' = inTx
    BY <1>3, Zenon DEF ReadNothingInTx, connVars, mainVars
  <2>3. g \in [n : Nat, bogus : BOOLEAN] /\ g.n <= LenOf[k] - cur[k]
    BY <2>1, <2>2, WantedFits DEF Nothing
  <2>4. "send" = (IF k \in inTx THEN "send" ELSE "begin")
    BY <2>2
  <2> QED BY <1>1, <2>2, <2>3, <2>4, <2>5, StepRead, Zenon
<1>4. ASSUME NEW k \in Cookies, NEW n \in 1..BufferSize, NEW failed \in BOOLEAN,
             ReadSome(k, n, failed)
      PROVE  RepliesInv'
  <2>1. PICK pc, g : /\ pc = (IF k \in inTx THEN "send" ELSE "begin")
                     /\ g = [n |-> n, bogus |-> FALSE]
    BY Zenon
  <2>2. /\ wpc[k] = "read" /\ n \in 1..Wanted(k)
        /\ wpc' = [wpc EXCEPT ![k] = pc] /\ got' = [got EXCEPT ![k] = g]
        /\ out' = out /\ link' = link /\ mcmd' = mcmd /\ lock' = lock /\ cur' = cur /\ inTx' = inTx
    BY <1>4, <2>1, Zenon DEF ReadSome, connVars, mainVars
  <2>3. g \in [n : Nat, bogus : BOOLEAN] /\ g.n <= LenOf[k] - cur[k]
    <3>1. n \in Nat /\ n <= LenOf[k] - cur[k]
      BY <2>2, WantedFits
    <3> QED BY <2>1, <3>1
  <2> QED BY <1>1, <2>1, <2>2, <2>3, StepRead, Zenon
<1>5. RepliesInv'
  BY <1>1, <1>2, <1>3, <1>4, Kinds, StepQuiet, StepTake, StepReject, StepEIO, StepBegin,
     StepData, Zenon
<1> QED BY <1>1, <1>5

\* Replies do not mix, and no command gets two: whatever commands a client sends,
\* however its reads are cut and fail, and whoever hangs up or shuts down when.
THEOREM RepliesStayWhole == FairSpec => []RepliesWhole
<1>1. Init => ArrivalsInv /\ RepliesInv
  <2> SUFFICES ASSUME Init PROVE ArrivalsInv /\ RepliesInv
    OBVIOUS
  <2>1. /\ inbound = <<>> /\ out = <<>> /\ rcmd = {} /\ mcmd = {} /\ inTx = {} /\ lock = "nobody"
        /\ sent = [k \in Cookies |-> "no"] /\ wpc = [k \in Cookies |-> "none"]
        /\ cur = [k \in Cookies |-> 0] /\ got = [k \in Cookies |-> Nothing]
    BY Zenon DEF Init
  <2>2. \A i : i \notin 1..Len(inbound) /\ i \notin 1..Len(out)
    BY <2>1
  <2>3. "nobody" \notin Cookies
    BY TransmissionAssumption
  <2>4. ArrivalsTyped
    <3>1. inbound \in Seq(Arrivals)
      BY <2>1
    <3>2. /\ sent \in [Cookies -> CommandTypes \union {"no"}]
          /\ \A k \in Cookies : sent[k] \in Offered[k] \union {"no"}
      BY <2>1, Zenon
    <3> QED BY <2>1, <3>1, <3>2, Zenon DEF ArrivalsTyped
  <2>5. RepliesTyped
    <3>1. out \in Seq(Headers \union Blocks)
      BY <2>1
    <3>2. Nothing \in [n : Nat, bogus : BOOLEAN] /\ 0 \in Nat
      BY DEF Nothing
    <3>3. /\ wpc \in [Cookies -> {"none", "read", "eio", "begin", "send", "done"}]
          /\ cur \in [Cookies -> Nat] /\ got \in [Cookies -> [n : Nat, bogus : BOOLEAN]]
      BY <2>1, <3>2, Zenon
    <3> QED BY <2>1, <3>1, <3>3, Zenon DEF RepliesTyped
  <2>6. ArrivesOnce
    BY <2>1, <2>2, Zenon DEF ArrivesOnce, Queued
  <2>7. \A k \in Cookies : wpc[k] = "none" /\ cur[k] = 0 /\ lock # k
    BY <2>1, <2>3, Zenon
  <2>8. AnsweredOnce
    BY <2>1, <2>2, <2>7, Zenon DEF AnsweredOnce, Unanswered
  <2>9. Exclusive
    BY <2>1, <2>7, Zenon DEF Exclusive, Alone
  <2>10. LastReply /\ RepliesWhole
    BY <2>2, <2>7, Zenon DEF LastReply, RepliesWhole
  <2> QED BY <2>4, <2>5, <2>6, <2>8, <2>9, <2>10, Zenon DEF ArrivalsInv, RepliesInv
<1>2. ArrivalsInv /\ RepliesInv /\ [Next]_vars => (ArrivalsInv /\ RepliesInv)'
  BY RepliesStep
<1>3. RepliesInv => RepliesWhole
  BY DEF RepliesInv
<1> QED BY <1>1, <1>2, <1>3, PTL DEF FairSpec, Spec

-----------------------------------------------------------------------------
(* Negotiation.  What is on the wire is what is left of the payload of the *)
(* option at hand, and then the options after it, each with its payload,   *)
(* up to the last one, of which something may not have been sent yet.      *)

Items == [is : {"same", "other", "option", "payload"}, of : Nat]
Options == [type : OptionTypes, len : Nat]
Reps == [is : Final \union {"hello", "INFO"}, of : Nat]

NegTyped ==
    /\ wire \in Seq(Items) /\ options \in Seq(Options) /\ replies \in Seq(Reps)
    /\ unsent \in Nat /\ option \in Nat /\ nleft \in Nat

\* Behind a place on the wire come n units of payload, and then the option
\* after i; or as much of it as was sent.
Follows(at, n, i) ==
    /\ \A d \in 1..n : at + d <= Len(wire) => wire[at + d].is = "payload"
    /\ i < Len(options) => at + n + 1 <= Len(wire) /\ wire[at + n + 1] = Item("option", i + 1)
    /\ i = Len(options) => Len(wire) + unsent = at + n

HeadersInOrder ==
    \A j \in 1..Len(wire) : wire[j].is = "option" =>
        wire[j].of \in 1..Len(options) /\ Follows(j, options[wire[j].of].len, wire[j].of)

\* n units of the payload of option i are left.
InOrder(n, i) ==
    i <= Len(options) /\ Follows(0, n, i) /\ HeadersInOrder

StreamInStep ==
    /\ npc \in {"hello", "flags"} =>
          /\ options = <<>> /\ unsent = 0 /\ option = 0
          /\ IF npc = "hello" THEN wire = <<>> ELSE Len(wire) <= 1
    /\ npc \notin {"discard", "payload", "ended"} => nleft = 0
    /\ npc \notin {"hello", "flags", "ended"} => InOrder(nleft, option)

\* The rest of a sequence
IsRest(r, s, n) ==
    /\ Len(s) \in Nat /\ Len(r) = Len(s) - n
    /\ \A j \in 1..Len(r) : n + j \in 1..Len(s) /\ r[j] = s[n + j]

LEMMA Rest ==
    ASSUME NEW S, NEW s \in Seq(S), NEW n \in Nat, n <= Len(s)
    PROVE  SubSeq(s, n + 1, Len(s)) \in Seq(S) /\ IsRest(SubSeq(s, n + 1, Len(s)), s, n)
<1>1. PICK m : m = Len(s) /\ m \in Nat
  OBVIOUS
<1>2. PICK r : r = SubSeq(s, n + 1, m)
  BY Zenon
<1>3. r \in Seq(S) /\ Len(r) = m - n
  BY <1>1, <1>2
<1>4. \A j \in 1..m - n : r[j] = s[n + j] /\ n + j \in 1..m
  BY <1>1, <1>2
<1> QED BY <1>1, <1>2, <1>3, <1>4, Zenon DEF IsRest

\* r is s with e behind it.
Longer(r, s, e) ==
    /\ Len(s) \in Nat /\ Len(r) = Len(s) + 1 /\ r[Len(s) + 1] = e
    /\ \A i \in 1..Len(s) : r[i] = s[i]
    /\ \A i \in 1..Len(s) + 1 : i \in 1..Len(s) \/ i = Len(s) + 1

LEMMA Appended ==
    ASSUME NEW S, NEW s \in Seq(S), NEW e \in S
    PROVE  Append(s, e) \in Seq(S) /\ Longer(Append(s, e), s, e)
<1>1. /\ Append(s, e) \in Seq(S) /\ Len(s) \in Nat /\ Len(Append(s, e)) = Len(s) + 1
      /\ Append(s, e)[Len(s) + 1] = e
  OBVIOUS
<1>2. \A i \in 1..Len(s) : Append(s, e)[i] = s[i]
  OBVIOUS
<1>3. \A i \in 1..Len(s) + 1 : i \in 1..Len(s) \/ i = Len(s) + 1
  BY <1>1
<1> QED BY <1>1, <1>2, <1>3, Zenon DEF Longer

\* The server takes n items off the wire.
LEMMA Shifted ==
    ASSUME NegTyped, NEW n \in Nat, n <= Len(wire), Skip(n), options' = options, unsent' = unsent,
           NEW at \in Nat, NEW m \in Nat, NEW i \in Nat, Follows(n + at, m, i)
    PROVE  Follows(at, m, i)'
<1>1. PICK l, z, o : /\ l = Len(wire) /\ l \in Nat /\ z = Len(wire') /\ z = l - n
                     /\ o = Len(options) /\ o \in Nat
                     /\ \A j \in 1..z : n + j \in 1..l /\ wire'[j] = wire[n + j]
  <2>1. wire \in Seq(Items) /\ Len(options) \in Nat
    BY DEF NegTyped
  <2>2. IsRest(wire', wire, n)
    BY <2>1, Rest, Zenon DEF Skip
  <2> QED BY <2>1, <2>2, Zenon DEF IsRest
<1>2. ASSUME NEW d \in 1..m, at + d <= z
      PROVE  wire'[at + d].is = "payload"
  <2>1. at + d \in 1..z /\ n + (at + d) = (n + at) + d /\ (n + at) + d <= l
    BY <1>1, <1>2
  <2> QED BY <1>1, <2>1, Zenon DEF Follows
<1>3. ASSUME i < o
      PROVE  at + m + 1 <= z /\ wire'[at + m + 1] = Item("option", i + 1)
  <2>1. (n + at) + m + 1 <= l /\ wire[(n + at) + m + 1] = Item("option", i + 1)
    BY <1>1, <1>3, Zenon DEF Follows
  <2>2. at + m + 1 \in 1..z /\ at + m + 1 <= z /\ n + (at + m + 1) = (n + at) + m + 1
    BY <1>1, <2>1
  <2> QED BY <1>1, <2>1, <2>2, Zenon
<1>4. ASSUME i = o
      PROVE  z + unsent = at + m
  <2>1. l + unsent = (n + at) + m /\ unsent \in Nat
    BY <1>1, <1>4, Zenon DEF Follows, NegTyped
  <2> QED BY <1>1, <2>1
<1> QED BY <1>1, <1>2, <1>3, <1>4, Zenon DEF Follows

\* So the headers behind them are in order, too.
LEMMA HeadersShift ==
    ASSUME NegTyped, NEW n \in Nat, n <= Len(wire), Skip(n), options' = options, unsent' = unsent,
           NEW m, NEW i, InOrder(m, i)
    PROVE  HeadersInOrder'
<1>1. SUFFICES ASSUME NEW j \in 1..Len(wire'), wire'[j].is = "option",
                      NEW k, k = wire'[j].of, NEW len, len = options'[k].len
               PROVE  k \in 1..Len(options') /\ Follows(j, len, k)'
  BY ZenonT(40) DEF HeadersInOrder, Follows
<1>2. n + j \in 1..Len(wire) /\ wire'[j] = wire[n + j] /\ j \in Nat
  <2>1. wire \in Seq(Items)
    BY DEF NegTyped
  <2>2. n + j \in 1..Len(wire) /\ wire'[j] = wire[n + j]
    BY <1>1, <2>1, Rest, Zenon DEF Skip, IsRest
  <2> QED BY <2>2
<1>4. k \in 1..Len(options) /\ Follows(n + j, len, k)
  BY <1>1, <1>2, Zenon DEF InOrder, HeadersInOrder
<1>5. k \in Nat /\ len \in Nat
  <2>1. options[k] \in Options
    BY <1>4 DEF NegTyped
  <2> QED BY <1>1, <1>4, <2>1 DEF Options
<1>6. Follows(j, len, k)'
  BY <1>2, <1>4, <1>5, Shifted, Zenon
<1> QED BY <1>1, <1>4, <1>6, Zenon

LEMMA SkipPayload ==
    ASSUME NegTyped, NEW n \in Nat, n <= Len(wire), Skip(n), options' = options, unsent' = unsent,
           NEW m \in Nat, NEW i \in Nat, n <= m, InOrder(m, i)
    PROVE  InOrder(m - n, i)'
<1>1. HeadersInOrder'
  BY HeadersShift, Zenon
<1>2. i <= Len(options')
  BY Zenon DEF InOrder
<1>3. PICK k : k = m - n /\ k \in Nat
  OBVIOUS
<1>4. Follows(n + 0, k, i)
  <2>1. Len(wire) \in Nat /\ unsent \in Nat /\ n + 0 = n
    BY DEF NegTyped
  <2>2. Follows(0, m, i)
    BY DEF InOrder
  <2>3. \A d \in 1..k : n + d \in 1..m /\ n + d = 0 + (n + d)
    BY <1>3
  <2>4. n + k + 1 = 0 + m + 1 /\ n + k = 0 + m
    BY <1>3
  <2>5. \A d \in 1..k : n + d <= Len(wire) => wire[n + d].is = "payload"
    BY <2>2, <2>3, Zenon DEF Follows
  <2>6. /\ i < Len(options) => n + k + 1 <= Len(wire) /\ wire[n + k + 1] = Item("option", i + 1)
        /\ i = Len(options) => Len(wire) + unsent = n + k
    BY <2>2, <2>4, Zenon DEF Follows
  <2> QED BY <2>1, <2>5, <2>6, Zenon DEF Follows
<1>5. Follows(0, k, i)'
  <2>1. 0 \in Nat
    OBVIOUS
  <2> QED BY <1>3, <1>4, <2>1, Shifted, Zenon
<1> QED BY <1>1, <1>2, <1>3, <1>5, Zenon DEF InOrder

\* Between options the wire begins with the next one.
LEMMA SkipHeader ==
    ASSUME NegTyped, NEW i \in Nat, InOrder(0, i), Arrived(1), Skip(1),
           options' = options, unsent' = unsent
    PROVE  /\ wire[1] = Item("option", i + 1) /\ i + 1 \in 1..Len(options)
           /\ InOrder(options[i + 1].len, i + 1)'
<1>1. /\ Len(wire) \in Nat /\ 1 <= Len(wire) /\ 1 \in 1..Len(wire) /\ Len(options) \in Nat
      /\ unsent \in Nat /\ 0 + 0 + 1 = 1 /\ 0 + 0 = 0 /\ 1 + 0 = 1 /\ 1 \in Nat /\ 0 \in Nat
  BY DEF NegTyped, Arrived
<1>2. i < Len(options)
  <2>1. i = Len(options) => Len(wire) + unsent = 0
    BY <1>1, Zenon DEF InOrder, Follows
  <2>2. i <= Len(options)
    BY DEF InOrder
  <2> QED BY <1>1, <2>1, <2>2
<1>3. wire[1] = Item("option", i + 1)
  BY <1>1, <1>2, Zenon DEF InOrder, Follows
<1>4. wire[1].is = "option" /\ wire[1].of = i + 1
  BY <1>3 DEF Item
<1>5. PICK len : len = options[i + 1].len /\ Follows(1, len, i + 1) /\ i + 1 \in 1..Len(options)
  BY <1>1, <1>4, Zenon DEF InOrder, HeadersInOrder
<1>6. len \in Nat /\ i + 1 \in Nat /\ i + 1 <= Len(options)
  <2>1. options[i + 1] \in Options
    BY <1>5 DEF NegTyped
  <2> QED BY <1>1, <1>5, <2>1 DEF Options
<1>7. Follows(0, len, i + 1)'
  BY <1>1, <1>5, <1>6, Shifted, Zenon
<1>8. HeadersInOrder'
  BY <1>1, HeadersShift, Zenon
<1>9. InOrder(len, i + 1)'
  BY <1>6, <1>7, <1>8, Zenon DEF InOrder
<1> QED BY <1>3, <1>5, <1>9, Zenon DEF InOrder, Follows

\* The client puts x on the wire: an option, or payload of the last one.
Puts(x) ==
    /\ Longer(wire', wire, x)
    /\ \/ /\ Len(options') = Len(options) + 1 /\ unsent = 0
          /\ x = Item("option", Len(options) + 1)
          /\ options'[Len(options) + 1].len = unsent'
          /\ \A j \in 1..Len(options) : options'[j] = options[j]
       \/ options' = options /\ unsent > 0 /\ unsent' = unsent - 1 /\ x.is = "payload"
    /\ unsent' \in Nat /\ wire' \in Seq(Items) /\ options' \in Seq(Options)

LEMMA ClientPuts ==
    ASSUME NegTyped,
           \/ \E type \in OptionTypes, len \in OptionLens : ClientOption(type, len)
           \/ ClientPayload
    PROVE  \E x : Puts(x)
<1>1. wire \in Seq(Items) /\ options \in Seq(Options) /\ Len(options) \in Nat /\ unsent \in Nat
  BY DEF NegTyped
<1>2. ASSUME NEW type \in OptionTypes, NEW len \in OptionLens, ClientOption(type, len)
      PROVE  \E x : Puts(x)
  <2>1. PICK x, p : x = Item("option", Len(options) + 1) /\ p = [type |-> type, len |-> len]
    BY Zenon
  <2>2. x \in Items /\ p \in Options /\ p.len = len /\ len \in Nat
    BY <1>1, <2>1, NegotiationAssumption DEF Item, Items, Options
  <2>3. /\ unsent = 0 /\ unsent' = len /\ wire' = Append(wire, x) /\ options' = Append(options, p)
    BY <1>2, <2>1, Zenon DEF ClientOption
  <2>4. Longer(wire', wire, x) /\ wire' \in Seq(Items)
    BY <1>1, <2>2, <2>3, Appended, Zenon
  <2>5. Longer(options', options, p) /\ options' \in Seq(Options)
    BY <1>1, <2>2, <2>3, Appended, Zenon
  <2>6. /\ Len(options') = Len(options) + 1 /\ options'[Len(options) + 1] = p
        /\ \A j \in 1..Len(options) : options'[j] = options[j]
    BY <2>5, Zenon DEF Longer
  <2> QED BY <2>1, <2>2, <2>3, <2>4, <2>5, <2>6, Zenon DEF Puts
<1>3. CASE ClientPayload
  <2>1. PICK x : x = Item("payload", Len(options))
    BY Zenon
  <2>2. x \in Items /\ x.is = "payload"
    BY <1>1, <2>1 DEF Item, Items
  <2>3. options' = options /\ unsent > 0 /\ unsent' = unsent - 1 /\ wire' = Append(wire, x)
    BY <1>3, <2>1, Zenon DEF ClientPayload
  <2>4. Longer(wire', wire, x) /\ wire' \in Seq(Items)
    BY <1>1, <2>2, <2>3, Appended, Zenon
  <2>5. unsent' \in Nat
    BY <1>1, <2>3
  <2> QED BY <1>1, <2>2, <2>3, <2>4, <2>5, Zenon DEF Puts
<1> QED BY <1>2, <1>3, Zenon

\* It is what comes next.
LEMMA FollowsMore ==
    ASSUME NegTyped, NEW at \in Nat, NEW m \in Nat, NEW i \in Nat, i <= Len(options),
           Follows(at, m, i), NEW x, Puts(x)
    PROVE  Follows(at, m, i)'
<1>1. PICK l, o, u : /\ l = Len(wire) /\ l \in Nat /\ o = Len(options) /\ o \in Nat
                     /\ u = unsent /\ u \in Nat /\ i <= o
  <2>1. Len(wire) \in Nat /\ Len(options) \in Nat /\ unsent \in Nat
    BY DEF NegTyped
  <2> QED BY <2>1, Zenon
<1>2. /\ Len(wire') = l + 1 /\ wire'[l + 1] = x
      /\ \A j \in 1..l : wire'[j] = wire[j]
      /\ \/ Len(options') = o + 1 /\ u = 0 /\ x = Item("option", o + 1)
         \/ options' = options /\ u > 0 /\ unsent' = u - 1 /\ x.is = "payload"
  BY <1>1, Zenon DEF Puts, Longer
<1>3. /\ \A d \in 1..m : at + d <= l => wire[at + d].is = "payload"
      /\ i < o => at + m + 1 <= l /\ wire[at + m + 1] = Item("option", i + 1)
      /\ i = o => l + u = at + m
  BY <1>1, Zenon DEF Follows
<1>4. ASSUME NEW d \in 1..m, at + d <= l + 1
      PROVE  wire'[at + d].is = "payload"
  <2>1. CASE at + d <= l
    <3>1. at + d \in 1..l
      BY <1>1, <2>1
    <3> QED BY <1>2, <1>3, <2>1, <3>1, Zenon
  <2>2. CASE ~(at + d <= l)
    <3>1. at + d = l + 1
      BY <1>1, <1>4, <2>2
    <3>2. ~(at + m + 1 <= l)
      BY <1>1, <3>1
    <3>3. i = o /\ l + u = at + m
      <4>1. ~(i < o)
        BY <1>3, <3>2, Zenon
      <4>2. i = o
        BY <1>1, <4>1
      <4> QED BY <1>3, <4>2, Zenon
    <3>4. u # 0
      BY <1>1, <3>1, <3>3
    <3> QED BY <1>2, <3>1, <3>4, Zenon
  <2> QED BY <2>1, <2>2, Zenon
<1>5. ASSUME i < o
      PROVE  at + m + 1 <= l + 1 /\ wire'[at + m + 1] = Item("option", i + 1)
  <2>1. at + m + 1 <= l /\ wire[at + m + 1] = Item("option", i + 1)
    BY <1>3, <1>5, Zenon
  <2>2. at + m + 1 \in 1..l /\ at + m + 1 <= l + 1
    BY <1>1, <2>1
  <2> QED BY <1>2, <2>1, <2>2, Zenon
<1>6. CASE options' = options /\ u > 0 /\ unsent' = u - 1
  <2>1. i = o => (l + 1) + unsent' = at + m
    <3>1. l + u = at + m => (l + 1) + (u - 1) = at + m
      BY <1>1
    <3> QED BY <1>3, <1>6, <3>1, Zenon
  <2> QED BY <1>1, <1>2, <1>4, <1>5, <1>6, <2>1, Zenon DEF Follows
<1>7. CASE Len(options') = o + 1 /\ u = 0 /\ x = Item("option", o + 1)
  <2>1. i = o => at + m + 1 = l + 1 /\ at + m + 1 <= l + 1
    <3>1. l + 0 = at + m => at + m + 1 = l + 1 /\ at + m + 1 <= l + 1
      BY <1>1
    <3> QED BY <1>3, <1>7, <3>1, Zenon
  <2>2. (i < o \/ i = o) /\ ~(i = o + 1)
    BY <1>1
  <2>3. at + m + 1 <= l + 1 /\ wire'[at + m + 1] = Item("option", i + 1)
    BY <1>2, <1>5, <1>7, <2>1, <2>2, Zenon
  <2> QED BY <1>1, <1>2, <1>4, <1>7, <2>2, <2>3, Zenon DEF Follows
<1> QED BY <1>2, <1>6, <1>7, Zenon

LEMMA ClientInOrder ==
    ASSUME NegTyped, NEW m \in Nat, NEW i \in Nat, InOrder(m, i), NEW x, Puts(x)
    PROVE  InOrder(m, i)'
<1>1. PICK l, o : l = Len(wire) /\ l \in Nat /\ o = Len(options) /\ o \in Nat /\ unsent \in Nat
  <2>1. Len(wire) \in Nat /\ Len(options) \in Nat /\ unsent \in Nat
    BY DEF NegTyped
  <2> QED BY <2>1, Zenon
<1>2. /\ Len(wire') = l + 1 /\ wire'[l + 1] = x
      /\ \A j \in 1..l : wire'[j] = wire[j]
      /\ \A j \in 1..l + 1 : j \in 1..l \/ j = l + 1
      /\ \/ /\ Len(options') = o + 1 /\ x = Item("option", o + 1)
            /\ options'[o + 1].len = unsent'
            /\ \A j \in 1..o : options'[j] = options[j]
         \/ options' = options /\ x.is = "payload"
      /\ unsent' \in Nat
  BY <1>1, Zenon DEF Puts, Longer
<1>3. ASSUME NEW at \in Nat, NEW n \in Nat, NEW k \in Nat, k <= Len(options), Follows(at, n, k)
      PROVE  Follows(at, n, k)'
  BY <1>3, FollowsMore, Zenon
<1>4. i <= Len(options')
  <2>1. i <= o
    BY <1>1, Zenon DEF InOrder
  <2>2. Len(options') \in {o, o + 1}
    BY <1>1, <1>2, Zenon
  <2> QED BY <1>1, <2>1, <2>2
<1>5. Follows(0, m, i)'
  <2>1. 0 \in Nat
    OBVIOUS
  <2> QED BY <1>3, <2>1, Zenon DEF InOrder
<1>6. HeadersInOrder'
  <2>1. SUFFICES ASSUME NEW j \in 1..Len(wire'), wire'[j].is = "option",
                        NEW k, k = wire'[j].of, NEW len, len = options'[k].len
                 PROVE  k \in 1..Len(options') /\ Follows(j, len, k)'
    BY ZenonT(40) DEF HeadersInOrder, Follows
  <2>2. CASE j \in 1..l
    <3>1. wire[j].is = "option" /\ k = wire[j].of
      BY <1>2, <2>1, <2>2, Zenon
    <3>2. k \in 1..o /\ Follows(j, options[k].len, k)
      BY <1>1, <2>2, <3>1, Zenon DEF InOrder, HeadersInOrder
    <3>3. options'[k] = options[k] /\ k <= Len(options) /\ k \in Nat /\ j \in Nat
      <4>1. options'[k] = options[k]
        BY <1>2, <3>2, Zenon
      <4> QED BY <1>1, <3>2, <4>1
    <3>4. len \in Nat
      <4>1. options[k] \in Options
        BY <1>1, <3>2 DEF NegTyped
      <4> QED BY <2>1, <3>3, <4>1 DEF Options
    <3>5. Follows(j, len, k)'
      BY <1>3, <2>1, <3>2, <3>3, <3>4, Zenon
    <3>6. k \in 1..o + 1
      BY <1>1, <3>2
    <3> QED BY <1>1, <1>2, <3>2, <3>5, <3>6, Zenon
  <2>3. CASE j = l + 1
    <3>1. x.is # "payload"
      BY <1>2, <2>1, <2>3
    <3>2. /\ Len(options') = o + 1 /\ wire'[j] = Item("option", o + 1)
          /\ options'[o + 1].len = unsent'
      BY <1>2, <2>3, <3>1, Zenon
    <3>3. k = o + 1 /\ len = unsent' /\ len \in Nat
      BY <1>2, <2>1, <3>2 DEF Item
    <3>4. \A d \in 1..len : ~(j + d <= l + 1)
      BY <1>1, <2>3, <3>3
    <3>5. k \in 1..o + 1 /\ ~(k < o + 1)
      BY <1>1, <3>3
    <3> QED BY <1>2, <2>3, <3>2, <3>3, <3>4, <3>5, Zenon DEF Follows
  <2> QED BY <1>2, <2>1, <2>2, <2>3, Zenon
<1> QED BY <1>4, <1>5, <1>6, Zenon DEF InOrder

\* A step of the client's leaves the server where it is.
LEMMA ClientStream ==
    ASSUME NegTyped, StreamInStep, NegotiationClient
    PROVE  /\ StreamInStep' /\ wire' \in Seq(Items) /\ options' \in Seq(Options) /\ unsent' \in Nat
           /\ npc' = npc /\ option' = option /\ nleft' = nleft /\ replies' = replies /\ why' = why
<1>1. npc' = npc /\ option' = option /\ nleft' = nleft /\ replies' = replies /\ why' = why
  BY Zenon DEF NegotiationClient, ClientFlags, ClientOption, ClientPayload, ClientQuits, NegClient
<1>2. ASSUME NEW flags \in {"same", "other"}, ClientFlags(flags)
      PROVE  StreamInStep' /\ wire' \in Seq(Items) /\ options' \in Seq(Options) /\ unsent' \in Nat
  <2>1. npc = "flags" /\ wire' = <<Item(flags, 0)>> /\ options' = options /\ unsent' = unsent
    BY <1>2, Zenon DEF ClientFlags
  <2>2. Item(flags, 0) \in Items
    BY DEF Item, Items
  <2>3. wire' \in Seq(Items) /\ Len(wire') <= 1
    BY <2>1, <2>2
  <2> QED BY <1>1, <2>1, <2>3, Zenon DEF StreamInStep, NegTyped
<1>3. ASSUME \/ \E type \in OptionTypes, len \in OptionLens : ClientOption(type, len)
             \/ ClientPayload
      PROVE  StreamInStep' /\ wire' \in Seq(Items) /\ options' \in Seq(Options) /\ unsent' \in Nat
  <2>1. npc \notin {"hello", "flags"}
    <3>1. unsent = 0 => ~(unsent > 0)
      OBVIOUS
    <3> QED BY <1>3, <3>1, Zenon DEF ClientOption, ClientPayload, StreamInStep
  <2>2. PICK x : Puts(x)
    BY <1>3, ClientPuts, Zenon
  <2>3. PICK m, i : m = nleft /\ i = option /\ m \in Nat /\ i \in Nat
    BY Zenon DEF NegTyped
  <2>4. npc # "ended" => InOrder(m, i)'
    <3>1. npc # "ended" => InOrder(m, i)
      BY <2>1, <2>3, Zenon DEF StreamInStep
    <3> QED BY <2>2, <2>3, <3>1, ClientInOrder, Zenon
  <2>5. npc # "ended" => InOrder(nleft, option)'
    BY <1>1, <2>3, <2>4, Zenon DEF InOrder, Follows
  <2> QED BY <1>1, <2>1, <2>2, <2>5, Zenon DEF StreamInStep, Puts
<1>4. CASE ClientQuits
  <2>1. wire' = wire /\ options' = options /\ unsent' = unsent
    BY <1>4, Zenon DEF ClientQuits
  <2> QED BY <1>1, <2>1, Zenon DEF StreamInStep, InOrder, HeadersInOrder, Follows, NegTyped
<1> QED BY <1>1, <1>2, <1>3, <1>4, Zenon DEF NegotiationClient

\* A step that takes nothing off the wire.
LEMMA SameStream ==
    ASSUME NegTyped, StreamInStep, wire' = wire, options' = options, unsent' = unsent,
           option' = option,
           \/ npc' = npc /\ nleft' = nleft
           \/ npc = "hello" /\ npc' = "flags" /\ nleft' = nleft
           \/ /\ npc \notin {"hello", "flags", "ended"} /\ npc' \notin {"hello", "flags"}
              /\ nleft = 0 /\ nleft' = 0
           \/ npc' = "ended"
    PROVE  StreamInStep'
<1>1. npc \notin {"hello", "flags", "ended"} /\ nleft' = nleft => InOrder(nleft, option)'
  <2>1. PICK m, i : m = nleft /\ i = option
    BY Zenon
  <2>2. InOrder(m, i) => InOrder(m, i)'
    BY Zenon DEF InOrder, HeadersInOrder, Follows
  <2>3. InOrder(m, i)' /\ nleft' = nleft => InOrder(nleft, option)'
    BY <2>1, Zenon DEF InOrder, Follows
  <2> QED BY <2>1, <2>2, <2>3, Zenon DEF StreamInStep
<1>2. wire = <<>> => Len(wire) <= 1
  OBVIOUS
<1> QED BY <1>1, <1>2, Zenon DEF StreamInStep

\* What the server takes off the wire
LEMMA TakenStream ==
    ASSUME NegTyped, StreamInStep, NEW n \in Nat, n <= Len(wire), Skip(n),
           options' = options, unsent' = unsent, npc' \notin {"hello", "flags"},
           \/ n <= nleft /\ nleft' = nleft - n /\ option' = option /\ npc \in {"discard", "payload"}
              /\ npc' \in {npc, "export"} /\ (npc' = "export" => n = nleft)
           \/ npc = "option" /\ n = 1 /\ option' = option + 1
              /\ npc' \in {"discard", "payload"} /\ nleft' = options[option + 1].len
    PROVE  StreamInStep'
<1>1. PICK m, i : m = nleft /\ i = option /\ m \in Nat /\ i \in Nat
  BY Zenon DEF NegTyped
<1>2. CASE n <= nleft /\ nleft' = nleft - n /\ option' = option /\ npc \in {"discard", "payload"}
              /\ npc' \in {npc, "export"} /\ (npc' = "export" => n = nleft)
  <2>1. InOrder(m, i)
    BY <1>1, <1>2, Zenon DEF StreamInStep
  <2>2. InOrder(m - n, i)'
    BY <1>1, <1>2, <2>1, SkipPayload, Zenon
  <2>3. InOrder(nleft, option)'
    BY <1>1, <1>2, <2>2, Zenon DEF InOrder, Follows
  <2>4. npc' = "export" => nleft' = 0
    BY <1>1, <1>2
  <2> QED BY <1>2, <2>3, <2>4, Zenon DEF StreamInStep
<1>3. CASE npc = "option" /\ n = 1 /\ option' = option + 1
              /\ npc' \in {"discard", "payload"} /\ nleft' = options[option + 1].len
  <2>1. InOrder(0, i) /\ Skip(1)
    BY <1>1, <1>3, Zenon DEF StreamInStep
  <2>2. Arrived(1)
    <3>1. Len(wire) \in Nat
      BY DEF NegTyped
    <3> QED BY <1>3, <3>1 DEF Arrived
  <2>3. PICK len : len = options[i + 1].len
    BY Zenon
  <2>4. InOrder(len, i + 1)'
    <3>1. InOrder(options[i + 1].len, i + 1)'
      BY <1>1, <2>1, <2>2, SkipHeader, Zenon
    <3> QED BY <2>3, <3>1, Zenon DEF InOrder, Follows
  <2>5. InOrder(nleft, option)'
    BY <1>1, <1>3, <2>3, <2>4, Zenon DEF InOrder, Follows
  <2> QED BY <1>3, <2>5, Zenon DEF StreamInStep
<1> QED BY <1>2, <1>3, Zenon

\* Replies are in order.
Ordered ==
    /\ \A i, j \in 1..Len(replies) : i < j =>
          \/ replies[i].of < replies[j].of
          \/ /\ replies[i].of = replies[j].of
             /\ replies[i].is = "INFO" /\ replies[j].is = "ACK"
    /\ \A j \in 1..Len(replies) : \A i \in 1..(replies[j].of - 1) : IsAnswered(i)

\* The option at hand has no final reply, and the ones before it have one.  The
\* client has waited for the one to NBD_OPT_GO.
RepliesInStep ==
    /\ \A j \in 1..Len(replies) : replies[j].of <= option
    /\ npc = "hello" => replies = <<>>
    /\ npc \in {"discard", "payload", "export", "info"} =>
          \A j \in 1..Len(replies) : replies[j].of < option
    /\ npc = "ack" => \A j \in 1..Len(replies) : replies[j].of = option => replies[j].is = "INFO"
    /\ nlink = "up" /\ npc # "ended" =>
          \A i \in 1..option : IsAnswered(i) \/ (i = option /\ npc # "option")
    /\ \A i \in 1..Len(options) - 1 : options[i].type = "GO" => IsAnswered(i)

Transmits ==
    npc = "transmission" =>
        /\ LastOption.type = "GO" /\ option = Len(options)
        /\ nlink = "up" => replies[Len(replies)] = Rep("ACK", option)
        /\ wire = <<>> /\ unsent = 0

NegInv ==
    NegTyped /\ StreamInStep /\ Ordered /\ RepliesInStep /\ Transmits /\ why # "magic"

\* An answer to option o is due.
Due(is, o) ==
    /\ \A j \in 1..Len(replies) :
          \/ replies[j].of < o
          \/ replies[j].of = o /\ replies[j].is = "INFO" /\ is = "ACK"
    /\ nlink = "up" => \A i \in 1..o - 1 : IsAnswered(i)

LEMMA ReplySent ==
    ASSUME NegTyped, Ordered, NEW is \in Final \union {"hello", "INFO"}, NEW o \in Nat,
           Send(Rep(is, o)), Due(is, o)
    PROVE  /\ replies' \in Seq(Reps) /\ Ordered'
           /\ \A i : IsAnswered(i) => IsAnswered(i)'
           /\ \A j \in 1..Len(replies') :
                 replies'[j] = Rep(is, o) \/ \E k \in 1..Len(replies) : replies'[j] = replies[k]
           /\ nlink = "up" /\ is \in Final => IsAnswered(o)'
           /\ nlink = "up" => replies'[Len(replies')] = Rep(is, o)
<1>1. CASE nlink # "up"
  <2>1. replies' = replies
    BY <1>1, Zenon DEF Send
  <2>2. \A i : IsAnswered(i) <=> IsAnswered(i)'
    BY <2>1, Zenon DEF IsAnswered
  <2>3. Ordered'
    BY <2>1, <2>2, Zenon DEF Ordered
  <2> QED BY <1>1, <2>1, <2>2, <2>3, Zenon DEF NegTyped
<1>2. CASE nlink = "up"
  <2>1. PICK r, n : r = Rep(is, o) /\ n = Len(replies) /\ n \in Nat
    <3>1. Len(replies) \in Nat
      BY DEF NegTyped
    <3> QED BY <3>1, Zenon
  <2>2. r \in Reps /\ r.is = is /\ r.of = o
    BY <2>1 DEF Rep, Reps
  <2>3. replies' \in Seq(Reps) /\ Longer(replies', replies, r)
    BY <1>2, <2>1, <2>2, Appended, Zenon DEF NegTyped, Send
  <2>4. /\ Len(replies') = n + 1 /\ replies'[n + 1] = r
        /\ \A i \in 1..n : replies'[i] = replies[i]
        /\ \A i \in 1..n + 1 : i \in 1..n \/ i = n + 1
    BY <2>1, <2>3, Zenon DEF Longer
  <2>5. (\A i \in 1..n : i \in 1..n + 1 /\ ~(n + 1 < i)) /\ n + 1 \in 1..n + 1 /\ ~(n + 1 < n + 1)
    BY <2>1
  <2>6. \A i : IsAnswered(i) => IsAnswered(i)'
    BY <2>1, <2>4, <2>5, Zenon DEF IsAnswered
  <2>7. is \in Final => IsAnswered(o)'
    BY <2>2, <2>4, <2>5, Zenon DEF IsAnswered
  <2>8. ASSUME NEW i \in 1..n + 1, NEW j \in 1..n + 1, i < j
        PROVE  \/ replies'[i].of < replies'[j].of
               \/ /\ replies'[i].of = replies'[j].of
                  /\ replies'[i].is = "INFO" /\ replies'[j].is = "ACK"
    <3>1. CASE i \in 1..n /\ j \in 1..n
      <4>1. \/ replies[i].of < replies[j].of
            \/ /\ replies[i].of = replies[j].of
               /\ replies[i].is = "INFO" /\ replies[j].is = "ACK"
        BY <2>1, <2>8, <3>1, Zenon DEF Ordered
      <4>2. replies'[i] = replies[i] /\ replies'[j] = replies[j]
        BY <2>4, <3>1, Zenon
      <4> QED BY <4>1, <4>2, Zenon
    <3>2. CASE i \in 1..n /\ j = n + 1
      BY <2>1, <2>2, <2>4, <3>2, Zenon DEF Due
    <3> QED BY <2>4, <2>5, <2>8, <3>1, <3>2, Zenon
  <2>9. ASSUME NEW j \in 1..n + 1, NEW i \in 1..(replies'[j].of - 1)
        PROVE  IsAnswered(i)'
    <3>1. CASE j \in 1..n
      BY <2>1, <2>4, <2>6, <2>9, <3>1, Zenon DEF Ordered
    <3>2. CASE j = n + 1
      BY <1>2, <2>2, <2>4, <2>6, <2>9, <3>2, Zenon DEF Due
    <3> QED BY <2>4, <3>1, <3>2, Zenon
  <2>10. Ordered'
    BY <2>4, <2>8, <2>9, Zenon DEF Ordered
  <2> QED BY <2>1, <2>3, <2>4, <2>6, <2>7, <2>10, Zenon
<1> QED BY <1>1, <1>2, Zenon

\* Where the server goes after an answer to option o
After(is, o) ==
    /\ options' = options /\ nlink' = nlink /\ option' = o
    /\ npc' \in {"flags", "option", "ack", "transmission", "ended"}
    /\ npc' = "option" => is \in Final
    /\ npc' = "ack" => is = "INFO"

LEMMA AfterReply ==
    ASSUME NegInv, NEW is \in Final \union {"hello", "INFO"}, NEW o \in Nat, Send(Rep(is, o)),
           Due(is, o), After(is, o)
    PROVE  Ordered' /\ RepliesInStep' /\ replies' \in Seq(Reps)
<1>1. /\ replies' \in Seq(Reps) /\ Ordered'
      /\ \A i : IsAnswered(i) => IsAnswered(i)'
      /\ \A j \in 1..Len(replies') :
            replies'[j] = Rep(is, o) \/ \E k \in 1..Len(replies) : replies'[j] = replies[k]
      /\ nlink = "up" /\ is \in Final => IsAnswered(o)'
  BY ReplySent, Zenon DEF NegInv
<1>2. Rep(is, o).is = is /\ Rep(is, o).of = o /\ o <= o
  BY DEF Rep
<1>3. ASSUME NEW j \in 1..Len(replies')
      PROVE  /\ replies'[j].of <= o
             /\ npc' = "ack" /\ replies'[j].of = o => replies'[j].is = "INFO"
  <2>1. CASE replies'[j] = Rep(is, o)
    BY <1>2, <2>1, Zenon DEF After
  <2>2. ASSUME NEW k \in 1..Len(replies), replies'[j] = replies[k]
        PROVE  /\ replies'[j].of <= o
               /\ npc' = "ack" /\ replies'[j].of = o => replies'[j].is = "INFO"
    <3>1. replies[k].of < o => replies[k].of # o /\ replies[k].of <= o
      <4>1. replies[k] \in Reps
        BY DEF NegInv, NegTyped
      <4> QED BY <4>1 DEF Reps
    <3> QED BY <1>2, <2>2, <3>1, Zenon DEF Due, After
  <2> QED BY <1>1, <2>1, <2>2, Zenon
<1>4. \A i \in 1..o : i \in 1..o - 1 \/ i = o
  OBVIOUS
<1>5. nlink' = "up" => \A i \in 1..o : IsAnswered(i)' \/ (i = o /\ npc' # "option")
  BY <1>1, <1>4, Zenon DEF Due, After
<1>6. \A i \in 1..Len(options') - 1 : options'[i].type = "GO" => IsAnswered(i)'
  BY <1>1, Zenon DEF NegInv, RepliesInStep, After
<1> QED BY <1>1, <1>3, <1>5, <1>6, Zenon DEF RepliesInStep, After

LEMMA WithoutReply ==
    ASSUME NegInv, replies' = replies, options' = options, nlink' \in {nlink, "down"},
           \/ option' = option /\ npc' \in {npc, "ended"}
           \/ option' = option /\ option = 0 /\ npc' = "option"
           \/ /\ option' = option /\ npc \in {"discard", "payload", "export", "info"}
              /\ npc' \in {"discard", "payload", "export", "info"}
           \/ /\ npc = "option" /\ option' = option + 1
              /\ npc' \in {"discard", "payload"}
    PROVE  Ordered' /\ RepliesInStep'
<1>1. \A i : IsAnswered(i)' <=> IsAnswered(i)
  BY Zenon DEF IsAnswered
<1>2. Ordered'
  BY <1>1, Zenon DEF NegInv, Ordered
<1>3. nlink' = "up" => nlink = "up"
  BY Zenon
<1>4. option \in Nat /\ \A j \in 1..Len(replies) : replies[j].of \in Nat
  <2>1. \A j \in 1..Len(replies) : replies[j] \in Reps
    BY DEF NegInv, NegTyped
  <2> QED BY <2>1 DEF NegInv, NegTyped, Reps
<1>5. \A i \in 1..Len(options') - 1 : options'[i].type = "GO" => IsAnswered(i)'
  BY <1>1, Zenon DEF NegInv, RepliesInStep
<1>6. CASE option' = option /\ npc' \in {npc, "ended"}
  BY <1>1, <1>2, <1>3, <1>5, <1>6, Zenon DEF NegInv, RepliesInStep
<1>7. CASE option' = option /\ option = 0 /\ npc' = "option"
  <2>1. \A i : i \notin 1..option'
    BY <1>7
  <2> QED BY <1>2, <1>5, <1>7, <2>1, Zenon DEF NegInv, RepliesInStep
<1>8. CASE /\ option' = option /\ npc \in {"discard", "payload", "export", "info"}
           /\ npc' \in {"discard", "payload", "export", "info"}
  <2>1. npc # "option" /\ npc # "ended" /\ npc' # "hello" /\ npc' # "ack" /\ npc' # "option"
    BY <1>8
  <2> QED BY <1>1, <1>2, <1>3, <1>5, <1>8, <2>1, Zenon DEF NegInv, RepliesInStep
<1>9. CASE npc = "option" /\ option' = option + 1 /\ npc' \in {"discard", "payload"}
  <2>1. \A j \in 1..Len(replies) : replies[j].of <= option =>
           replies[j].of < option + 1 /\ replies[j].of <= option + 1
    BY <1>4
  <2>2. \A i \in 1..option + 1 : i \in 1..option \/ i = option + 1
    BY <1>4
  <2>3. npc # "ended" /\ npc' # "hello" /\ npc' # "ack" /\ npc' # "option"
    BY <1>9
  <2>4. nlink' = "up" => \A i \in 1..option' : IsAnswered(i)' \/ i = option'
    BY <1>1, <1>3, <1>9, <2>2, <2>3, Zenon DEF NegInv, RepliesInStep
  <2>5. \A j \in 1..Len(replies') : replies'[j].of < option' /\ replies'[j].of <= option'
    BY <1>9, <2>1, Zenon DEF NegInv, RepliesInStep
  <2> QED BY <1>2, <1>5, <2>3, <2>4, <2>5, Zenon DEF RepliesInStep
<1> QED BY <1>6, <1>7, <1>8, <1>9, Zenon

LEMMA StepClient ==
    ASSUME NegInv, NegotiationClient
    PROVE  NegInv'
<1>1. /\ StreamInStep' /\ wire' \in Seq(Items) /\ options' \in Seq(Options) /\ unsent' \in Nat
      /\ npc' = npc /\ option' = option /\ nleft' = nleft /\ replies' = replies /\ why' = why
  BY ClientStream, Zenon DEF NegInv
<1>2. NegTyped' /\ why' # "magic"
  BY <1>1, Zenon DEF NegInv, NegTyped
<1>3. \A i : IsAnswered(i)' <=> IsAnswered(i)
  BY <1>1, Zenon DEF IsAnswered
<1>4. Ordered'
  BY <1>1, <1>3, Zenon DEF NegInv, Ordered
<1>5. nlink' = "up" => nlink = "up"
  BY Zenon DEF NegotiationClient, ClientFlags, ClientOption, ClientPayload, ClientQuits
<1>6. \A i \in 1..Len(options') - 1 : options'[i].type = "GO" => IsAnswered(i)
  <2>1. CASE options' = options
    BY <2>1, Zenon DEF NegInv, RepliesInStep
  <2>2. ASSUME NEW type \in OptionTypes, NEW len \in OptionLens, ClientOption(type, len)
        PROVE  \A i \in 1..Len(options') - 1 : options'[i].type = "GO" => IsAnswered(i)
    <3>1. /\ options' = Append(options, [type |-> type, len |-> len])
          /\ options # <<>> => (LastOption.type = "GO" => IsAnswered(Len(options)))
      BY <2>2, Zenon DEF ClientOption
    <3>2. PICK n : n = Len(options) /\ n \in Nat
      BY DEF NegInv, NegTyped
    <3>3. Len(options') = n + 1 /\ \A i \in 1..n : options'[i] = options[i]
      BY <3>1, <3>2 DEF NegInv, NegTyped
    <3>4. \A i \in 1..Len(options') - 1 : i \in 1..n /\ (i \in 1..n - 1 \/ i = n)
      <4>1. PICK m : m = Len(options') /\ m = n + 1
        BY <3>3, Zenon
      <4>2. \A i \in 1..m - 1 : i \in 1..n /\ (i \in 1..n - 1 \/ i = n)
        BY <3>2, <4>1
      <4> QED BY <4>1, <4>2, Zenon
    <3>5. \A i \in 1..n : options # <<>>
      BY <3>2
    <3>6. ASSUME NEW i \in 1..Len(options') - 1, options'[i].type = "GO"
          PROVE  IsAnswered(i)
      <4>1. i \in 1..n /\ (i \in 1..n - 1 \/ i = n) /\ options # <<>>
        BY <3>4, <3>5, <3>6, Zenon
      <4>2. options[i].type = "GO"
        BY <3>3, <3>6, <4>1, Zenon
      <4>3. CASE i \in 1..n - 1
        BY <3>2, <4>2, <4>3, Zenon DEF NegInv, RepliesInStep
      <4>4. CASE i = n
        BY <3>1, <3>2, <4>1, <4>2, <4>4, Zenon DEF LastOption
      <4> QED BY <4>1, <4>3, <4>4, Zenon
    <3> QED BY <3>6, Zenon
  <2> QED BY <2>1, <2>2, Zenon DEF NegotiationClient, ClientFlags, ClientPayload, ClientQuits
<1>7. RepliesInStep'
  BY <1>1, <1>3, <1>5, <1>6, Zenon DEF NegInv, RepliesInStep
<1>8. Transmits'
  <2>1. unsent = 0 => ~(unsent > 0)
    OBVIOUS
  <2>2. npc = "transmission" => wire' = wire /\ options' = options /\ unsent' = unsent
    BY <2>1, Zenon DEF NegInv, Transmits, NegotiationClient, ClientFlags, ClientOption,
                       ClientPayload, ClientQuits
  <2> QED BY <1>1, <1>5, <2>2, Zenon DEF NegInv, Transmits, LastOption
<1> QED BY <1>1, <1>2, <1>4, <1>7, <1>8, Zenon DEF NegInv

LEMMA Before ==
    ASSUME NegInv, nlink = "up", npc # "ended"
    PROVE  /\ \A i \in 1..option - 1 : IsAnswered(i)
           /\ npc = "option" => \A i \in 1..option : IsAnswered(i)
<1>1. \A i \in 1..option - 1 : i \in 1..option /\ i # option
  BY DEF NegInv, NegTyped
<1> QED BY <1>1, Zenon DEF NegInv, RepliesInStep

\* The server answers the option at hand.
LEMMA StepReply ==
    ASSUME NegInv, NEW is \in Final \union {"hello", "INFO"}, Send(Rep(is, option)),
           \/ npc \in {"hello", "discard", "payload", "export", "info"}
           \/ npc = "ack" /\ is = "ACK",
           Outside, wire' = wire, option' = option, nleft' = 0, why' # "magic",
           \/ npc' = "ended"
           \/ npc = "hello" /\ npc' = "flags"
           \/ npc # "hello" /\ nleft = 0 /\ npc' \in {"option", "ack", "transmission"},
           npc' = "option" => is \in Final, npc' = "ack" => is = "INFO"
    PROVE  /\ NegTyped' /\ StreamInStep' /\ Ordered' /\ RepliesInStep' /\ why' # "magic"
           /\ nlink = "up" => replies'[Len(replies')] = Rep(is, option)
<1>1. PICK o : o = option /\ o \in Nat
  BY Zenon DEF NegInv, NegTyped
<1>2. npc # "ended" /\ npc # "flags"
  OBVIOUS
<1>3. options' = options /\ unsent' = unsent /\ nlink' = nlink /\ Send(Rep(is, o)) /\ option' = o
  BY <1>1, Zenon DEF Outside
<1>4. ASSUME NEW j \in 1..Len(replies)
      PROVE  \/ replies[j].of < o
             \/ replies[j].of = o /\ replies[j].is = "INFO" /\ is = "ACK"
  <2>1. CASE npc = "hello"
    <3>1. replies = <<>>
      BY <2>1, Zenon DEF NegInv, RepliesInStep
    <3> QED BY <3>1
  <2>2. CASE npc \in {"discard", "payload", "export", "info"}
    BY <1>1, <2>2, Zenon DEF NegInv, RepliesInStep
  <2>3. CASE npc = "ack" /\ is = "ACK"
    <3>1. replies[j].of \in Nat /\ replies[j].of <= o
      <4>1. replies[j] \in Reps
        BY DEF NegInv, NegTyped
      <4>2. replies[j].of \in Nat
        BY <4>1 DEF Reps
      <4> QED BY <1>1, <4>2, Zenon DEF NegInv, RepliesInStep
    <3>2. replies[j].of < o \/ replies[j].of = o
      BY <1>1, <3>1
    <3> QED BY <1>1, <2>3, <3>2, Zenon DEF NegInv, RepliesInStep
  <2> QED BY <2>1, <2>2, <2>3, Zenon
<1>5. nlink = "up" => \A i \in 1..o - 1 : IsAnswered(i)
  BY <1>1, <1>2, Before, Zenon
<1>6. npc' \in {"flags", "option", "ack", "transmission", "ended"}
  OBVIOUS
<1>7. Ordered' /\ RepliesInStep' /\ replies' \in Seq(Reps)
  <2>1. Due(is, o)
    BY <1>4, <1>5, Zenon DEF Due
  <2>2. After(is, o)
    BY <1>3, <1>6, Zenon DEF After
  <2>3. NegInv /\ is \in Final \union {"hello", "INFO"} /\ Send(Rep(is, o))
    BY <1>3, Zenon
  <2> QED BY ONLY <1>1, <2>1, <2>2, <2>3, AfterReply, Zenon
<1>8. nlink = "up" => replies'[Len(replies')] = Rep(is, option)
  <2>1. Due(is, o)
    BY <1>4, <1>5, Zenon DEF Due
  <2> QED BY <1>1, <1>3, <2>1, ReplySent, Zenon DEF NegInv
<1>9. StreamInStep'
  <2>1. npc = "hello" => nleft = 0
    BY Zenon DEF NegInv, StreamInStep
  <2>2. npc # "hello" => npc \notin {"hello", "flags", "ended"}
    BY <1>2
  <2>3. npc' \in {"option", "ack", "transmission"} => npc' \notin {"hello", "flags"}
    OBVIOUS
  <2> QED BY <1>3, <2>1, <2>2, <2>3, SameStream, Zenon DEF NegInv
<1>10. NegTyped'
  <2>1. 0 \in Nat
    OBVIOUS
  <2> QED BY <1>3, <1>7, <2>1, Zenon DEF NegInv, NegTyped
<1> QED BY <1>7, <1>8, <1>9, <1>10, Zenon

\* The server answers nothing, and takes nothing off the wire.
LEMMA StepStill ==
    ASSUME NegInv, wire' = wire, options' = options, unsent' = unsent, replies' = replies,
           nlink' = nlink, option' = option, nleft' \in Nat, why' # "magic",
           \/ npc' = npc /\ nleft' = nleft
           \/ npc = "export" /\ npc' = "info" /\ nleft' = nleft
           \/ npc' = "ended"
    PROVE  NegInv'
<1>1. NegTyped'
  BY Zenon DEF NegInv, NegTyped
<1>2. StreamInStep'
  <2>1. npc = "export" => npc \notin {"hello", "flags", "ended"} /\ nleft = 0
    BY Zenon DEF NegInv, StreamInStep
  <2>2. npc' = "info" => npc' \notin {"hello", "flags"}
    OBVIOUS
  <2> QED BY <2>1, <2>2, SameStream, Zenon DEF NegInv
<1>3. Ordered' /\ RepliesInStep'
  <2>1. npc = "export" => npc \in {"discard", "payload", "export", "info"}
    OBVIOUS
  <2>2. npc' = "info" => npc' \in {"discard", "payload", "export", "info"}
    OBVIOUS
  <2>3. npc' \in {npc, "ended"} \/ (npc = "export" /\ npc' = "info")
    OBVIOUS
  <2>4. nlink' \in {nlink, "down"}
    OBVIOUS
  <2> QED BY <2>1, <2>2, <2>3, <2>4, WithoutReply, Zenon
<1>4. Transmits'
  <2>1. npc' = "transmission" => npc' = npc
    OBVIOUS
  <2> QED BY <2>1, Zenon DEF NegInv, Transmits, LastOption
<1> QED BY <1>1, <1>2, <1>3, <1>4, Zenon DEF NegInv

LEMMA StepHello ==
    ASSUME NegInv, SendHello
    PROVE  NegInv'
<1>1. npc = "hello" /\ Send(Rep("hello", option)) /\ npc' \in {"flags", "ended"}
  BY DEF SendHello, Reply, Move, Give
<1>2. why' # "magic"
  BY DEF SendHello, Reply, Move, Give, NegInv
<1>3. Outside /\ wire' = wire /\ option' = option /\ nleft' = 0
  BY <1>1, Zenon DEF SendHello, NegInv, StreamInStep
<1>4. "hello" \in Final \union {"hello", "INFO"} /\ npc' # "option" /\ npc' # "ack"
  BY <1>1
<1>5. NegTyped' /\ StreamInStep' /\ Ordered' /\ RepliesInStep'
  BY <1>1, <1>2, <1>3, <1>4, StepReply, Zenon
<1>6. npc' # "transmission"
  BY <1>1
<1> QED BY <1>2, <1>5, <1>6, Zenon DEF NegInv, Transmits

\* Nothing but the flags of the client is on the wire.
LEMMA StepFlags ==
    ASSUME NegInv, ReceiveFlags
    PROVE  NegInv'
<1>1. /\ npc = "flags" /\ options' = options /\ unsent' = unsent /\ nlink' = nlink
      /\ replies' = replies /\ option' = option /\ nleft' = nleft
  BY Zenon DEF ReceiveFlags, Outside
<1>2. nleft' = 0 /\ option = 0 /\ options = <<>> /\ unsent = 0 /\ Len(wire) <= 1
  BY <1>1, Zenon DEF NegInv, StreamInStep
<1>3. why' # "magic" /\ npc' \in {"option", "ended"}
  BY DEF ReceiveFlags, Move, Give, NegInv
<1>4. Ordered' /\ RepliesInStep'
  <2>1. nlink' \in {nlink, "down"}
    BY <1>1
  <2>2. npc' = "option" \/ npc' \in {npc, "ended"}
    BY <1>3
  <2> QED BY <1>1, <1>2, <2>1, <2>2, WithoutReply, Zenon
<1>5. wire' \in Seq(Items) /\ (npc' = "option" => wire' = <<>>)
  <2>1. wire \in Seq(Items) /\ Len(wire) \in Nat
    BY DEF NegInv, NegTyped
  <2>2. \/ Arrived(1) /\ Skip(1)
        \/ npc' = "ended" /\ wire' = wire
    BY Zenon DEF ReceiveFlags, Give
  <2>3. CASE Arrived(1) /\ Skip(1)
    <3>1. wire' = SubSeq(wire, 2, 1)
      BY <1>2, <2>1, <2>3 DEF Arrived, Skip
    <3>2. wire' = <<>>
      BY <2>1, <3>1
    <3> QED BY <3>2
  <2>4. CASE npc' = "ended" /\ wire' = wire
    BY <2>1, <2>4
  <2> QED BY <2>2, <2>3, <2>4, Zenon
<1>6. NegTyped'
  BY <1>1, <1>5, Zenon DEF NegInv, NegTyped
<1>7. StreamInStep'
  <2>1. CASE npc' = "ended"
    BY <2>1 DEF StreamInStep
  <2>2. CASE npc' = "option"
    <3>1. wire' = <<>> /\ options' = <<>> /\ unsent' = 0 /\ option' = 0 /\ nleft' = 0
      BY <1>1, <1>2, <1>5, <2>2, Zenon
    <3>2. HeadersInOrder'
      BY <3>1 DEF HeadersInOrder
    <3>3. Follows(0, 0, 0)'
      BY <3>1 DEF Follows
    <3>4. 0 <= Len(options')
      BY <3>1
    <3>5. InOrder(nleft, option)'
      BY <3>1, <3>2, <3>3, <3>4, Zenon DEF InOrder, Follows
    <3>6. npc' \notin {"hello", "flags"}
      BY <2>2
    <3> QED BY <3>1, <3>5, <3>6, Zenon DEF StreamInStep
  <2> QED BY <1>3, <2>1, <2>2
<1>8. npc' # "transmission"
  BY <1>3
<1> QED BY <1>3, <1>4, <1>6, <1>7, <1>8, Zenon DEF NegInv, Transmits

\* Switch refuses the option, or goes on to its payload.
LEMMA Switches ==
    ASSUME NegInv, Switch
    PROVE  \/ /\ \E is \in {"POLICY", "ACK"} : Send(Rep(is, option'))
              /\ npc' = "ended" /\ nleft' = nleft /\ why' # "magic"
           \/ /\ npc' \in {"discard", "payload"} /\ nleft' = options[option'].len
              /\ replies' = replies /\ why' = why
<1>1. CASE /\ Type0 \in {"GO", "INFO"}
           /\ Move(IF Len0 > OptionBuf \/ Len0 < NameLen THEN "discard" ELSE "payload")
           /\ nleft' = Len0 /\ UNCHANGED replies
  BY <1>1 DEF Move, Len0
<1>2. CASE Type0 = "OTHER" /\ Move("discard") /\ nleft' = Len0 /\ UNCHANGED replies
  BY <1>2 DEF Move, Len0
<1>3. CASE Type0 = "EXPORT_NAME" /\ Send(Rep("POLICY", option')) /\ Give("policy") /\ UNCHANGED nleft
  BY <1>3 DEF Give
<1>4. CASE Type0 = "ABORT" /\ Send(Rep("ACK", option')) /\ Give("abort") /\ UNCHANGED nleft
  BY <1>4 DEF Give
<1> QED BY <1>1, <1>2, <1>3, <1>4, Zenon DEF Switch

\* What comes next on the wire is the header of the next option.
LEMMA StepOption ==
    ASSUME NegInv, ReceiveOption
    PROVE  NegInv'
<1>1. npc = "option" /\ options' = options /\ unsent' = unsent /\ nlink' = nlink
  BY Zenon DEF ReceiveOption, Outside
<1>2. CASE Never(1) /\ Give("receive") /\ UNCHANGED <<wire, replies, option, nleft>>
  <2>1. npc' = "ended" /\ why' # "magic"
    BY <1>2 DEF Give
  <2> QED BY <1>1, <1>2, <2>1, StepStill, Zenon DEF NegInv, NegTyped
<1>3. CASE /\ Arrived(1) /\ Skip(1)
           /\ IF wire[1].is # "option"
              THEN Give("magic") /\ UNCHANGED <<replies, option, nleft>>
              ELSE /\ option' = wire[1].of
                   /\ IF nctx
                      THEN Send(Rep("SHUTDOWN", option')) /\ Give("ctx") /\ UNCHANGED nleft
                      ELSE Switch
  <2>1. PICK i : i = option /\ i \in Nat
    BY Zenon DEF NegInv, NegTyped
  <2>2. InOrder(0, i)
    BY <1>1, <2>1, Zenon DEF NegInv, StreamInStep
  <2>3. wire[1] = Item("option", i + 1) /\ i + 1 \in 1..Len(options)
    BY <1>1, <1>3, <2>1, <2>2, SkipHeader, Zenon DEF NegInv
  <2>4. wire[1].is = "option" /\ wire[1].of = i + 1 /\ i + 1 \in Nat
    BY <2>1, <2>3 DEF Item
  <2>5. option' = i + 1
    BY <1>3, <2>4, Zenon
  <2>6. \/ /\ \E is \in {"POLICY", "ACK", "SHUTDOWN"} : Send(Rep(is, i + 1))
           /\ npc' = "ended" /\ nleft' = nleft /\ why' # "magic"
        \/ /\ npc' \in {"discard", "payload"} /\ nleft' = options[i + 1].len
           /\ replies' = replies /\ why' = why
    <3>1. CASE nctx
      <4>1. Send(Rep("SHUTDOWN", i + 1)) /\ Give("ctx") /\ nleft' = nleft
        BY <1>3, <2>4, <2>5, <3>1, Zenon
      <4> QED BY <4>1 DEF Give
    <3>2. CASE Switch
      BY <2>5, <3>2, Switches, Zenon
    <3> QED BY <1>3, <2>4, <3>1, <3>2, Zenon
  <2>7. wire' \in Seq(Items) /\ 1 \in Nat /\ 1 <= Len(wire)
    <3>1. wire \in Seq(Items) /\ Len(wire) \in Nat
      BY DEF NegInv, NegTyped
    <3>2. 1 \in Nat /\ 1 <= Len(wire)
      BY <1>3, <3>1 DEF Arrived
    <3> QED BY <1>3, <3>1, <3>2, Rest, Zenon DEF Skip
  <2>8. options[i + 1].len \in Nat
    <3>1. options[i + 1] \in Options
      BY <2>3 DEF NegInv, NegTyped
    <3> QED BY <3>1 DEF Options
  <2>9. CASE npc' \in {"discard", "payload"} /\ nleft' = options[i + 1].len
             /\ replies' = replies /\ why' = why
    <3>1. npc' \notin {"hello", "flags"} /\ npc' # "transmission"
      BY <2>9
    <3>2. StreamInStep'
      BY <1>1, <1>3, <2>1, <2>5, <2>7, <2>9, <3>1, TakenStream, Zenon DEF NegInv
    <3>3. nlink' \in {nlink, "down"}
      BY <1>1
    <3>4. Ordered' /\ RepliesInStep'
      BY <1>1, <2>1, <2>5, <2>9, <3>3, WithoutReply, Zenon
    <3>5. NegTyped' /\ why' # "magic"
      BY <1>1, <2>4, <2>5, <2>7, <2>8, <2>9, Zenon DEF NegInv, NegTyped
    <3> QED BY <3>1, <3>2, <3>4, <3>5, Zenon DEF NegInv, Transmits
  <2>10. ASSUME NEW is \in {"POLICY", "ACK", "SHUTDOWN"}, Send(Rep(is, i + 1)),
                npc' = "ended", nleft' = nleft, why' # "magic"
         PROVE  NegInv'
    <3>1. is \in Final \union {"hello", "INFO"}
      BY DEF Final
    <3>2. After(is, i + 1)
      BY <1>1, <2>5, <2>10 DEF After
    <3>3. Due(is, i + 1)
      <4>1. ASSUME NEW j \in 1..Len(replies)
            PROVE  replies[j].of < i + 1
        <5>1. replies[j] \in Reps
          BY DEF NegInv, NegTyped
        <5>2. replies[j].of <= i
          BY <2>1, Zenon DEF NegInv, RepliesInStep
        <5>3. replies[j].of \in Nat
          BY <5>1 DEF Reps
        <5> QED BY <2>1, <5>2, <5>3
      <4>2. nlink = "up" => \A k \in 1..i : IsAnswered(k)
        <5>1. npc # "ended"
          BY <1>1
        <5> QED BY <1>1, <2>1, <5>1, Before, Zenon
      <4>3. PICK o : o = i + 1
        BY Zenon
      <4>4. \A k \in 1..o - 1 : k \in 1..i
        BY <2>1, <4>3
      <4>5. Due(is, o)
        BY <4>1, <4>2, <4>3, <4>4, Zenon DEF Due
      <4> QED BY <4>3, <4>5, Zenon
    <3>4. Ordered' /\ RepliesInStep' /\ replies' \in Seq(Reps)
      BY <2>4, <2>10, <3>1, <3>2, <3>3, AfterReply, Zenon
    <3>5. StreamInStep'
      BY <2>10 DEF StreamInStep
    <3>6. NegTyped'
      BY <1>1, <2>4, <2>5, <2>7, <2>10, <3>4, Zenon DEF NegInv, NegTyped
    <3>7. npc' # "transmission"
      BY <2>10
    <3> QED BY <2>10, <3>4, <3>5, <3>6, <3>7, Zenon DEF NegInv, Transmits
  <2> QED BY <2>6, <2>9, <2>10, Zenon
<1> QED BY <1>2, <1>3, Zenon DEF ReceiveOption

LEMMA StepDiscardSome ==
    ASSUME NegInv, DiscardSome
    PROVE  NegInv'
<1>1. PICK n \in 1..Least(Least(nleft, DiscardBuf), Len(wire)) : Skip(n) /\ nleft' = nleft - n
  BY Zenon DEF DiscardSome
<1>2. /\ npc = "discard" /\ npc' = npc /\ options' = options /\ unsent' = unsent
      /\ nlink' = nlink /\ replies' = replies /\ option' = option /\ why' = why
  BY Zenon DEF DiscardSome, Outside
<1>3. PICK m, l : m = nleft /\ m \in Nat /\ l = Len(wire) /\ l \in Nat
  <2>1. nleft \in Nat /\ Len(wire) \in Nat
    BY DEF NegInv, NegTyped
  <2> QED BY <2>1, Zenon
<1>4. n \in Nat /\ n <= m /\ n <= l /\ m - n \in Nat
  <2>1. n \in 1..Least(Least(m, DiscardBuf), l)
    BY <1>3, Zenon
  <2> QED BY <1>3, <2>1, NegotiationAssumption DEF Least
<1>5. wire' \in Seq(Items)
  <2>1. wire \in Seq(Items)
    BY Zenon DEF NegInv, NegTyped
  <2> QED BY <1>1, <1>3, <1>4, <2>1, Rest, Zenon DEF Skip
<1>6. npc' \notin {"hello", "flags"} /\ npc' # "export" /\ npc' # "transmission"
      /\ npc \in {"discard", "payload"} /\ npc' \in {npc, "export"} /\ npc' \in {npc, "ended"}
      /\ nlink' \in {nlink, "down"}
  BY <1>2
<1>7. StreamInStep'
  BY <1>1, <1>2, <1>3, <1>4, <1>6, TakenStream, Zenon DEF NegInv
<1>8. Ordered' /\ RepliesInStep'
  BY <1>2, <1>6, WithoutReply, Zenon
<1>9. NegTyped' /\ why' # "magic"
  BY <1>1, <1>2, <1>3, <1>4, <1>5, Zenon DEF NegInv, NegTyped
<1> QED BY <1>6, <1>7, <1>8, <1>9, Zenon DEF NegInv, Transmits

LEMMA StepDiscardEnd ==
    ASSUME NegInv, DiscardEnd
    PROVE  NegInv'
<1>1. npc = "discard" /\ nleft' = 0 /\ Outside /\ wire' = wire /\ option' = option
  BY Zenon DEF DiscardEnd
<1>2. \/ nleft = 0 /\ Reply("UNSUP", "option")
      \/ nleft = 0 /\ Reply("TOO_BIG", "option")
      \/ ReplyAndGive("UNKNOWN", "payload")
      \/ Give("receive") /\ replies' = replies
  BY Zenon DEF DiscardEnd
<1>3. CASE Give("receive") /\ replies' = replies
  <2>1. npc' = "ended" /\ why' # "magic" /\ nleft' \in Nat
    BY <1>1, <1>3 DEF Give
  <2> QED BY <1>1, <1>3, <2>1, StepStill, Zenon DEF Outside
<1>4. ASSUME NEW is \in {"UNSUP", "TOO_BIG", "UNKNOWN"}, Send(Rep(is, option)),
             (nleft = 0 /\ npc' = "option" /\ why' = why) \/ (npc' = "ended" /\ why' # "magic")
      PROVE  NegInv'
  <2>1. is \in Final /\ is \in Final \union {"hello", "INFO"}
    BY DEF Final
  <2>2. why' # "magic" /\ npc' # "ack" /\ npc' # "transmission"
    BY <1>4 DEF NegInv
  <2>3. npc' = "ended" \/ (npc # "hello" /\ nleft = 0 /\ npc' \in {"option", "ack", "transmission"})
    BY <1>1, <1>4
  <2>4. npc \in {"hello", "discard", "payload", "export", "info"}
    BY <1>1
  <2>5. NegTyped' /\ StreamInStep' /\ Ordered' /\ RepliesInStep'
    BY <1>1, <1>4, <2>1, <2>2, <2>3, <2>4, StepReply, Zenon
  <2> QED BY <2>2, <2>5, Zenon DEF NegInv, Transmits
<1>5. CASE nleft = 0 /\ (Reply("UNSUP", "option") \/ Reply("TOO_BIG", "option"))
  <2>1. (npc' = "option" /\ why' = why) \/ (npc' = "ended" /\ why' # "magic")
    BY <1>5 DEF Reply, Move, Give
  <2>2. Send(Rep("UNSUP", option)) \/ Send(Rep("TOO_BIG", option))
    BY <1>5, Zenon DEF Reply
  <2> QED BY <1>4, <1>5, <2>1, <2>2, Zenon
<1>6. CASE ReplyAndGive("UNKNOWN", "payload")
  <2>1. npc' = "ended" /\ why' # "magic" /\ Send(Rep("UNKNOWN", option))
    BY <1>6 DEF ReplyAndGive, Give
  <2> QED BY <1>4, <2>1, Zenon
<1> QED BY <1>2, <1>3, <1>5, <1>6, Zenon

LEMMA StepPayload ==
    ASSUME NegInv, ReceivePayload
    PROVE  NegInv'
<1>1. npc = "payload" /\ nleft' = 0 /\ Outside /\ option' = option
  BY Zenon DEF ReceivePayload
<1>2. CASE Never(nleft) /\ ReplyAndGive("UNKNOWN", "payload") /\ UNCHANGED wire
  <2>1. npc' = "ended" /\ why' # "magic" /\ Send(Rep("UNKNOWN", option)) /\ wire' = wire
    BY <1>2 DEF ReplyAndGive, Give
  <2>2. /\ "UNKNOWN" \in Final \union {"hello", "INFO"} /\ npc' # "option" /\ npc' # "ack"
        /\ npc \in {"hello", "discard", "payload", "export", "info"} /\ npc' # "transmission"
    BY <1>1, <2>1 DEF Final
  <2>3. NegTyped' /\ StreamInStep' /\ Ordered' /\ RepliesInStep'
    BY <1>1, <2>1, <2>2, StepReply, Zenon
  <2> QED BY <2>1, <2>2, <2>3, Zenon DEF NegInv, Transmits
<1>3. CASE Arrived(nleft) /\ Skip(nleft) /\ Move("export") /\ UNCHANGED replies
  <2>1. /\ npc' = "export" /\ why' = why /\ replies' = replies
        /\ options' = options /\ unsent' = unsent /\ nlink' = nlink
    BY <1>1, <1>3 DEF Move, Outside
  <2>2. PICK m : m = nleft /\ m \in Nat
    BY Zenon DEF NegInv, NegTyped
  <2>3. m <= Len(wire) /\ m <= m /\ m - m = 0
    <3>1. Len(wire) \in Nat
      BY DEF NegInv, NegTyped
    <3>2. Len(wire) >= m
      BY <1>3, <2>2, Zenon DEF Arrived
    <3> QED BY <2>2, <3>1, <3>2
  <2>4. wire' \in Seq(Items)
    <3>1. wire \in Seq(Items)
      BY Zenon DEF NegInv, NegTyped
    <3> QED BY <1>3, <2>2, <2>3, <3>1, Rest, Zenon DEF Skip
  <2>5. /\ npc' \notin {"hello", "flags"} /\ npc' # "transmission"
        /\ npc \in {"discard", "payload"} /\ npc' \in {npc, "export"}
        /\ npc \in {"discard", "payload", "export", "info"}
        /\ npc' \in {"discard", "payload", "export", "info"}
        /\ nlink' \in {nlink, "down"}
    BY <1>1, <2>1
  <2>6. StreamInStep'
    BY <1>1, <1>3, <2>1, <2>2, <2>3, <2>5, TakenStream, Zenon DEF NegInv
  <2>7. Ordered' /\ RepliesInStep'
    BY <1>1, <2>1, <2>5, WithoutReply, Zenon
  <2>8. NegTyped' /\ why' # "magic"
    <3>1. 0 \in Nat
      OBVIOUS
    <3> QED BY <1>1, <2>1, <2>4, <3>1, Zenon DEF NegInv, NegTyped
  <2> QED BY <2>5, <2>6, <2>7, <2>8, Zenon DEF NegInv, Transmits
<1> QED BY <1>2, <1>3, Zenon DEF ReceivePayload

LEMMA StepExport ==
    ASSUME NegInv, NegExportDone \/ NegExportFail
    PROVE  NegInv'
<1>1. CASE NegExportDone
  <2>1. npc = "export" /\ npc' = "info" /\ why' = why
    BY <1>1, Zenon DEF NegExportDone, Move
  <2> QED BY <1>1, <2>1, StepStill, Zenon DEF NegExportDone, Outside, NegInv, NegTyped
<1>2. CASE NegExportFail
  <2>1. /\ npc = "export" /\ npc' = "ended" /\ why' # "magic" /\ Send(Rep("UNKNOWN", option))
        /\ wire' = wire /\ option' = option /\ nleft' = nleft /\ Outside
    BY <1>2 DEF NegExportFail, ReplyAndGive, Give
  <2>2. nleft' = 0
    BY <2>1, Zenon DEF NegInv, StreamInStep
  <2>3. /\ "UNKNOWN" \in Final \union {"hello", "INFO"} /\ npc' # "option" /\ npc' # "ack"
        /\ npc \in {"hello", "discard", "payload", "export", "info"} /\ npc' # "transmission"
    BY <2>1 DEF Final
  <2>4. NegTyped' /\ StreamInStep' /\ Ordered' /\ RepliesInStep'
    BY <2>1, <2>2, <2>3, StepReply, Zenon
  <2> QED BY <2>1, <2>3, <2>4, Zenon DEF NegInv, Transmits
<1> QED BY <1>1, <1>2, Zenon

LEMMA StepInfo ==
    ASSUME NegInv, ReplyInfo
    PROVE  NegInv'
<1>1. /\ npc = "info" /\ Send(Rep("INFO", option)) /\ npc' \in {"ack", "ended"}
      /\ wire' = wire /\ option' = option /\ nleft' = nleft /\ Outside
  BY DEF ReplyInfo, Reply, Move, Give
<1>2. why' # "magic"
  BY DEF ReplyInfo, Reply, Move, Give, NegInv
<1>3. nleft = 0 /\ nleft' = 0
  BY <1>1, Zenon DEF NegInv, StreamInStep
<1>4. /\ "INFO" \in Final \union {"hello", "INFO"} /\ npc' # "option" /\ npc # "hello"
      /\ npc \in {"hello", "discard", "payload", "export", "info"} /\ npc' # "transmission"
      /\ npc' = "ended" \/ npc' \in {"option", "ack", "transmission"}
  BY <1>1
<1>5. NegTyped' /\ StreamInStep' /\ Ordered' /\ RepliesInStep'
  BY <1>1, <1>2, <1>3, <1>4, StepReply, Zenon
<1> QED BY <1>2, <1>4, <1>5, Zenon DEF NegInv, Transmits

\* There is an option to handle.
AtOption ==
    npc \in {"discard", "payload", "export", "info", "ack"} => option # 0

LEMMA StepAtOption ==
    ASSUME NegInv, AtOption, [NegNext]_negVars
    PROVE  AtOption'
<1>1. CASE ReceiveOption
  <2>1. npc = "option" /\ options' = options /\ unsent' = unsent
    BY <1>1, Zenon DEF ReceiveOption, Outside
  <2>2. CASE npc' = "ended"
    BY <2>2 DEF AtOption
  <2>3. CASE npc' # "ended"
    <3>1. /\ Arrived(1) /\ Skip(1)
          /\ wire[1].is = "option" => option' = wire[1].of
      BY <1>1, <2>3, Zenon DEF ReceiveOption, Give
    <3>2. PICK i : i = option /\ i \in Nat
      BY Zenon DEF NegInv, NegTyped
    <3>3. InOrder(0, i)
      BY <2>1, <3>2, Zenon DEF NegInv, StreamInStep
    <3>4. wire[1] = Item("option", i + 1)
      BY <2>1, <3>1, <3>2, <3>3, SkipHeader, Zenon DEF NegInv
    <3>5. wire[1].is = "option" /\ wire[1].of = i + 1 /\ i + 1 # 0
      BY <3>2, <3>4 DEF Item
    <3> QED BY <3>1, <3>5, Zenon DEF AtOption
  <2> QED BY <2>2, <2>3
<1>2. CASE NegotiationClient \/ ServerStops \/ UNCHANGED negVars
  <2>1. npc' = npc /\ option' = option
    BY <1>2, Zenon DEF NegotiationClient, ClientFlags, ClientOption, ClientPayload, ClientQuits,
                       NegClient, ServerStops, negVars
  <2> QED BY <2>1, Zenon DEF AtOption
<1>3. CASE SendHello \/ ReceiveFlags
  <2>1. npc' \in {"flags", "option", "ended"}
    BY <1>3 DEF SendHello, ReceiveFlags, Reply, Move, Give
  <2> QED BY <2>1 DEF AtOption
<1>4. CASE \/ DiscardSome \/ DiscardEnd \/ ReceivePayload
           \/ NegExportDone \/ NegExportFail \/ ReplyInfo \/ ReplyAck
  <2>1. npc \in {"discard", "payload", "export", "info", "ack"} /\ option' = option
    BY <1>4, Zenon DEF DiscardSome, DiscardEnd, ReceivePayload, NegExportDone, NegExportFail,
                       ReplyInfo, ReplyAck
  <2> QED BY <2>1, Zenon DEF AtOption
<1> QED BY <1>1, <1>2, <1>3, <1>4, Zenon DEF NegNext, Negotiate

\* The client has sent nothing behind NBD_OPT_GO: it waits for the answer.
LEMMA NothingBehind ==
    ASSUME NegInv, AtOption, npc = "ack", Type = "GO"
    PROVE  LastOption.type = "GO" /\ option = Len(options) /\ wire = <<>> /\ unsent = 0
<1>1. PICK i, n, l : /\ i = option /\ i \in Nat /\ n = Len(options) /\ n \in Nat
                     /\ l = Len(wire) /\ l \in Nat /\ unsent \in Nat
  <2>1. option \in Nat /\ Len(options) \in Nat /\ Len(wire) \in Nat /\ unsent \in Nat
    BY DEF NegInv, NegTyped
  <2> QED BY <2>1, Zenon
<1>2. InOrder(0, i)
  BY <1>1, Zenon DEF NegInv, StreamInStep
<1>3. i <= n /\ (i = n => l + unsent = 0 + 0)
  BY <1>1, <1>2, Zenon DEF InOrder, Follows
<1>4. ~IsAnswered(i)
  <2>1. SUFFICES ASSUME NEW j \in 1..Len(replies), replies[j].of = i, replies[j].is \in Final
                 PROVE  FALSE
    BY Zenon DEF IsAnswered
  <2>2. replies[j].is = "INFO"
    BY <1>1, <2>1, Zenon DEF NegInv, RepliesInStep
  <2> QED BY <2>1, <2>2 DEF Final
<1>5. options[i].type = "GO"
  BY <1>1, Zenon DEF Type
<1>6. i \notin 1..n - 1
  BY <1>1, <1>4, <1>5, Zenon DEF NegInv, RepliesInStep
<1>7. i # 0
  BY <1>1 DEF AtOption
<1>8. i = n
  BY <1>1, <1>3, <1>6, <1>7
<1>9. l = 0 /\ unsent = 0
  BY <1>1, <1>3, <1>8
<1>10. wire = <<>>
  <2>1. wire \in Seq(Items) /\ Len(wire) = 0
    BY <1>1, <1>9, Zenon DEF NegInv, NegTyped
  <2> QED BY <2>1
<1> QED BY <1>1, <1>5, <1>8, <1>9, <1>10, Zenon DEF LastOption

LEMMA StepAck ==
    ASSUME NegInv, AtOption, ReplyAck
    PROVE  NegInv'
<1>1. /\ npc = "ack" /\ Send(Rep("ACK", option))
      /\ wire' = wire /\ option' = option /\ nleft' = nleft /\ Outside
  BY Zenon DEF ReplyAck, Reply
<1>2. npc' \in {"option", "transmission", "ended"} /\ (npc' = "transmission" => Type = "GO")
  BY DEF ReplyAck, Reply, Move, Give
<1>3. why' # "magic"
  BY DEF ReplyAck, Reply, Move, Give, NegInv
<1>4. nleft = 0 /\ nleft' = 0
  BY <1>1, Zenon DEF NegInv, StreamInStep
<1>5. /\ "ACK" \in Final /\ "ACK" \in Final \union {"hello", "INFO"} /\ npc' # "ack" /\ npc # "hello"
      /\ npc' = "ended" \/ npc' \in {"option", "ack", "transmission"}
  BY <1>1, <1>2 DEF Final
<1>6. /\ NegTyped' /\ StreamInStep' /\ Ordered' /\ RepliesInStep'
      /\ nlink = "up" => replies'[Len(replies')] = Rep("ACK", option)
  BY <1>1, <1>3, <1>4, <1>5, StepReply, Zenon
<1>7. Transmits'
  <2>1. options' = options /\ unsent' = unsent /\ nlink' = nlink
    BY <1>1, Zenon DEF Outside
  <2>2. npc' = "transmission" =>
           LastOption.type = "GO" /\ option = Len(options) /\ wire = <<>> /\ unsent = 0
    BY <1>1, <1>2, NothingBehind, Zenon
  <2>3. LastOption' = LastOption /\ Rep("ACK", option)' = Rep("ACK", option)
    BY <1>1, <2>1, Zenon DEF LastOption, Rep
  <2> QED BY <1>1, <1>6, <2>1, <2>2, <2>3, Zenon DEF Transmits
<1> QED BY <1>3, <1>6, <1>7, Zenon DEF NegInv

\* Whatever the client sends and the server refuses or discards, the header of
\* an option is read where the client wrote one; options are answered in order,
\* each of them once; and when transmission begins nothing is left of the
\* negotiation (negotiate, negotiateBackend and discard of proto_negotiate.go).
THEOREM NegotiationStaysInStep == NegSpec => []NegotiationInStep
<1>1. NegInit => NegInv /\ AtOption
  <2>1. SUFFICES ASSUME NegInit
                 PROVE  NegInv /\ AtOption
    OBVIOUS
  <2>2. /\ wire = <<>> /\ options = <<>> /\ unsent = 0 /\ replies = <<>> /\ npc = "hello"
        /\ option = 0 /\ nleft = 0 /\ why = "nil"
    BY <2>1, Zenon DEF NegInit
  <2>3. NegTyped
    BY <2>2 DEF NegTyped
  <2>4. StreamInStep
    BY <2>2 DEF StreamInStep
  <2>5. Ordered /\ RepliesInStep
    BY <2>2 DEF Ordered, RepliesInStep
  <2>6. Transmits /\ AtOption /\ why # "magic"
    BY <2>2 DEF Transmits, AtOption
  <2> QED BY <2>3, <2>4, <2>5, <2>6, Zenon DEF NegInv
<1>2. NegInv /\ AtOption /\ [NegNext]_negVars => (NegInv /\ AtOption)'
  <2>1. SUFFICES ASSUME NegInv, AtOption, [NegNext]_negVars
                 PROVE  NegInv'
    BY StepAtOption
  <2>2. CASE ServerStops \/ UNCHANGED negVars
    <3>1. /\ wire' = wire /\ options' = options /\ unsent' = unsent /\ replies' = replies
          /\ nlink' = nlink /\ option' = option /\ nleft' = nleft /\ why' = why /\ npc' = npc
      BY <2>2, Zenon DEF ServerStops, negVars
    <3> QED BY <2>1, <3>1, StepStill, Zenon DEF NegInv, NegTyped
  <2>3. CASE NegotiationClient
    BY <2>1, <2>3, StepClient, Zenon
  <2>4. CASE Negotiate
    BY <2>1, <2>4, StepHello, StepFlags, StepOption, StepDiscardSome, StepDiscardEnd,
       StepPayload, StepExport, StepInfo, StepAck, Zenon DEF Negotiate
  <2> QED BY <2>1, <2>2, <2>3, <2>4, Zenon DEF NegNext
<1>3. NegInv => NegotiationInStep
  BY Zenon DEF NegInv, Ordered, Transmits, NegotiationInStep
<1> QED BY <1>1, <1>2, <1>3, PTL DEF NegSpec
=============================================================================
