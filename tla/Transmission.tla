---------------------------- MODULE Transmission ----------------------------
(***************************************************************************)
(* nbd/server/proto_transmit.go: the transmission phase of a connection.   *)
(* A receiver goroutine hands the client's commands to the main loop; each *)
(* NBD_CMD_READ gets a worker that reads the backend piece by piece and    *)
(* streams the pieces; errors and refusals are sent by whoever finds them. *)
(* A mutex keeps replies apart, from the header to the last piece.         *)
(*                                                                         *)
(* Lengths count blocks.  The client may hang up and the server may be     *)
(* shut down at any time.  The backend may fail any read, or cut it short. *)
(***************************************************************************)
EXTENDS Naturals, Sequences

CONSTANTS Cookies,     \* the client's commands, known by their cookies
          Offered,     \* Offered[k]: the types k may be sent with
          LenOf,       \* LenOf[k]: the length it asks for
          BufferSize,  \* buffer.Size
          IoErrorsThreshold

\* "FLAGS" stands for any command with a flag.
CommandTypes == {"READ", "WRITE", "DISC", "FLAGS", "OTHER"}

\* A read of length zero is outside of the protocol.
ASSUME TransmissionAssumption ==
    /\ Offered \in [Cookies -> SUBSET CommandTypes]
    /\ LenOf \in [Cookies -> Nat]
    /\ \A k \in Cookies : "READ" \in Offered[k] => LenOf[k] > 0
    /\ BufferSize \in Nat \ {0} /\ IoErrorsThreshold \in Nat
    /\ {"main", "nobody"} \intersect Cookies = {}

VARIABLES
    inbound,   \* what the client has sent and nobody has received yet
    sent,      \* sent[k]: the type k was sent with, "no" if it was not
    out,       \* what the client has been sent: headers and blocks
    link,      \* "up", or "down" once the client has hung up
    soft,      \* ctxSoft of the server is cancelled
    cancelled, \* ctx of transmission is cancelled
    rpc, rcmd, \* receiver: "receive", "deliver" or "ended"; cmd
    mpc, mcmd, \* main loop: "select", "discard", "reject", "wait" or "ended"
    toDiscard, \* payload the main loop still has to discard
    lock,      \* who holds the mutex write
    wpc,       \* wpc[k]: "none", "read", "eio", "begin", "send" or "done"
    cur,       \* cur[k]: blocks of the reply sent so far
    got,       \* got[k]: blocks of the last ReadAt, and whether they are bogus
    inTx,      \* workers in a transaction
    ioErrors   \* ioErrors[k]

readerVars == <<rpc, rcmd>>
mainVars == <<mpc, mcmd, toDiscard>>
workerVars == <<wpc, cur, got, inTx, ioErrors>>
connVars == <<inbound, sent, out, link>>
vars == <<connVars, soft, cancelled, readerVars, mainVars, lock, workerVars>>

Nothing == [n |-> 0, bogus |-> FALSE]
Command(k) == [is |-> "command", cookie |-> k]
Payload(k) == [is |-> "payload", cookie |-> k]
Header(k, error) == [is |-> "header", cookie |-> k, error |-> error]
Block(k, i, bogus) == [is |-> "block", cookie |-> k, at |-> i, bogus |-> bogus]

Init ==
    /\ inbound = <<>> /\ sent = [k \in Cookies |-> "no"] /\ out = <<>>
    /\ link = "up" /\ soft = FALSE /\ cancelled = FALSE
    /\ rpc = "receive" /\ rcmd = {}
    /\ mpc = "select" /\ mcmd = {} /\ toDiscard = 0
    /\ lock = "nobody"
    /\ wpc = [k \in Cookies |-> "none"]
    /\ cur = [k \in Cookies |-> 0]
    /\ got = [k \in Cookies |-> Nothing]
    /\ inTx = {}
    /\ ioErrors = [k \in Cookies |-> 0]

-----------------------------------------------------------------------------
(* The client and the rest of the server *)

\* The payload of a write follows its header.
ClientSend(k, type) ==
    /\ link = "up" /\ sent[k] = "no"
    /\ sent' = [sent EXCEPT ![k] = type]
    /\ inbound' = inbound \o <<Command(k)>> \o
                    (IF type = "WRITE" THEN [i \in 1..LenOf[k] |-> Payload(k)] ELSE <<>>)
    /\ UNCHANGED <<out, link, soft, cancelled, readerVars, mainVars, lock, workerVars>>

ClientHangUp ==
    /\ link = "up"
    /\ link' = "down"
    /\ UNCHANGED <<inbound, sent, out, soft, cancelled, readerVars, mainVars, lock, workerVars>>

\* cancelSoft, of Server.Shutdown: ctx is derived from ctxSoft.
SoftShutdown ==
    /\ ~soft
    /\ soft' = TRUE /\ cancelled' = TRUE
    /\ UNCHANGED <<connVars, readerVars, mainVars, lock, workerVars>>

\* send: it fails, or does not reach anyone, once the client has hung up.
Deliver(items) == out' = IF link = "up" THEN out \o items ELSE out
MayFail == link = "down"

-----------------------------------------------------------------------------
(* The receiver goroutine *)

\* receive(conn, &cmd): whatever comes next on the connection, as a header.
Receive ==
    /\ rpc = "receive" /\ inbound # <<>>
    /\ rcmd' = {Head(inbound)}
    /\ inbound' = Tail(inbound)
    /\ rpc' = "deliver"
    /\ UNCHANGED <<sent, out, link, soft, cancelled, mainVars, lock, workerVars>>

\* The client, or handleConnection, has closed the connection.
ReceiveFail ==
    /\ rpc = "receive"
    /\ link = "down" \/ mpc = "ended"
    /\ rpc' = "ended"
    /\ cancelled' = TRUE
    /\ UNCHANGED <<connVars, soft, rcmd, mainVars, lock, workerVars>>

\* A wrong receiver: it waits for the main loop without the context.
ReceiverWaits == FALSE /\ UNCHANGED vars

ReceiverStop ==
    /\ rpc = "deliver" /\ cancelled
    /\ rpc' = "ended" /\ rcmd' = {}
    /\ UNCHANGED <<connVars, soft, cancelled, mainVars, lock, workerVars>>

-----------------------------------------------------------------------------
(* The main loop *)

\* Leave the loop: cancel(nil), then request.Wait().
LeaveLoop == mpc' = "wait" /\ mcmd' = {} /\ cancelled' = TRUE

MainStop ==
    /\ mpc = "select" /\ cancelled
    /\ LeaveLoop
    /\ UNCHANGED <<connVars, soft, readerVars, toDiscard, lock, workerVars>>

\* commands is not buffered: the receiver goes on as the main loop takes cmd.
Take(c) ==
    /\ mpc = "select" /\ rpc = "deliver" /\ rcmd = {c}
    /\ rpc' = "receive" /\ rcmd' = {}

\* A wrong magic number: what was received was not a command.
TakeGarbage(c) ==
    /\ Take(c) /\ c.is # "command"
    /\ LeaveLoop
    /\ UNCHANGED <<connVars, soft, toDiscard, lock, workerVars>>

TakeRead(c) ==
    /\ Take(c) /\ c.is = "command" /\ sent[c.cookie] = "READ"
    /\ wpc' = [wpc EXCEPT ![c.cookie] = "read"]
    /\ UNCHANGED <<connVars, soft, cancelled, mainVars, lock, cur, got, inTx, ioErrors>>

TakeDisc(c) ==
    /\ Take(c) /\ c.is = "command" /\ sent[c.cookie] = "DISC"
    /\ LeaveLoop
    /\ UNCHANGED <<connVars, soft, toDiscard, lock, workerVars>>

\* Anything else is refused: the payload of a write is thrown away first.
TakeOther(c) ==
    /\ Take(c) /\ c.is = "command" /\ sent[c.cookie] \in {"WRITE", "FLAGS", "OTHER"}
    /\ mcmd' = {c.cookie}
    /\ IF sent[c.cookie] = "WRITE"
       THEN mpc' = "discard" /\ toDiscard' = LenOf[c.cookie]
       ELSE mpc' = "reject" /\ UNCHANGED toDiscard
    /\ UNCHANGED <<connVars, soft, cancelled, lock, workerVars>>

\* discard(conn, n), while the receiver reads from the same connection.
Discard ==
    /\ mpc = "discard"
    /\ IF toDiscard = 0 THEN mpc' = "reject" /\ UNCHANGED <<inbound, toDiscard>>
       ELSE /\ inbound # <<>>
            /\ inbound' = Tail(inbound) /\ toDiscard' = toDiscard - 1
            /\ UNCHANGED mpc
    /\ UNCHANGED <<sent, out, link, soft, cancelled, readerVars, mcmd, lock, workerVars>>

DiscardFail ==
    /\ mpc = "discard" /\ toDiscard > 0 /\ inbound = <<>> /\ link = "down"
    /\ LeaveLoop /\ toDiscard' = 0
    /\ UNCHANGED <<connVars, soft, readerVars, lock, workerVars>>

\* sendError, NBD_EINVAL or NBD_ENOTSUP: lock, send and unlock.
Reject(k) ==
    /\ mpc = "reject" /\ mcmd = {k}
    /\ lock = "nobody"
    /\ Deliver(<<Header(k, IF sent[k] = "FLAGS" THEN "EINVAL" ELSE "ENOTSUP")>>)
    /\ \/ mpc' = "select" /\ mcmd' = {} /\ UNCHANGED cancelled
       \/ MayFail /\ LeaveLoop
    /\ UNCHANGED <<inbound, sent, link, soft, readerVars, toDiscard, lock, workerVars>>

\* request.Wait is over: transmission returns, the connection is closed.
MainEnd ==
    /\ mpc = "wait"
    /\ \A k \in Cookies : wpc[k] \in {"none", "done"}
    /\ mpc' = "ended"
    /\ UNCHANGED <<connVars, soft, cancelled, readerVars, mcmd, toDiscard, lock, workerVars>>

-----------------------------------------------------------------------------
(* The worker of a NBD_CMD_READ.  The mutex is released when it returns.   *)

Wanted(k) == IF LenOf[k] - cur[k] < BufferSize THEN LenOf[k] - cur[k] ELSE BufferSize

Finish(k) ==
    /\ wpc' = [wpc EXCEPT ![k] = "done"]
    /\ lock' = IF lock = k THEN "nobody" ELSE lock
    /\ inTx' = inTx \ {k}
    /\ got' = [got EXCEPT ![k] = Nothing]
    /\ ioErrors' = [ioErrors EXCEPT ![k] = 0]

\* n, ioerr := backend.ReadAt(buf, cur) gave something, maybe with an error.
ReadSome(k, n, failed) ==
    /\ wpc[k] = "read" /\ n \in 1..Wanted(k)
    /\ got' = [got EXCEPT ![k] = [n |-> n, bogus |-> FALSE]]
    /\ ioErrors' = IF failed THEN ioErrors ELSE [ioErrors EXCEPT ![k] = 0]
    /\ wpc' = [wpc EXCEPT ![k] = IF k \in inTx THEN "send" ELSE "begin"]
    /\ UNCHANGED <<connVars, soft, cancelled, readerVars, mainVars, lock, cur, inTx>>

\* Nothing and an error, before the header was sent: NBD_EIO.
ReadNothing(k) ==
    /\ wpc[k] = "read" /\ k \notin inTx
    /\ wpc' = [wpc EXCEPT ![k] = "eio"]
    /\ UNCHANGED <<connVars, soft, cancelled, readerVars, mainVars, lock, cur, got, inTx,
                   ioErrors>>

\* A wrong retry: errors are not counted.
ReadNothingForever(k) ==
    /\ wpc[k] = "read" /\ k \in inTx
    /\ got' = [got EXCEPT ![k] = Nothing]
    /\ wpc' = [wpc EXCEPT ![k] = "send"]
    /\ UNCHANGED <<connVars, soft, cancelled, readerVars, mainVars, lock, cur, inTx, ioErrors>>

\* Nothing and an error, after it: try again, and make the data up after too
\* many errors.
ReadNothingInTx(k) ==
    /\ wpc[k] = "read" /\ k \in inTx
    /\ LET enough == ioErrors[k] + 1 > IoErrorsThreshold
       IN  /\ ioErrors' = [ioErrors EXCEPT ![k] = IF enough THEN @ ELSE @ + 1]
           /\ got' = [got EXCEPT ![k] = IF enough THEN [n |-> Wanted(k), bogus |-> TRUE]
                                        ELSE Nothing]
    /\ wpc' = [wpc EXCEPT ![k] = "send"]
    /\ UNCHANGED <<connVars, soft, cancelled, readerVars, mainVars, lock, cur, inTx>>

\* sendError, NBD_EIO
SendEIO(k) ==
    /\ wpc[k] = "eio" /\ lock = "nobody"
    /\ Deliver(<<Header(k, "EIO")>>)
    /\ Finish(k)
    /\ UNCHANGED cancelled \/ (MayFail /\ cancelled' = TRUE)
    /\ UNCHANGED <<inbound, sent, link, soft, readerVars, mainVars, cur>>

\* A wrong transaction: the mutex is held for the header only.
BeginUnlocked(k) ==
    /\ wpc[k] = "begin" /\ lock = "nobody"
    /\ Deliver(<<Header(k, "OK")>>)
    /\ wpc' = [wpc EXCEPT ![k] = "send"]
    /\ inTx' = inTx \union {k}
    /\ UNCHANGED <<inbound, sent, link, soft, cancelled, readerVars, mainVars, lock, cur,
                   got, ioErrors>>

\* Take the mutex for the rest of the reply, and send the header.
Begin(k) ==
    /\ wpc[k] = "begin" /\ lock = "nobody"
    /\ Deliver(<<Header(k, "OK")>>)
    /\ \/ /\ wpc' = [wpc EXCEPT ![k] = "send"]
          /\ lock' = k /\ inTx' = inTx \union {k}
          /\ UNCHANGED <<cancelled, got, ioErrors>>
       \/ MayFail /\ Finish(k) /\ cancelled' = TRUE
    /\ UNCHANGED <<inbound, sent, link, soft, readerVars, mainVars, cur>>

\* cur += n and send; the worker returns after the last block or an error.
SendData(k) ==
    /\ wpc[k] = "send"
    /\ cur' = [cur EXCEPT ![k] = @ + got[k].n]
    /\ Deliver([i \in 1..got[k].n |-> Block(k, cur[k] + i - 1, got[k].bogus)])
    /\ \/ /\ cur[k] + got[k].n < LenOf[k]
          /\ wpc' = [wpc EXCEPT ![k] = "read"]
          /\ got' = [got EXCEPT ![k] = Nothing]
          /\ UNCHANGED <<cancelled, lock, inTx, ioErrors>>
       \/ cur[k] + got[k].n >= LenOf[k] /\ Finish(k) /\ UNCHANGED cancelled
       \/ MayFail /\ Finish(k) /\ cancelled' = TRUE
    /\ UNCHANGED <<inbound, sent, link, soft, readerVars, mainVars>>

-----------------------------------------------------------------------------
Client == (\E k \in Cookies : \E type \in Offered[k] : ClientSend(k, type)) \/ ClientHangUp

Receiver == Receive \/ ReceiveFail \/ ReceiverStop

Main ==
    \/ MainStop
    \/ \E c \in rcmd : TakeGarbage(c) \/ TakeRead(c) \/ TakeDisc(c) \/ TakeOther(c)
    \/ Discard \/ DiscardFail
    \/ \E k \in Cookies : Reject(k)
    \/ MainEnd

Locked(k) == Begin(k) \/ SendEIO(k)

Worker(k) ==
    \/ \E n \in 1..BufferSize, failed \in BOOLEAN : ReadSome(k, n, failed)
    \/ ReadNothing(k) \/ ReadNothingInTx(k)
    \/ Locked(k)
    \/ SendData(k)

Next == Client \/ SoftShutdown \/ Receiver \/ Main \/ \E k \in Cookies : Worker(k)

Spec == Init /\ [][Next]_vars

\* What goes to the client: the steps that send waits for it in, as there is
\* no write deadline.
Sending(k) == Reject(k) \/ Locked(k) \/ SendData(k)

\* Goroutines run, the backend answers in the end, and send returns once the
\* client has hung up.
Fairness ==
    /\ WF_vars(Receiver) /\ WF_vars(Main /\ mpc # "reject")
    /\ \A k \in Cookies : /\ WF_vars(Worker(k) /\ wpc[k] = "read")
                          /\ WF_vars(Sending(k) /\ link = "down")

\* The client reads what it is sent: every send returns.
ClientReads == \A k \in Cookies : WF_vars(Sending(k))

FairSpec == Spec /\ Fairness

-----------------------------------------------------------------------------
(* Properties *)

\* Replies do not mix: after a header that promises data come the blocks of
\* that very read, all of them, in order, before anything else; and no block
\* comes without its header.  No command gets two replies: a read that has
\* failed is not answered once more, nor is one refused whose data is sent.
RepliesWhole ==
    /\ \A i, j \in 1..Len(out) :
          i # j /\ out[i].is = "header" /\ out[j].is = "header"
              => out[i].cookie # out[j].cookie
    /\ \A i \in 1..Len(out) :
          LET k == out[i].cookie
          IN  /\ out[i].is = "header" /\ out[i].error = "OK" =>
                    \A d \in 1..LenOf[k] : i + d <= Len(out) =>
                        /\ out[i + d].is = "block" /\ out[i + d].cookie = k
                        /\ out[i + d].at = d - 1
              /\ out[i].is = "block" =>
                    /\ out[i].at + 1 < i
                    /\ out[i - out[i].at - 1] = Header(k, "OK")

\* The whole reply to k is out.
Answered(k) ==
    \E i \in 1..Len(out) :
        /\ out[i].cookie = k
        /\ \/ out[i].is = "header" /\ out[i].error # "OK"
           \/ out[i].is = "block" /\ out[i].at = LenOf[k] - 1

Writes == \E k \in Cookies : sent[k] = "WRITE"

\* A client that stays and reads, and does not write, gets an answer to every
\* command, and a whole one, in spite of reads that fail for ever half way;
\* until the server is shut down or the client says goodbye.  A read that was
\* begun is answered even then: transmission waits for its workers.
CommandsAnswered ==
    ClientReads =>
        \A k \in Cookies :
            /\ (sent[k] \notin {"no", "DISC"}) ~>
                   (Answered(k) \/ link = "down" \/ cancelled \/ Writes)
            /\ (wpc[k] = "read") ~> (Answered(k) \/ link = "down")

\* When the client has hung up every goroutine of the connection ends: none
\* waits for the mutex, the channel or a command, whether the client had read
\* its replies or not.  When the server shuts down they end if the client reads
\* and has not written; one that stops reading keeps a worker in send, and
\* request.Wait (proto_transmit.go:15) with it.
ConnectionEnds ==
    /\ (link = "down") ~> (mpc = "ended" /\ rpc = "ended")
    /\ ClientReads =>
          (soft ~> ((mpc = "ended" /\ rpc = "ended") \/ (Writes /\ link = "up")))
=============================================================================
