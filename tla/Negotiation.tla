---------------------------- MODULE Negotiation -----------------------------
(***************************************************************************)
(* nbd/server/proto_negotiate.go: the handshake and the negotiation of a   *)
(* connection, before module Transmission.  The client sends options, each *)
(* of them a header and a payload of the length the header gives; nothing  *)
(* but that length keeps the two sides in step.                            *)
(*                                                                         *)
(* Lengths count units.  The client keeps to the protocol: it may send     *)
(* options before the last one was answered, but waits for the answer to   *)
(* NBD_OPT_GO and sends nothing after NBD_OPT_ABORT.                       *)
(***************************************************************************)
EXTENDS Naturals, Sequences

CONSTANTS OptionLens,  \* lengths of payloads
          NameLen,     \* the shortest payload that holds a name
          OptionBuf,   \* buffer.Size
          DiscardBuf,  \* cap(discardBuf)
          MaxOptions   \* options the client sends

ASSUME NegotiationAssumption ==
    /\ OptionLens \subseteq Nat
    /\ NameLen \in Nat \ {0} /\ NameLen <= OptionBuf
    /\ DiscardBuf \in Nat \ {0} /\ MaxOptions \in Nat

OptionTypes == {"GO", "INFO", "EXPORT_NAME", "ABORT", "OTHER"}

VARIABLES
    wire,     \* what the client has sent and the server has not received
    options,  \* the options it has sent
    unsent,   \* payload of the last one that it has still to send
    replies,  \* what the server has sent
    nlink,    \* "up", or "down" once the client has hung up
    nctx,     \* ctxSoft of the server is done
    npc,      \* "hello", "flags", "option", "discard", "payload", "export",
              \* "info", "ack", "transmission" or "ended"
    option,   \* the number of the option that is being handled
    nleft,    \* payload that discard has still to read
    why       \* what negotiate returned

negVars == <<wire, options, unsent, replies, nlink, nctx, npc, option, nleft, why>>

Item(is, i) == [is |-> is, of |-> i]
Rep(is, i) == [is |-> is, of |-> i]

NegInit ==
    /\ wire = <<>> /\ options = <<>> /\ unsent = 0
    /\ replies = <<>>
    /\ nlink = "up" /\ nctx = FALSE
    /\ npc = "hello" /\ option = 0 /\ nleft = 0 /\ why = "nil"

-----------------------------------------------------------------------------
(* The client and the rest of the server *)

LastOption == options[Len(options)]
Final == {"ACK", "TOO_BIG", "UNKNOWN", "POLICY", "UNSUP", "SHUTDOWN"}
IsAnswered(i) == \E j \in 1..Len(replies) : replies[j].of = i /\ replies[j].is \in Final

NegClient == UNCHANGED <<replies, nctx, npc, option, nleft, why>>

\* The flags of the client are the server's, or others.
ClientFlags(flags) ==
    /\ nlink = "up" /\ npc = "flags" /\ wire = <<>>
    /\ wire' = <<Item(flags, 0)>>
    /\ NegClient /\ UNCHANGED <<options, unsent, nlink>>

ClientOption(type, len) ==
    /\ nlink = "up" /\ unsent = 0 /\ Len(options) < MaxOptions
    /\ npc \notin {"hello", "flags", "transmission"}
    /\ options # <<>> => /\ LastOption.type \notin {"ABORT", "EXPORT_NAME"}
                         /\ LastOption.type = "GO" => IsAnswered(Len(options))
    /\ options' = Append(options, [type |-> type, len |-> len])
    /\ unsent' = len
    /\ wire' = Append(wire, Item("option", Len(options) + 1))
    /\ NegClient /\ UNCHANGED nlink

ClientPayload ==
    /\ nlink = "up" /\ unsent > 0
    /\ wire' = Append(wire, Item("payload", Len(options)))
    /\ unsent' = unsent - 1
    /\ NegClient /\ UNCHANGED <<options, nlink>>

ClientQuits ==
    /\ nlink = "up"
    /\ nlink' = "down"
    /\ NegClient /\ UNCHANGED <<wire, options, unsent>>

ServerStops ==
    /\ ~nctx
    /\ nctx' = TRUE
    /\ UNCHANGED <<wire, options, unsent, replies, nlink, npc, option, nleft, why>>

-----------------------------------------------------------------------------
(* send and receive *)

\* send fails, or reaches nobody, once the client has hung up.
Send(r) == replies' = IF nlink = "up" THEN Append(replies, r) ELSE replies

\* The next n items have arrived; receive fails if they never will.
Arrived(n) == Len(wire) >= n
Never(n) == Len(wire) < n /\ nlink = "down"
Skip(n) == wire' = SubSeq(wire, n + 1, Len(wire))

Move(where) == npc' = where /\ UNCHANGED why
Give(reason) == npc' = "ended" /\ why' = reason
Outside == UNCHANGED <<options, unsent, nlink, nctx>>

\* reply, and then to a step; or negotiate returns the error of reply.
Reply(r, where) ==
    /\ Send(Rep(r, option))
    /\ Move(where) \/ (nlink = "down" /\ Give("send"))

\* reply, and then return the reason.
ReplyAndGive(r, reason) == Send(Rep(r, option)) /\ Give(reason)

-----------------------------------------------------------------------------
(* handshake *)

SendHello ==
    /\ npc = "hello"
    /\ Reply("hello", "flags")
    /\ Outside /\ UNCHANGED <<wire, option, nleft>>

ReceiveFlags ==
    /\ npc = "flags"
    /\ \/ Arrived(1) /\ Skip(1) /\ IF wire[1].is = "same" THEN Move("option") ELSE Give("flags")
       \/ Never(1) /\ Give("receive") /\ UNCHANGED wire
    /\ Outside /\ UNCHANGED <<replies, option, nleft>>

-----------------------------------------------------------------------------
(* negotiate *)

Len0 == options[option'].len
Type0 == options[option'].type

\* An option, by its type and the length of its payload.
Switch ==
    \/ /\ Type0 \in {"GO", "INFO"}
       /\ Move(IF Len0 > OptionBuf \/ Len0 < NameLen THEN "discard" ELSE "payload")
       /\ nleft' = Len0
       /\ UNCHANGED replies
    \/ /\ Type0 = "OTHER"
       /\ Move("discard") /\ nleft' = Len0
       /\ UNCHANGED replies
    \/ /\ Type0 = "EXPORT_NAME"
       /\ Send(Rep("POLICY", option')) /\ Give("policy")
       /\ UNCHANGED nleft
    \/ /\ Type0 = "ABORT"
       /\ Send(Rep("ACK", option')) /\ Give("abort")
       /\ UNCHANGED nleft

\* The top of the loop: receive a header, check its magic number, look at ctx.
ReceiveOption ==
    /\ npc = "option"
    /\ \/ /\ Arrived(1) /\ Skip(1)
          /\ IF wire[1].is # "option"
             THEN Give("magic") /\ UNCHANGED <<replies, option, nleft>>
             ELSE /\ option' = wire[1].of
                  /\ IF nctx
                     THEN Send(Rep("SHUTDOWN", option')) /\ Give("ctx") /\ UNCHANGED nleft
                     ELSE Switch
       \/ Never(1) /\ Give("receive") /\ UNCHANGED <<wire, replies, option, nleft>>
    /\ Outside

Type == options[option].type
Least(a, b) == IF a < b THEN a ELSE b

\* A wrong discard: one Read, of as much as the buffer holds.
DiscardOnce ==
    /\ npc = "discard" /\ nleft > 0 /\ wire # <<>>
    /\ \E n \in 1..Least(Least(nleft, DiscardBuf), Len(wire)) : Skip(n)
    /\ nleft' = 0
    /\ Outside /\ UNCHANGED <<replies, npc, option, why>>

\* One turn of discard's loop: Read gives some of what has arrived.
DiscardSome ==
    /\ npc = "discard" /\ nleft > 0 /\ wire # <<>>
    /\ \E n \in 1..Least(Least(nleft, DiscardBuf), Len(wire)) :
          Skip(n) /\ nleft' = nleft - n
    /\ Outside /\ UNCHANGED <<replies, npc, option, why>>

\* discard is over.  A payload too small for a name is an error of
\* negotiateBackend, whether or not it could be discarded.
DiscardEnd ==
    /\ npc = "discard"
    /\ LET failed == nleft > 0 /\ Never(1)
       IN  \/ /\ nleft = 0 /\ Type = "OTHER"
              /\ Reply("UNSUP", "option")
           \/ /\ nleft = 0 /\ Type # "OTHER" /\ options[option].len > OptionBuf
              /\ Reply("TOO_BIG", "option")
           \/ /\ nleft = 0 \/ failed
              /\ Type # "OTHER" /\ options[option].len < NameLen
              /\ ReplyAndGive("UNKNOWN", "payload")
           \/ /\ failed /\ (Type = "OTHER" \/ options[option].len > OptionBuf)
              /\ Give("receive") /\ UNCHANGED replies
    /\ nleft' = 0
    /\ Outside /\ UNCHANGED <<wire, option>>

\* negotiateBackend: the whole payload, or the error.
ReceivePayload ==
    /\ npc = "payload"
    /\ \/ Arrived(nleft) /\ Skip(nleft) /\ Move("export") /\ UNCHANGED replies
       \/ Never(nleft) /\ ReplyAndGive("UNKNOWN", "payload") /\ UNCHANGED wire
    /\ nleft' = 0
    /\ Outside /\ UNCHANGED option

\* export returns a backend ...
NegExportDone ==
    /\ npc = "export"
    /\ Move("info")
    /\ Outside /\ UNCHANGED <<wire, replies, option, nleft>>

\* ... or an error.
NegExportFail ==
    /\ npc = "export"
    /\ ReplyAndGive("UNKNOWN", "export")
    /\ Outside /\ UNCHANGED <<wire, option, nleft>>

ReplyInfo ==
    /\ npc = "info"
    /\ Reply("INFO", "ack")
    /\ Outside /\ UNCHANGED <<wire, option, nleft>>

\* NBD_OPT_GO ends the negotiation, NBD_OPT_INFO does not.
ReplyAck ==
    /\ npc = "ack"
    /\ Reply("ACK", IF Type = "GO" THEN "transmission" ELSE "option")
    /\ Outside /\ UNCHANGED <<wire, option, nleft>>

-----------------------------------------------------------------------------
NegotiationClient ==
    \/ \E flags \in {"same", "other"} : ClientFlags(flags)
    \/ \E type \in OptionTypes, len \in OptionLens : ClientOption(type, len)
    \/ ClientPayload \/ ClientQuits

Negotiate ==
    \/ SendHello \/ ReceiveFlags \/ ReceiveOption
    \/ DiscardSome \/ DiscardEnd
    \/ ReceivePayload \/ NegExportDone \/ NegExportFail
    \/ ReplyInfo \/ ReplyAck

NegNext == NegotiationClient \/ ServerStops \/ Negotiate

NegSpec == NegInit /\ [][NegNext]_negVars

-----------------------------------------------------------------------------
(* Properties *)

\* The two sides stay in step, whatever was discarded or refused: no payload
\* is taken for a header (the magic number of negotiate, line 115), options
\* are answered in the order they were sent, each of them once, with
\* NBD_REP_INFO only before its NBD_REP_ACK; and transmission begins after
\* the acknowledged NBD_OPT_GO and all of its payload.
NegotiationInStep ==
    /\ why # "magic"
    /\ \A i, j \in 1..Len(replies) : i < j =>
          \/ replies[i].of < replies[j].of
          \/ /\ replies[i].of = replies[j].of
             /\ replies[i].is = "INFO" /\ replies[j].is = "ACK"
    /\ \A j \in 1..Len(replies) : \A i \in 1..(replies[j].of - 1) : IsAnswered(i)
    /\ npc = "transmission" =>
          /\ LastOption.type = "GO" /\ option = Len(options)
          /\ nlink = "up" => replies[Len(replies)] = Rep("ACK", option)
          /\ wire = <<>> /\ unsent = 0
=============================================================================
