------------------------------- MODULE Server -------------------------------
(***************************************************************************)
(* nbd/server/server.go: listeners accept connections, a goroutine serves  *)
(* each of them, and Shutdown ends the server: no new connections, wait    *)
(* for the established ones, give up after thirty seconds.                 *)
(*                                                                         *)
(* A connection is in its handshake or negotiation ("talking"), in the     *)
(* export callback ("exporting"), and, once it has a backend, in           *)
(* transmission ("reading").  A client may be silent for ever; only the    *)
(* server's own steps are fair.                                            *)
(***************************************************************************)
EXTENDS Naturals

CONSTANTS Listeners,  \* goroutines in Server.Listen
          Clients     \* connections clients may make

VARIABLES
    lpc,     \* lpc[l]: "bind", "check", "accept" or "ended"
    conn,    \* conn[c]: "none", "accepted" (not counted yet), "talking",
             \* "exporting", "reading" or "closed"
    soft,    \* ctxSoft is done
    strict,  \* ctxStrict is done
    spc,     \* Shutdown: "signals" (not called), "cancel", "wait", "returned"
    timer    \* its goroutine: "none", "running", "fired" or "stopped"

serverVars == <<lpc, conn, soft, strict, spc, timer>>

ServerInit ==
    /\ lpc = [l \in Listeners |-> "bind"]
    /\ conn = [c \in Clients |-> "none"]
    /\ soft = FALSE /\ strict = FALSE
    /\ spc = "signals"
    /\ timer = "none"

\* What s.conn counts.
Counted == {c \in Clients : conn[c] \in {"talking", "exporting", "reading"}}
SoftDone == soft \/ strict

-----------------------------------------------------------------------------
(* Listen *)

\* The address can be had, or not.
Bind(l) ==
    /\ lpc[l] = "bind"
    /\ lpc' = [lpc EXCEPT ![l] = "check"] \/ lpc' = [lpc EXCEPT ![l] = "ended"]
    /\ UNCHANGED <<conn, soft, strict, spc, timer>>

\* The top of the loop; SetDeadline does not fail on an open listener.
CheckContext(l) ==
    /\ lpc[l] = "check"
    /\ lpc' = [lpc EXCEPT ![l] = IF SoftDone THEN "ended" ELSE "accept"]
    /\ UNCHANGED <<conn, soft, strict, spc, timer>>

Accept(l, c) ==
    /\ lpc[l] = "accept" /\ conn[c] = "none"
    /\ conn' = [conn EXCEPT ![c] = "accepted"]
    /\ lpc' = [lpc EXCEPT ![l] = "check"]
    /\ UNCHANGED <<soft, strict, spc, timer>>

\* Nobody came within connAcceptTimeout, or accepting failed.
AcceptTimeout(l) ==
    /\ lpc[l] = "accept"
    /\ lpc' = [lpc EXCEPT ![l] = "check"]
    /\ UNCHANGED <<conn, soft, strict, spc, timer>>

-----------------------------------------------------------------------------
(* handleConnection *)

\* s.conn.Add(1), in the new goroutine.
HandleBegin(c) ==
    /\ conn[c] = "accepted"
    /\ conn' = [conn EXCEPT ![c] = "talking"]
    /\ UNCHANGED <<lpc, soft, strict, spc, timer>>

\* handshake or negotiate fails, or the client gives up.
TalkEnd(c) ==
    /\ conn[c] = "talking"
    /\ conn' = [conn EXCEPT ![c] = "closed"]
    /\ UNCHANGED <<lpc, soft, strict, spc, timer>>

\* An option that names an export; negotiate looks at ctx before it calls
\* export, and not again.
TalkExport(c) ==
    /\ conn[c] = "talking" /\ ~SoftDone
    /\ conn' = [conn EXCEPT ![c] = "exporting"]
    /\ UNCHANGED <<lpc, soft, strict, spc, timer>>

\* export has returned a backend: NBD_OPT_GO goes on to transmission,
\* NBD_OPT_INFO back to the next option, unless the replies cannot be sent.
ExportDone(c) ==
    /\ conn[c] = "exporting"
    /\ \E phase \in {"reading", "talking", "closed"} : conn' = [conn EXCEPT ![c] = phase]
    /\ UNCHANGED <<lpc, soft, strict, spc, timer>>

\* export has failed.
ExportFail(c) ==
    /\ conn[c] = "exporting"
    /\ conn' = [conn EXCEPT ![c] = "closed"]
    /\ UNCHANGED <<lpc, soft, strict, spc, timer>>

\* transmission returns (module Transmission): the client is gone, or ctx is
\* done and the reads in progress have been answered.
ClientGone(c) ==
    /\ conn[c] = "reading"
    /\ conn' = [conn EXCEPT ![c] = "closed"]
    /\ UNCHANGED <<lpc, soft, strict, spc, timer>>

-----------------------------------------------------------------------------
(* ListenShutdown and Shutdown *)

\* SIGINT or SIGTERM.
Signal ==
    /\ spc = "signals" /\ ~strict
    /\ spc' = "cancel"
    /\ timer' = "running"
    /\ UNCHANGED <<lpc, conn, soft, strict>>

CancelSoft ==
    /\ spc = "cancel"
    /\ soft' = TRUE
    /\ spc' = "wait"
    /\ UNCHANGED <<lpc, conn, strict, timer>>

\* s.conn.Wait(); s.cancelStrict(NBD_ESHUTDOWN)
WaitEnd ==
    /\ spc = "wait" /\ Counted = {}
    /\ strict' = TRUE
    /\ spc' = "returned"
    /\ UNCHANGED <<lpc, conn, soft, timer>>

\* The other goroutine: gracefulShutdownTimeout has passed, or all is over.
TimerFires ==
    /\ timer = "running"
    /\ strict' = TRUE
    /\ timer' = "fired"
    /\ UNCHANGED <<lpc, conn, soft, spc>>

TimerStops ==
    /\ timer = "running" /\ strict
    /\ timer' = "stopped"
    /\ UNCHANGED <<lpc, conn, soft, strict, spc>>

-----------------------------------------------------------------------------
Listening(l) ==
    \/ Bind(l) \/ CheckContext(l) \/ AcceptTimeout(l)
    \/ \E c \in Clients : Accept(l, c)

Shutdown == CancelSoft \/ WaitEnd \/ TimerFires \/ TimerStops

=============================================================================
