------------------------------ MODULE Secretd -------------------------------
(***************************************************************************)
(* secrets/server: secretd answers queries for secrets over SSH.           *)
(*                                                                         *)
(* One goroutine accepts connections, one renews the host certificate, and *)
(* each connection has one of its own.  sshMu is held shared during a      *)
(* handshake and exclusively when the host certificate is replaced; a      *)
(* writer that waits keeps new readers out.  The access control list is    *)
(* loaded once; values are read from the repository for each query.        *)
(***************************************************************************)
EXTENDS Repository, Agent

CONSTANTS
    Conns,       \* connections at a time
    Queries,     \* what clients ask for: sequences of names
    Renewer,     \* the goroutine of renewHostCert, as a signer
    HostLife,    \* hostCertLifetime
    RenewBefore  \* hostCertRenewThreshold

ASSUME HostAssumption ==
    HostLife \in Nat /\ RenewBefore \in 1..HostLife - 1

\* Queries that are empty are refused.
ASSUME QueriesAssumption == \A q \in Queries : q \in Seq(Names) /\ q # <<>>

VARIABLES
    main,        \* Run: "down", "check" (the context), "accept", "closed"
    stopping,    \* the context is cancelled
    acl,         \* the table of the access control list
    renewer,     \* renewHostCert: "off", "sign", "retry", "lock", "sleep"
    hostExpires, \* when the host certificate expires; None before the first
    failing,     \* ghost: the last attempt to renew it failed
    conn         \* connections

serverVars == <<main, stopping, acl, renewer, hostExpires, failing>>
daemonVars == <<serverVars, conn>>

\* A connection: where its handler is, the key of the client, the names it
\* still has to look up and the whole query, the paths it may read, the file
\* Search found, the secrets found so far, and the names that failed.
Closed == [pc |-> "closed", key |-> None, todo |-> <<>>, query |-> <<>>,
           allowed |-> <<>>, found |-> None, secrets |-> {}, errors |-> {}]

Up == main \in {"check", "accept"}

\* New, and the start of Run: the goroutine of renewHostCert starts before
\* connections are accepted, but its first certificate may come later.
Start ==
    /\ main = "down" /\ Opens
    /\ Connected
    /\ acl' = Load(Certs("admin"), Certs("user"), now)
    /\ main' = "check"
    /\ stopping' = FALSE
    /\ renewer' = "sign"
    /\ hostExpires' = None /\ failing' = FALSE
    /\ call' = [p \in Signers |-> IF p = Renewer THEN "first" ELSE "idle"]
    /\ excused' = {}
    /\ UNCHANGED <<agentUp, conn, now, repoVars>>

\* SIGINT or SIGTERM.
Signal ==
    /\ Up /\ ~stopping
    /\ stopping' = TRUE
    /\ UNCHANGED <<main, acl, renewer, hostExpires, failing, conn, agentVars, now, repoVars>>

\* The loop of Run looks at the context; when it returns the list is closed.
Loop ==
    /\ main = "check"
    /\ IF stopping
       THEN main' = "closed" /\ acl' = {}
       ELSE main' = "accept" /\ UNCHANGED acl
    /\ UNCHANGED <<stopping, renewer, hostExpires, failing, conn, agentVars, now, repoVars>>

AcceptTimeout ==
    /\ main = "accept"
    /\ main' = "check"
    /\ UNCHANGED <<stopping, acl, renewer, hostExpires, failing, conn, agentVars, now, repoVars>>

Accept(c) ==
    /\ main = "accept" /\ conn[c].pc = "closed"
    /\ main' = "check"
    /\ conn' = [conn EXCEPT ![c].pc = "accepted"]
    /\ UNCHANGED <<stopping, acl, renewer, hostExpires, failing, agentVars, now, repoVars>>

\* main returns: the process ends, and its goroutines with it.
Exit ==
    /\ main = "closed"
    /\ main' = "down"
    /\ conn' = [c \in Conns |-> Closed]
    /\ renewer' = "off"
    /\ link' = "none"
    /\ call' = [p \in Signers |-> "idle"]
    /\ excused' = {}
    /\ hostExpires' = None /\ failing' = FALSE
    /\ stopping' = FALSE
    /\ UNCHANGED <<acl, agentUp, now, repoVars>>

-----------------------------------------------------------------------------
(* renewHostCert *)

\* ephemeralHostCert signed, or failed to.
HostCertSigned ==
    /\ renewer = "sign"
    /\ \/ /\ call[Renewer] = "ok"
          /\ renewer' = "lock" /\ UNCHANGED failing
       \/ /\ call[Renewer] = "error"
          /\ renewer' = "retry" /\ failing' = TRUE
    /\ UNCHANGED <<main, stopping, acl, hostExpires, conn, agentVars, now, repoVars>>

\* sshMu.Lock, AddHostKey, sshMu.Unlock.
AddHostKey ==
    /\ renewer = "lock"
    /\ \A c \in Conns : conn[c].pc # "handshake"
    /\ hostExpires' = now + HostLife
    /\ failing' = FALSE
    /\ renewer' = "sleep"
    /\ UNCHANGED <<main, stopping, acl, conn, agentVars, now, repoVars>>

\* A wrong time to wake up: when the certificate has expired.
RenewLate == hostExpires

RenewTime == hostExpires - RenewBefore

\* Five seconds after a failure, or in time before the certificate expires.
RenewAgain ==
    /\ \/ renewer = "retry"
       \/ renewer = "sleep" /\ now >= RenewTime
    /\ renewer' = "sign"
    /\ Sign(Renewer)
    /\ UNCHANGED <<main, stopping, acl, hostExpires, failing, conn, now, repoVars>>

RenewerStops ==
    /\ stopping /\ renewer \in {"retry", "sleep"}
    /\ renewer' = "off"
    /\ UNCHANGED <<main, stopping, acl, hostExpires, failing, conn, agentVars, now, repoVars>>

RenewStep == HostCertSigned \/ AddHostKey \/ RenewAgain \/ RenewerStops

-----------------------------------------------------------------------------
(* handleTCP, handleSSH, handleAPI *)

Become(c, state) ==
    /\ conn' = [conn EXCEPT ![c] = state]
    /\ UNCHANGED <<serverVars, now, repoVars>>

Goto(c, pc) == Become(c, [conn[c] EXCEPT !.pc = pc]) /\ UNCHANGED agentVars

\* A wrong lock: readers do not wait for a writer that waits.
HandshakeAnyway(c) ==
    /\ conn[c].pc = "accepted"
    /\ Goto(c, "handshake")

\* sshMu.RLock
Handshake(c) ==
    /\ conn[c].pc = "accepted"
    /\ renewer # "lock"
    /\ Goto(c, "handshake")

\* ssh.NewServerConn: the client needs a host key to talk to, and its key
\* must be allowed to read something.
Authenticate(c, key) ==
    /\ conn[c].pc = "handshake"
    /\ hostExpires # None
    /\ Check(acl, key, "r", <<>>, now)
    /\ Become(c, [conn[c] EXCEPT !.pc = "session", !.key = key])
    /\ UNCHANGED agentVars

\* The first channel, if it is a session.
OpenSession(c) == conn[c].pc = "session" /\ Goto(c, "request")

\* Queries that do not parse, are empty or do not arrive in time.
BadRequest(c) ==
    /\ conn[c].pc = "request"
    /\ Become(c, [conn[c] EXCEPT !.pc = "reply", !.errors = {None}])
    /\ UNCHANGED agentVars

\* handleAPI reads the query, and the paths that the key may read now.
Request(c, query) ==
    /\ conn[c].pc = "request"
    /\ \E allowed \in AllowedRead(acl, conn[c].key, now) :
           Become(c, [conn[c] EXCEPT !.pc = "search", !.todo = query,
                                     !.query = query, !.allowed = allowed])
    /\ UNCHANGED agentVars

\* The name at hand is dealt with: the next one, or the reply.
Advance(state) ==
    [state EXCEPT !.todo = Tail(@), !.found = None,
                  !.pc = IF Len(state.todo) = 1 THEN "reply" ELSE "search"]

Fail(state) ==
    [Advance(state) EXCEPT !.errors = @ \union {Head(state.todo)}]

SearchName(c) ==
    /\ conn[c].pc = "search"
    /\ LET found == Search(Head(conn[c].todo), conn[c].allowed)
       IN Become(c, IF found = None
                    THEN Fail(conn[c])
                    ELSE [conn[c] EXCEPT !.pc = "load", !.found = found])
    /\ UNCHANGED agentVars

\* A wrong Load: the signature of the value is not verified.
LoadUnverified(c) ==
    /\ conn[c].pc = "load"
    /\ Become(c, [conn[c] EXCEPT !.pc = "decrypt",
                      !.found = [name |-> Head(conn[c].todo), at |-> @,
                                 data |-> values[conn[c].found]]])
    /\ Sign(c)

\* value.Load reads the file that Search found, and verifies it; Decrypt
\* asks ssh-agent for the signature that the key is derived from.
LoadValue(c) ==
    /\ conn[c].pc = "load"
    /\ LET data == values[conn[c].found]
       IN IF data \in {None, Torn}
          THEN Become(c, Fail(conn[c])) /\ UNCHANGED agentVars
          ELSE /\ Become(c, [conn[c] EXCEPT !.pc = "decrypt",
                                 !.found = [name |-> Head(conn[c].todo), at |-> @,
                                            data |-> data]])
               /\ Sign(c)

\* The response has one secret for each name that was asked for.
Decrypt(c) ==
    /\ conn[c].pc = "decrypt"
    /\ \/ /\ call[c] = "ok"
          /\ Become(c, [Advance(conn[c]) EXCEPT
                            !.secrets = {s \in @ : s.name # conn[c].found.name}
                                            \union {conn[c].found}])
       \/ /\ call[c] = "error"
          /\ Become(c, Fail(conn[c]))
    /\ UNCHANGED agentVars

\* The response is sent, or the client does not take it.
Reply(c) == conn[c].pc = "reply" /\ Goto(c, "closing")

\* A wrong end: without closeTimeout the client may hold the connection.
HangupPolite(c) ==
    /\ conn[c].pc \in {"handshake", "session"}
    /\ Become(c, Closed)
    /\ UNCHANGED agentVars

\* The handshake fails or times out, the client opens no channel, or one of
\* another type, or the connection ends after the reply.
Hangup(c) ==
    /\ conn[c].pc \in {"handshake", "session", "closing"}
    /\ Become(c, Closed)
    /\ UNCHANGED agentVars

ConnStep(c, clients) ==
    \/ Handshake(c)
    \/ \E key \in clients : Authenticate(c, key)
    \/ OpenSession(c)
    \/ BadRequest(c)
    \/ \E query \in Queries : Request(c, query)
    \/ SearchName(c) \/ LoadValue(c) \/ Decrypt(c)
    \/ Reply(c) \/ Hangup(c)
=============================================================================
