------------------------------- MODULE Secrets ------------------------------
(***************************************************************************)
(* The secrets store as a whole: secretctl, the repository, secretd and    *)
(* its connection to ssh-agent, while time passes.                         *)
(*                                                                         *)
(* What happens often is bounded by a load, chosen at the start: commands, *)
(* units of time, deaths of ssh-agent, starts of secretd, and which        *)
(* clients use which connections.                                          *)
(***************************************************************************)
EXTENDS Secretd

CONSTANTS
    Repos,  \* repositories to start with: [made, certs, values, grounds]
    Loads   \* bounds: [commands, ticks, deaths, starts, conns, clients]

\* Repositories that secretctl can have left behind.
ASSUME ReposAssumption ==
    \A r \in Repos :
        /\ Marks \subseteq r.made => r.made = Files
        /\ \A g \in r.grounds : Grounded(g)
        /\ IsFiniteSet(r.certs)
        /\ \A f \in r.certs : f.number \in Nat /\ f.cert.paths \in PathLists
        /\ r.values \in [Locations -> Data \union {None, Torn}]

VARIABLE load  \* what is left of it

vars == <<now, repoVars, agentVars, daemonVars, load>>

SecretsInit ==
    /\ now = 0
    /\ \E r \in Repos :
           /\ made = r.made /\ certs = r.certs
           /\ values = r.values /\ grounds = r.grounds
    /\ cli = None
    /\ agentUp = TRUE /\ link = "none"
    /\ call = [p \in Signers |-> "idle"] /\ excused = {}
    /\ main = "down" /\ stopping = FALSE /\ acl = {}
    /\ renewer = "off" /\ hostExpires = None /\ failing = FALSE
    /\ conn = [c \in Conns |-> Closed]
    /\ load \in Loads

Spend(what) == load[what] > 0 /\ load' = [load EXCEPT ![what] = @ - 1]

Command ==
    /\ Spend("commands")
    /\ \/ InitCmd
       \/ \E r \in Requests : CertAdminCmd(r) \/ CertUserCmd(r)
       \/ \E at \in Locations, d \in Data : SetCmd(at, d)
       \/ \E f \in certs : Revoke(f)
    /\ UNCHANGED <<agentVars, daemonVars>>

CliStep ==
    /\ CreateStep \/ FillFile \/ CliDies
    /\ UNCHANGED <<agentVars, daemonVars, load>>

\* A unit of time is long: renewHostCert does not sleep through its alarm,
\* and is done with a renewal unless it fails; so is Run with a shutdown.
Tick ==
    /\ Spend("ticks")
    /\ renewer \notin {"sign", "lock"} /\ ~stopping
    /\ renewer = "sleep" => now < RenewTime
    /\ now' = now + 1
    /\ UNCHANGED <<repoVars, agentVars, daemonVars>>

AgentFails == AgentDies /\ Spend("deaths") /\ UNCHANGED <<now, repoVars, daemonVars>>
AgentHeals == AgentReturns /\ UNCHANGED <<now, repoVars, daemonVars, load>>

Signing(p) == SignStep(p) /\ UNCHANGED <<now, repoVars, daemonVars, load>>
Renewing == RenewStep /\ UNCHANGED load
Handling(c) == ConnStep(c, load.clients) /\ UNCHANGED load
Accepting == \E c \in Conns : c \in load.conns /\ Accept(c)
Main == (Loop \/ AcceptTimeout \/ Accepting \/ Exit) /\ UNCHANGED load
Starting == Start /\ Spend("starts")
Stopping == Signal /\ UNCHANGED load

SecretsNext ==
    \/ Command \/ CliStep
    \/ Tick
    \/ AgentFails \/ AgentHeals
    \/ \E p \in Signers : Signing(p)
    \/ Starting \/ Stopping \/ Main
    \/ Renewing
    \/ \E c \in Conns : Handling(c)

\* The goroutines of secretd run, deadlines strike, and ssh-agent answers.
Fairness ==
    /\ WF_main(Main)
    /\ WF_renewer(Renewing)
    /\ \A c \in Conns : WF_conn(Handling(c))
    /\ \A p \in Signers : WF_call(Signing(p))

SecretsSpec == SecretsInit /\ [][SecretsNext]_vars /\ Fairness

-----------------------------------------------------------------------------
(* Properties *)

\* Create writes the master certificate last: a repository that opens is
\* complete, whenever "secretctl init" was killed.
MarkerLast == Opens => made = Files

\* saveCert never writes over a certificate: one that was issued is there
\* until somebody removes it.
CertNeverOverwritten ==
    [][\A f \in certs : f.whole => f \in certs' \/ certs' = certs \ {f}]_vars

\* What secretctl issues, ACL.Load accepts: a user certificate is in force
\* as long as it is valid, and the administrator certificates it was issued
\* under are still there and valid.
IssuedIsAccepted ==
    \A f \in certs : \A g \in grounds :
        ( /\ f.kind = "user" /\ f.whole /\ g[1] = f.cert
          /\ ValidCert(f.cert, now)
          /\ g[2] \subseteq Certs("admin")
          /\ \A a \in g[2] : ValidCert(a, now) )
        => Rows(f.cert) \subseteq Load(Certs("admin"), Certs("user"), now)

\* The name leads to this location from an allowed directory, or its parent.
FoundFrom(at, name, allowed) ==
    \E i \in DOMAIN allowed : \E n \in 0..Len(allowed[i]) :
        n >= Len(allowed[i]) - 1 /\ at = Join(SubSeq(allowed[i], 1, n), name)

\* A secret in a response is one that "secretctl set" saved completely, in
\* the file that its name leads to from a directory the client may read, or
\* from the parent of one - also if the file is written while the query is
\* answered.  For a name of one component that is a file in the directory
\* itself; Search does not confine one of several components to it, which
\* docs/cli_overview.md:35-36 does not provide for.  Every name of the query
\* has a secret or an error: one that fails does not keep the others
\* unanswered.
AnswersGenuine ==
    \A c \in Conns :
        /\ \A s \in conn[c].secrets :
              s.data \in Data /\ FoundFrom(s.at, s.name, conn[c].allowed)
        /\ conn[c].pc = "reply" /\ None \notin conn[c].errors =>
              \A i \in DOMAIN conn[c].query :
                  LET n == conn[c].query[i]
                  IN (n \in conn[c].errors) \/ (\E s \in conn[c].secrets : s.name = n)

\* Search finds the closest of the values that the allowed directories and
\* their parents have, in spite of leaving its loops early.
SearchNearest ==
    \A c \in Conns : conn[c].pc = "search" =>
        LET name == Head(conn[c].todo)
        IN Search(name, conn[c].allowed) = Nearest(name, conn[c].allowed)

\* Clients meet a host certificate that has expired only if ssh-agent failed
\* to sign a new one.
HostCertFresh == hostExpires # None /\ hostExpires <= now => failing

\* A connection that was accepted comes to an end.
ConnectionEnds == \A c \in Conns : (conn[c].pc # "closed") ~> (conn[c].pc = "closed")

\* New connections cannot keep a new host certificate from being installed.
HostCertInstalled == (renewer = "lock") ~> (renewer # "lock")

\* docs/cli_overview.md:34: whoever may read a directory may read the values
\* of all the directories above it.
ParentsReadable ==
    \A c \in Conns : conn[c].pc = "search" =>
        LET name == Head(conn[c].todo)
        IN \A i \in DOMAIN conn[c].allowed, at \in Locations :
               ( /\ name = <<at.name>> /\ values[at] \in Data
                 /\ AtOrAbove(at.dir, conn[c].allowed[i]) )
               => Search(name, conn[c].allowed) # None
=============================================================================
