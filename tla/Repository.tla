----------------------------- MODULE Repository -----------------------------
(***************************************************************************)
(* secrets/repo and secrets/value: the directory that holds certificates   *)
(* and encrypted values, and secretctl, the command that changes it.       *)
(*                                                                         *)
(* Files are written by os.WriteFile, which empties a file and then fills  *)
(* it; a command that is killed, or meets a full disk, leaves the file     *)
(* torn.  A torn certificate does not parse, and the signature of a torn   *)
(* value does not hold.  Commands on a repository run one after another.   *)
(***************************************************************************)
EXTENDS Access, RepoSearch, FiniteSetsExt

CONSTANTS
    Requests,   \* what "secretctl cert" is asked for: a name, the key of the
                \* recipient, capabilities, paths and a lifetime
    Data,       \* what values may be
    Identities, \* the keys ssh-agent has for secretctl
    Begins,     \* <<longer, shorter>>: names that begin with another name, and
                \* whose files come after those of the other
    Torn        \* what a file holds that was not filled

ASSUME RequestsAssumption == \A r \in Requests : r.paths \in PathLists

VARIABLES
    now,     \* the time, in units of certificate lifetimes
    made,    \* the parts of the repository that exist
    certs,   \* certificate files: [kind, name, number, cert, whole]
    cli,     \* the command that is running: the file it has to fill, or None
    grounds  \* ghost: <<user certificate, administrator certificates in
             \* force when it was issued>>

repo == <<made, certs, values>>
repoVars == <<repo, cli, grounds>>

Files == {"access", "secrets", "access/user", "access/admin", "master.pub",
          "master.cert", "master.cert filled"}

\* A wrong order: the file that findRoot looks for comes before directories
\* that it does not look for.
MarkerEarly == <<"access", "secrets", "master.pub", "master.cert",
                 "master.cert filled", "access/user", "access/admin">>

\* Create makes these one by one.
CreateOrder == <<"access", "secrets", "access/user", "access/admin",
                 "master.pub", "master.cert", "master.cert filled">>

\* findRoot, and the master certificate parses.
Marks == {"access", "secrets", "master.cert", "master.cert filled"}
Opens == Marks \subseteq made

\* listCerts, and LoadCertificate of each.
Certs(kind) == {f.cert : f \in {g \in certs : g.kind = kind /\ g.whole}}

Idle == cli = None

\* secretctl init: checkRepoEmpty, then Create makes its first part ...
InitCmd ==
    /\ Idle /\ made = {}
    /\ made' = {CreateOrder[1]}
    /\ cli' = [file |-> "create", step |-> 2]
    /\ UNCHANGED <<now, certs, values, grounds>>

\* ... and then the others.
CreateStep ==
    /\ ~Idle /\ cli.file = "create"
    /\ made' = made \union {CreateOrder[cli.step]}
    /\ cli' = IF cli.step = Len(CreateOrder)
              THEN None ELSE [file |-> "create", step |-> cli.step + 1]
    /\ UNCHANGED <<now, certs, values, grounds>>

\* A wrong saveCert: the number after the last one is taken to be free.
NextSuffix(kind, name) ==
    LET same == {f \in certs : f.kind = kind /\ f.name = name}
        longer == {f \in certs : f.kind = kind /\ <<f.name, name>> \in Begins}
    IN IF same = {} \/ longer # {} THEN 1 ELSE Max({f.number : f \in same}) + 1

\* saveCert: the number in the name of a new certificate file.  The last
\* file that matches name* counts; if that is one of a longer name it does
\* not parse, and the search starts from 1.  (Files sort by number as long as
\* it has two digits, base 36.)
FreeSuffix(kind, name) ==
    LET same == {f \in certs : f.kind = kind /\ f.name = name}
        longer == {f \in certs : f.kind = kind /\ <<f.name, name>> \in Begins}
        numbers == {f.number : f \in same}
        last == IF same = {} \/ longer # {} THEN 0 ELSE Max(numbers)
    IN Min((last + 1 .. last + 1 + Cardinality(numbers)) \ numbers)

Named(kind, name, number) ==
    {f \in certs : f.kind = kind /\ f.name = name /\ f.number = number}

\* Save writes a certificate: the file is empty at first.
SaveCert(kind, cert) ==
    LET number == FreeSuffix(kind, cert.name)
        file == [kind |-> kind, name |-> cert.name, number |-> number,
                 cert |-> cert, whole |-> FALSE]
    IN /\ ValidCert(cert, now)
       /\ certs' = (certs \ Named(kind, cert.name, number)) \union {file}
       /\ cli' = [file |-> "cert", cert |-> file]

\* secretctl cert --admin: the master key signs.
CertAdminCmd(request) ==
    /\ Idle /\ Opens
    /\ request.caps # {} /\ request.caps \subseteq Admin
    /\ Master \in Identities
    /\ SaveCert("admin", Signed(request, Master, now))
    /\ UNCHANGED <<now, made, values, grounds>>

\* A wrong FindAgent: it looks at the first path only.
FindAgentFirst(acl, caps, paths) ==
    {id \in Identities : CheckAll(acl, id, caps, SubSeq(paths, 1, 1), now)}

\* ACL.FindAgent: the identities with all the rights required; which one is
\* first in ssh-agent is open.
FindAgent(acl, caps, paths) ==
    {id \in Identities : CheckAll(acl, id, caps, paths, now)}

\* secretctl cert --user: the first identity of ssh-agent that has the
\* right to delegate all of it signs.
CertUserCmd(request) ==
    /\ Idle /\ Opens
    /\ request.caps # {} /\ request.caps \subseteq User
    /\ LET admins == LoadCerts({}, Certs("admin"), Admin, now)
       IN \E id \in FindAgent(admins, request.caps, request.paths) :
              /\ SaveCert("user", Signed(request, id, now))
              /\ grounds' = grounds \union
                     {<<Signed(request, id, now), {c \in Certs("admin") : ValidCert(c, now)}>>}
    /\ UNCHANGED <<now, made, values>>

\* secretctl set: FindAgent asks for the right to delegate writing.
SetCmd(at, data) ==
    /\ Idle /\ Opens
    /\ LET acl == Load(Certs("admin"), Certs("user"), now)
       IN FindAgent(acl, {"w"}, <<at.dir>>) # {}
    /\ values' = [values EXCEPT ![at] = Torn]
    /\ cli' = [file |-> "value", at |-> at, data |-> data]
    /\ UNCHANGED <<now, made, certs, grounds>>

\* The file of the command is filled, and the command ends.
FillFile ==
    /\ ~Idle
    /\ \/ /\ cli.file = "cert"
          /\ certs' = (certs \ {cli.cert}) \union
                          {[cli.cert EXCEPT !.whole = TRUE]}
          /\ UNCHANGED values
       \/ /\ cli.file = "value"
          /\ values' = [values EXCEPT ![cli.at] = cli.data]
          /\ UNCHANGED certs
    /\ cli' = None
    /\ UNCHANGED <<now, made, grounds>>

\* The command dies, or the disk is full.
CliDies ==
    /\ ~Idle
    /\ cli' = None
    /\ UNCHANGED <<now, repo, grounds>>

\* Someone removes a certificate file: this is how one is revoked.
Revoke(f) ==
    /\ Idle
    /\ certs' = certs \ {f}
    /\ UNCHANGED <<now, made, values, cli, grounds>>

\* What a user certificate was issued under is enough for it.
Grounded(g) ==
    LET cert == g[1]
    IN /\ cert.caps \subseteq User
       /\ CheckAll(LoadCerts({}, g[2], Admin, cert.after), cert.signer,
                   cert.caps, cert.paths, cert.after)
=============================================================================
