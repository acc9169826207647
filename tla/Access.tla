------------------------------- MODULE Access -------------------------------
(***************************************************************************)
(* secrets/access: certificates, who may issue them, and the access        *)
(* control list that is loaded from them.                                  *)
(*                                                                         *)
(* A path is the sequence of its components, so "/" is <<>>, and a path    *)
(* with and without its last "/" is the same.  A key stands for itself and *)
(* its fingerprint, a capability for its short form.  The table of the     *)
(* list is a set of rows; the functions of this module are its queries.    *)
(***************************************************************************)
EXTENDS Naturals, Sequences, FiniteSets, Functions

CONSTANT Master  \* the master key

Admin == {"rA", "wA"}  \* ManageReaders, ManageWriters
User == {"r", "w"}     \* Read, Write
Required == [c \in User |-> IF c = "r" THEN "rA" ELSE "wA"]

\* Certificate.Admin: the first capability, in any order, tells.
IsAdmin(cert) == cert.caps \cap Admin # {}

\* Certificate.Sign: the validity starts now.
Signed(request, signer, now) ==
    [name |-> request.name, key |-> request.key, caps |-> request.caps,
     paths |-> request.paths, signer |-> signer,
     after |-> now, before |-> now + request.life]

\* Certificate.Validate, ssh.CertChecker included.
ValidCert(cert, now) ==
    /\ cert.key # cert.signer
    /\ cert.paths # <<>>
    /\ cert.caps # {}
    /\ cert.caps \subseteq Admin \/ cert.caps \subseteq User
    /\ cert.after <= now /\ now < cert.before

\* The rows that loadCerts inserts for a certificate.
Rows(cert) ==
    {[key |-> cert.key, cap |-> c, path |-> cert.paths[i], priority |-> i,
      after |-> cert.after, before |-> cert.before] :
        c \in cert.caps, i \in DOMAIN cert.paths}

\* The view ValidACL.
ValidACL(acl, now) == {r \in acl : r.after <= now /\ now < r.before}

\* dir is path, or a directory above it.
AtOrAbove(dir, path) == IsRestriction(dir, path)

\* ACL.Check: a row for dir, or for anything below dir.
Check(acl, key, cap, dir, now) ==
    \E r \in ValidACL(acl, now) :
        r.key = key /\ r.cap = cap /\ AtOrAbove(dir, r.path)

\* The loops of FindAgent and of ACL.Validate over paths and capabilities.
CheckAll(acl, key, caps, paths, now) ==
    \A c \in caps, i \in DOMAIN paths :
        Check(acl, key, Required[c], paths[i], now)

\* ACL.Validate.
ValidIn(acl, cert, now) ==
    IF IsAdmin(cert)
    THEN cert.signer = Master
    ELSE CheckAll(acl, cert.signer, cert.caps, cert.paths, now)

\* loadCerts: certificates that do not hold are only warned about, and what
\* was known of this kind is forgotten.
LoadCerts(acl, certs, kind, now) ==
    LET held == {c \in certs : ValidCert(c, now) /\ ValidIn(acl, c, now)}
    IN {r \in acl : r.cap \notin kind} \union UNION {Rows(c) : c \in held}

\* ACL.Load: user certificates are judged by the administrators just loaded.
Load(admins, users, now) ==
    LoadCerts(LoadCerts({}, admins, Admin, now), users, User, now)

\* ACL.AllowedRead: the distinct paths a key may read.  The newest
\* certificate comes first, then the first path of a certificate.  SQLite
\* places a path that has several rows by any one of them, and leaves the
\* order of equals open.
AllowedRead(acl, key, now) ==
    LET rows == {r \in ValidACL(acl, now) : r.key = key /\ r.cap = "r"}
        paths == {r.path : r \in rows}
        Before(a, b) == \/ a.after > b.after
                        \/ a.after = b.after /\ a.priority <= b.priority
    IN {seq \in Bijection(1..Cardinality(paths), paths) :
            \E row \in [paths -> rows] :
                /\ \A p \in paths : row[p].path = p
                /\ \A i, j \in DOMAIN seq :
                       i < j => Before(row[seq[i]], row[seq[j]])}
=============================================================================
