------------------------------ MODULE Identity ------------------------------
(***************************************************************************)
(* metal-id: a key pair derived from descriptions of the hardware.  Each   *)
(* data source reads what the kernel lists, in the order in which it lists *)
(* it this time, and hands out its data points in an order of its own; the *)
(* fingerprint is a hash of all data points, in the order they arrive in.  *)
(* The command saves the public key and then the private one.              *)
(*                                                                         *)
(* A hash is the sequence it was fed with, and a key is its fingerprint:   *)
(* they differ whenever the sequences do.  The machine is the same in all  *)
(* runs of the command; what it says of its devices is not, in that their  *)
(* order may change from boot to boot.                                     *)
(***************************************************************************)
EXTENDS Naturals, Sequences, FiniteSets, Functions

CONSTANTS Sources,    \* names of the data sources, as numbers in their order
          Devices,    \* Devices[s]: devices that source s finds
          Point,      \* Point[d]: data point of a device, as a number, 0 if empty
          Short,      \* data points of less than dataPointMinBytes
          MinCount,   \* dataPointMinCount
          Loud,       \* sources that may report an error ("paranoid")
          Runs        \* bound on the runs of the command

ASSUME IdentityAssumption ==
    /\ Sources \subseteq Nat /\ IsFiniteSet(Sources)
    /\ \A s \in Sources :
           /\ IsFiniteSet(Devices[s])
           /\ \A d \in Devices[s] : Point[d] \in Nat
           /\ \A t \in Sources \ {s} : Devices[s] \intersect Devices[t] = {}
    /\ MinCount \in Nat

VARIABLES
    names,     \* names: sources that Fetch has not read to the end
    chunks,    \* chunks[s]: data points of the source
    index,     \* index[s]: the one that Next returns next
    failed,    \* the source has an error to report
    hash,      \* what was fed to the hash function
    count,     \* data points that were long enough
    idpc,      \* the command: "off", "fetch", "public", "publicOpen", "private", "privateOpen"
    runs,      \* how often it was started
    pub, priv  \* the two files, and the key in them

NoFile == [is |-> "none", key |-> <<>>]
Torn == [is |-> "torn", key |-> <<>>]
File(key) == [is |-> "whole", key |-> key]

identityVars == <<names, chunks, index, failed, hash, count, idpc, runs, pub, priv>>
process == <<names, chunks, index, failed, hash, count>>

IdentityInit ==
    /\ names = <<>>
    /\ chunks = [s \in Sources |-> <<>>]
    /\ index = [s \in Sources |-> 1]
    /\ failed = FALSE
    /\ hash = <<>>
    /\ count = 0
    /\ idpc = "off"
    /\ runs = 0
    /\ pub = NoFile /\ priv = NoFile

\* The orders in which the members of a set may be met
Listings(S) == Bijection(1..Cardinality(S), S)

Ascending(q) == \A i, j \in DOMAIN q : i < j => q[i] <= q[j]

\* A wrong sort: everything is left as it was found.
Unsorted(points) == {points}

\* abstractDataSource.sort, and sort.Strings: what a sequence may become.
Sorted(points) ==
    {q \in {[i \in DOMAIN points |-> points[p[i]]] : p \in Bijection(DOMAIN points, DOMAIN points)} :
        Ascending(q)}

\* The command is started: New, then Fetch, which sorts the names of a map.
Run(order) ==
    /\ idpc = "off" /\ runs < Runs
    /\ runs' = runs + 1
    /\ idpc' = "fetch"
    /\ names' \in Sorted(order)
    /\ chunks' = [s \in Sources |-> <<>>]
    /\ index' = [s \in Sources |-> 1]
    /\ failed' = FALSE
    /\ hash' = <<>>
    /\ count' = 0
    /\ UNCHANGED <<pub, priv>>

Source == Head(names)

\* fill: empty points are left out.
Found(devices) == {d \in devices : Point[d] # 0}
Filled(order) == [i \in DOMAIN order |-> Point[order[i]]]

\* Next of a source that has nothing yet: it is filled with its devices, in
\* the order of this boot, and sorted.
Fill(order) ==
    /\ idpc = "fetch" /\ names # <<>>
    /\ chunks[Source] = <<>> /\ ~failed
    /\ Filled(order) # <<>>
    /\ \E sorted \in Sorted(Filled(order)) : chunks' = [chunks EXCEPT ![Source] = sorted]
    /\ UNCHANGED <<names, index, failed, hash, count, idpc, runs, pub, priv>>

\* It finds nothing, and Next returns nil: Fetch goes on to the next source.
FillNothing ==
    /\ idpc = "fetch" /\ names # <<>>
    /\ chunks[Source] = <<>> /\ ~failed
    /\ \A d \in Devices[Source] : Point[d] = 0
    /\ names' = Tail(names)
    /\ UNCHANGED <<chunks, index, failed, hash, count, idpc, runs, pub, priv>>

\* A loud source stops at the first device it cannot learn about.
FillFail(order) ==
    /\ idpc = "fetch" /\ names # <<>>
    /\ Source \in Loud
    /\ chunks[Source] = <<>> /\ ~failed
    /\ \E sorted \in Sorted(Filled(order)) : chunks' = [chunks EXCEPT ![Source] = sorted]
    /\ failed' = TRUE
    /\ UNCHANGED <<names, index, hash, count, idpc, runs, pub, priv>>

\* Fetch returns the error, and the command ends.
FetchFail ==
    /\ idpc = "fetch" /\ failed
    /\ idpc' = "off"
    /\ UNCHANGED <<process, runs, pub, priv>>

\* Next returns a data point, which is written to the hash.
Write ==
    /\ idpc = "fetch" /\ names # <<>> /\ ~failed
    /\ index[Source] \in DOMAIN chunks[Source]
    /\ LET p == chunks[Source][index[Source]]
       IN /\ hash' = Append(hash, p)
          /\ count' = IF p \in Short THEN count ELSE count + 1
    /\ index' = [index EXCEPT ![Source] = @ + 1]
    /\ UNCHANGED <<names, chunks, failed, idpc, runs, pub, priv>>

\* Next returns nil after the last one.
SourceEnd ==
    /\ idpc = "fetch" /\ names # <<>> /\ ~failed
    /\ chunks[Source] # <<>> /\ index[Source] > Len(chunks[Source])
    /\ names' = Tail(names)
    /\ UNCHANGED <<chunks, index, failed, hash, count, idpc, runs, pub, priv>>

\* Key: there have to be enough data points.
Key ==
    /\ idpc = "fetch" /\ names = <<>>
    /\ idpc' = IF count < MinCount THEN "off" ELSE "public"
    /\ UNCHANGED <<process, runs, pub, priv>>

\* os.WriteFile truncates the file and writes it.
TearPublic ==
    /\ idpc = "public"
    /\ pub' = Torn
    /\ idpc' = "publicOpen"
    /\ UNCHANGED <<process, runs, priv>>

SavePublic ==
    /\ idpc = "publicOpen"
    /\ pub' = File(hash)
    /\ idpc' = "private"
    /\ UNCHANGED <<process, runs, priv>>

TearPrivate ==
    /\ idpc = "private"
    /\ priv' = Torn
    /\ idpc' = "privateOpen"
    /\ UNCHANGED <<process, runs, pub>>

SavePrivate ==
    /\ idpc = "privateOpen"
    /\ priv' = File(hash)
    /\ idpc' = "off"
    /\ UNCHANGED <<process, runs, pub>>

\* The command is killed, or cannot write a file.
Die ==
    /\ idpc # "off"
    /\ idpc' = "off"
    /\ UNCHANGED <<process, runs, pub, priv>>

IdentityNext ==
    \/ \E order \in Listings(Sources) : Run(order)
    \/ names # <<>> /\ \E order \in Listings(Found(Devices[Source])) : Fill(order)
    \/ /\ names # <<>>
       /\ \E known \in SUBSET Devices[Source] :
              /\ known = {} \/ known # Devices[Source]
              /\ \E order \in Listings(Found(known)) : FillFail(order)
    \/ FillNothing \/ FetchFail \/ Write \/ SourceEnd
    \/ Key \/ TearPublic \/ SavePublic \/ TearPrivate \/ SavePrivate
    \/ Die

IdentitySpec == IdentityInit /\ [][IdentityNext]_identityVars

-----------------------------------------------------------------------------
(* Properties *)

AllPoints == {d \in UNION {Devices[s] : s \in Sources} : Point[d] # 0}

\* "derives a deterministic SSH key pair" (metal-id/README.md:4): a machine
\* gets the same key in every run, in whatever order the kernel lists its
\* devices.  So the two files belong together whenever both are there, also
\* after a run that was killed between them; and there is no key that was
\* made from too little, or before all sources were read.
KeyPairMatches ==
    /\ pub.is = "whole" /\ priv.is = "whole" => pub.key = priv.key
    /\ \A f \in {pub, priv} : f.is = "whole" =>
           /\ Cardinality({i \in DOMAIN f.key : f.key[i] \notin Short}) >= MinCount
           /\ Len(f.key) = Cardinality(AllPoints)
=============================================================================
