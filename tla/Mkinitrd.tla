------------------------------ MODULE Mkinitrd ------------------------------
(***************************************************************************)
(* initramfs/cmd/mkinitrd with initramfs/ldd and initramfs/cpio: the       *)
(* command that builds the image.  It collects executables and libraries   *)
(* with the libraries they need, and kernel modules with the modules they  *)
(* depend on, writes all of them to a cpio archive and exits with rc.      *)
(* The two depth-first searches, ldd's Search and add, are one: a sequence *)
(* of names still to visit.                                                *)
(***************************************************************************)
EXTENDS Sequences, Naturals, FiniteSets

CONSTANTS Wanted,   \* config.Exe, config.Lib and config.Kmod, in this order
          Kmods,    \* names of kernel modules; other names are executables and libraries
          Copied,   \* init and config.Copy: files taken as they are
          Present,  \* files found on the machine that builds the image
          Dirs,     \* Dirs[f]: the directories above f in the archive, a sequence
          MaxFailures  \* bound: files whose Copy fails in one build

VARIABLES
    needs,    \* needs[f]: what the search follows from f, a sequence
    build,    \* "search", "write" or "exit"
    wanted,   \* entries of Wanted still to search from
    visit,    \* names the search has still to visit
    visited,  \* names it has visited
    fs,       \* files that go to the archive
    written,  \* written[p]: how often p was written to the archive
    copied,   \* files the writing loop has come to
    torn,     \* a record of the archive is cut short
    rc        \* exit code, 0 or 11

buildVars == <<needs, build, wanted, visit, visited, fs, written, copied, torn, rc>>

Files == Present \cup Copied \cup {Wanted[i] : i \in 1..Len(Wanted)}
DirSet(f) == {Dirs[f][i] : i \in 1..Len(Dirs[f])}
Paths == Files \cup (UNION {DirSet(f) : f \in Files}) \cup {"TRAILER!!!"}

\* A path is a file or a directory, and neither has the name of the trailer.
ASSUME PathsAssumption ==
    /\ Wanted \in Seq(STRING)
    /\ \A f \in Files : DirSet(f) \cap (Files \cup {"TRAILER!!!"}) = {}
    /\ "TRAILER!!!" \notin Files

BuildInit ==
    /\ build = "search"
    /\ wanted = Wanted
    /\ visit = <<>>
    /\ visited = {}
    /\ fs = Copied
    /\ written = [p \in Paths |-> 0]
    /\ copied = {}
    /\ torn = FALSE
    /\ rc = 0

\* The loops over config.Exe, config.Lib and config.Kmod
NextWanted ==
    /\ build = "search" /\ visit = <<>> /\ wanted # <<>>
    /\ visit' = <<Head(wanted)>>
    /\ wanted' = Tail(wanted)
    /\ UNCHANGED <<needs, build, visited, fs, written, copied, torn, rc>>

\* A name that was visited is skipped; another one is marked, and what it
\* needs comes next
Follow(name) ==
    /\ visited' = visited \cup {name}
    /\ fs' = fs \cup {name}
    /\ visit' = IF name \in visited THEN Tail(visit) ELSE needs[name] \o Tail(visit)
    /\ UNCHANGED <<needs, build, wanted, written, copied, torn, rc>>

\* Search: an executable or a library that Library finds
Search ==
    /\ build = "search" /\ visit # <<>>
    /\ Head(visit) \in Present \ Kmods
    /\ Follow(Head(visit))

\* parseKmodTree: the modules under config.KmodDir
Tree == Present \cap Kmods

\* add: a module of the tree
Add ==
    /\ build = "search" /\ visit # <<>>
    /\ Head(visit) \in Tree
    /\ Follow(Head(visit))

\* ... and a name that is nowhere ends the command
VisitMissing ==
    /\ build = "search" /\ visit # <<>>
    /\ Head(visit) \notin Present
    /\ build' = "exit" /\ rc' = 11
    /\ UNCHANGED <<needs, wanted, visit, visited, fs, written, copied, torn>>

\* The output file and the compressor are opened, or are not
OpenOutput ==
    /\ build = "search" /\ visit = <<>> /\ wanted = <<>>
    /\ \/ build' = "write" /\ UNCHANGED rc
       \/ build' = "exit" /\ rc' = 11
    /\ UNCHANGED <<needs, wanted, visit, visited, fs, written, copied, torn>>

-----------------------------------------------------------------------------
(* The archive *)

\* mkdir: a directory is written once
NewDirs(f) == {d \in DirSet(f) : written[d] = 0}

FailuresLeft == Cardinality({f \in copied : written[f] = 0}) < MaxFailures

Wrote(ps) == written' = [p \in Paths |-> IF p \in ps THEN written[p] + 1 ELSE written[p]]

\* Copy of a file that can be opened and is written whole
CopyFile(f) ==
    /\ build = "write" /\ f \in fs \ copied
    /\ copied' = copied \cup {f}
    /\ Wrote(NewDirs(f) \cup {f})
    /\ UNCHANGED <<needs, build, wanted, visit, visited, fs, torn, rc>>

\* A wrong loop: an error of Copy is only logged.
CopyFailLogged(f) ==
    /\ build = "write" /\ f \in fs \ copied /\ FailuresLeft
    /\ copied' = copied \cup {f}
    /\ UNCHANGED <<needs, build, wanted, visit, visited, fs, written, torn, rc>>

\* Copy of a file that cannot be opened; the loop goes on
CopyFail(f) ==
    /\ build = "write" /\ f \in fs \ copied /\ FailuresLeft
    /\ copied' = copied \cup {f}
    /\ rc' = 11
    /\ UNCHANGED <<needs, build, wanted, visit, visited, fs, written, torn>>

\* Copy fails in the middle: the output takes no more, perhaps at the header of
\* a directory, or the file has another size than its header says; the loop
\* goes on
CopyTorn(f) ==
    /\ build = "write" /\ f \in fs \ copied /\ FailuresLeft
    /\ copied' = copied \cup {f}
    /\ torn' = TRUE /\ rc' = 11
    /\ \E n \in 0..Len(Dirs[f]) : Wrote(NewDirs(f) \cap {Dirs[f][i] : i \in 1..n})
    /\ UNCHANGED <<needs, build, wanted, visit, visited, fs>>

\* The deferred calls: the trailer, the compressor, the file; main exits
CloseArchive ==
    /\ build = "write" /\ fs \subseteq copied
    /\ build' = "exit"
    /\ \/ Wrote({"TRAILER!!!"}) /\ UNCHANGED <<torn, rc>>
       \/ /\ torn' = TRUE /\ rc' = 11
          /\ UNCHANGED written
    /\ UNCHANGED <<needs, wanted, visit, visited, fs, copied>>

BuildStep ==
    \/ NextWanted \/ Search \/ Add \/ VisitMissing \/ OpenOutput \/ CloseArchive
    \/ \E f \in Files : CopyFile(f) \/ CopyFail(f) \/ CopyTorn(f)

-----------------------------------------------------------------------------
(* Properties *)

Built == build = "exit" /\ rc = 0

Needed(f) == {needs[f][i] : i \in 1..Len(needs[f])}

\* Nothing is written twice, and no file before the directories above it: an
\* unpacker creates the entries in the order in which it meets them. Exit code
\* 0 means an archive that is complete: nothing is torn, the trailer is there,
\* and what a file needs is in the archive with it.
ImageComplete ==
    /\ \A p \in Paths : written[p] <= 1
    /\ \A f \in fs : written[f] = 1 => \A d \in DirSet(f) : written[d] = 1
    /\ Built =>
        /\ ~torn /\ written["TRAILER!!!"] = 1
        /\ Copied \cup {Wanted[i] : i \in 1..Len(Wanted)} \subseteq fs
        /\ \A f \in fs : written[f] = 1 /\ (f \in visited => Needed(f) \subseteq fs)
=============================================================================
