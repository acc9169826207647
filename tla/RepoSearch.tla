----------------------------- MODULE RepoSearch -----------------------------
(***************************************************************************)
(* Repository.Search of secrets/repo: which file answers a query, given    *)
(* the paths that the client may read.  A path is the sequence of its      *)
(* components.                                                             *)
(***************************************************************************)
EXTENDS Naturals, Sequences

CONSTANTS
    Locations,  \* where values may be: [dir, name]
    None        \* nothing

\* None is not a directory that Search has found.
ASSUME NoneAssumption == None \notin [dir : Seq(STRING), level : 1..2]

VARIABLE values  \* the content of each location: None, Torn or the data

PathLists == Seq(Seq(STRING))

\* What clients ask for: the components of a name, between its separators
Names == Seq(STRING) \ {<<>>}

\* The directory that a component leads to from dir, as filepath.Clean has
\* it.  The root is the directory of secrets; above it are no locations.
Enter(dir, part) ==
    IF part \in {"", "."} THEN dir
    ELSE IF part = ".." /\ dir # <<>> /\ dir[Len(dir)] # ".." THEN SubSeq(dir, 1, Len(dir) - 1)
    ELSE Append(dir, part)

\* filepath.Join of a directory and a name: the last component has the
\* extension, and is the name of the file.
Join(dir, name) ==
    LET at[i \in 0..Len(name) - 1] == IF i = 0 THEN dir ELSE Enter(at[i - 1], name[i])
    IN [dir |-> at[Len(name) - 1], name |-> name[Len(name)]]

\* The directories that the inner loop visits, by level.  Clean leaves no
\* separator at the end, except that of "/"; filepath.Split leaves one, so
\* that a second Split finds no tail, and the loop ends.
Levels(path) == IF path = <<>> THEN <<path>> ELSE <<path, SubSeq(path, 1, Len(path) - 1)>>

\* There is no value of the empty name.
Exists(dir, name) ==
    /\ name # <<"">>
    /\ Join(dir, name) \in Locations /\ values[Join(dir, name)] # None

Closer(best, level) == best = None \/ level < best.level

\* A wrong inner loop: a directory that is closer does not replace the one
\* found for an earlier path.
ImproveFirst(best, path, name) ==
    IF best # None THEN best
    ELSE IF Exists(Levels(path)[1], name) THEN [dir |-> path, level |-> 1]
    ELSE LET n == Len(Levels(path))
         IN IF Exists(Levels(path)[n], name) THEN [dir |-> Levels(path)[n], level |-> n]
            ELSE None

\* The inner loop: only a closer directory replaces the best one so far.
Improve(best, path, name) ==
    IF \E n \in DOMAIN Levels(path) : Closer(best, n) /\ Exists(Levels(path)[n], name)
    THEN LET n == CHOOSE n \in DOMAIN Levels(path) :
                      /\ Closer(best, n) /\ Exists(Levels(path)[n], name)
                      /\ \A m \in 1..n - 1 : ~Exists(Levels(path)[m], name)
         IN [dir |-> Levels(path)[n], level |-> n]
    ELSE best

\* Search finds the file of a value, or None.
Search(name, where) ==
    LET best[i \in 0..Len(where)] ==
            IF i = 0 THEN None ELSE Improve(best[i - 1], where[i], name)
    IN IF best[Len(where)] = None THEN None
       ELSE Join(best[Len(where)].dir, name)

\* The directories Search looks into, closest first, and first in the list
\* among equally close ones.
Nearest(name, where) ==
    LET Above(h) == SubSeq(where[h[2]], 1, Len(where[h[2]]) - h[1])
        hits == {h \in (0..1) \X DOMAIN where :
                     h[1] <= Len(where[h[2]]) /\ Exists(Above(h), name)}
        first == CHOOSE h \in hits : \A g \in hits :
                     h[1] < g[1] \/ (h[1] = g[1] /\ h[2] <= g[2])
    IN IF hits = {} THEN None ELSE Join(Above(first), name)
=============================================================================
