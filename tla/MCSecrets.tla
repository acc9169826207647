----------------------------- MODULE MCSecrets ------------------------------
(* Repositories with an administrator, two readers whose names begin alike *)
(* and values at two levels, and the loads they are put under.             *)
EXTENDS Secrets, TLC

CONSTANTS c1, c2

Root == <<>>
A == <<"a">>
AB == <<"a", "b">>

Cert(name, key, caps, paths, signer, after, before) ==
    [name |-> name, key |-> key, caps |-> caps, paths |-> paths,
     signer |-> signer, after |-> after, before |-> before]
File(kind, number, cert) ==
    [kind |-> kind, name |-> cert.name, number |-> number, cert |-> cert,
     whole |-> TRUE]

\* Alice administers what is below /a, Bob reads there.
Alice == Cert("alice", "kAlice", {"rA", "wA"}, <<AB>>, "kMaster", 0, 4)
Bob == Cert("bob", "kBob", {"r"}, <<A, AB>>, "kAlice", 0, 2)
Bobby == Cert("bobby", "kBobby", {"r"}, <<Root>>, "kAlice", 0, 4)

MCRequests ==
    {[name |-> "bob", key |-> "kBob", caps |-> {"r"}, paths |-> <<AB, A>>, life |-> 2],
     [name |-> "bob", key |-> "kBob", caps |-> {"r", "w"}, paths |-> <<A, <<"c">>>>, life |-> 2],
     [name |-> "carol", key |-> "kCarol", caps |-> {"wA"}, paths |-> <<A>>, life |-> 1]}

At(dir, name) == [dir |-> dir, name |-> name]
MCLocations == {At(Root, "x"), At(AB, "x"), At(A, "y")}
MCQueries == {<< <<"x">>, <<"..", "y">> >>, << <<"b", "x">>, <<"y">> >>}
MCIdentities == {"kMaster", "kAlice"}
MCBegins == {<<"bobby", "bob">>}
MCConns == {c1, c2}
MCSigners == {c1, c2, "renewer"}

Empty == [made |-> {}, certs |-> {}, grounds |-> {},
          values |-> [at \in MCLocations |-> None]]
\* bob.01 was revoked and bob.02 was not; bobby came later.
Used == [made |-> Files, grounds |-> {<<Bob, {Alice}>>, <<Bobby, {Alice}>>},
         certs |-> {File("admin", 1, Alice), File("user", 2, Bob), File("user", 1, Bobby)},
         values |-> [at \in MCLocations |-> IF at.name = "x" THEN "d1" ELSE None]]
MCRepos == {Empty, Used}

\* The example of docs/cli_overview.md: read access to /test/servers/, and a
\* value /secret.
Servers == <<"test", "servers">>
DocLocations == {At(Root, "secret")}
DocQueries == {<< <<"secret">> >>}
Reader == Cert("bob", "kBob", {"r"}, <<Servers>>, "kAlice", 0, 4)
Chief == Cert("alice", "kAlice", {"rA"}, <<Servers>>, "kMaster", 0, 4)
DocRepos == {[made |-> Files, grounds |-> {<<Reader, {Chief}>>},
              certs |-> {File("admin", 1, Chief), File("user", 1, Reader)},
              values |-> [at \in DocLocations |-> "d1"]]}

MCLoad(commands, ticks, deaths, starts, conns, clients) ==
    [commands |-> commands, ticks |-> ticks, deaths |-> deaths,
     starts |-> starts, conns |-> conns, clients |-> clients]
MCLoads ==
    {MCLoad(3, 1, 0, 0, {}, {}),
     MCLoad(1, 0, 0, 2, {c1}, {"kBob", "kBobby"}),
     MCLoad(0, 1, 2, 1, {c1}, {"kBob"}),
     MCLoad(0, 2, 1, 1, {}, {}),
     MCLoad(0, 2, 0, 1, {c1, c2}, {})}
DocLoads == {MCLoad(0, 0, 0, 1, {c1}, {"kBob"})}
=============================================================================
