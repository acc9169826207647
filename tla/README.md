# A verification project for pond

pond is a set of Go programs for machines that boot over the network.  This
directory keeps TLA+ models of its concurrent and stateful parts, the TLC
configurations that check them on small instances, and proofs, checked by
TLAPS, of the properties that matter most, for instances of any size.

`PROJECT.json` lists components, runs, the lines of code each definition
models, known hazards of the code and the theorems.

## The system

pond has three subsystems that keep state, and a few libraries and tools.

**nbd** serves disk images over the NBD protocol.  A client connects,
negotiates an export and sends commands (`nbd/server`).  The daemon
(`nbd/daemon`) opens one cache per exported volume.  A cache (`nbd/s3`) is a
local file next to a map of the chunks it holds; missing chunks are fetched
from an object of an S3 store, through a queue that limits connections.

**initramfs** builds an image (`cmd/mkinitrd`, `ldd`, `cpio`) and is the first
process of the machine that boots from it (`pid1`, `kmod`, `rand`): a queue of
tasks mounts file systems, loads kernel modules, seeds the random generator
and configures the network.

**secrets** stores values that machines may ask for.  `secretctl` keeps a
directory of certificates and encrypted values (`repo`, `access`, `value`,
`master`).  `secretd` (`server`) answers queries over SSH to whoever has a
certificate, and signs through ssh-agent (`agent`).

| Part | Source | Model | Status |
| --- | --- | --- | --- |
| connection queue | `nbd/s3/queue.go` | `Queue` | modelled |
| chunk map | `nbd/s3/chunk.go` | `ChunkMap`, `AutoSave` | modelled |
| object cache, local file, store | `nbd/s3/cache.go`, `local.go`, `remote.go` | `Cache`, `ObjectReads`, `Scrub` | modelled but for the store's client |
| NBD transmission | `nbd/server/proto_transmit.go` | `Transmission` | modelled |
| NBD negotiation | `nbd/server/proto_negotiate.go` | `Negotiation`, `Server` | modelled but for bytes |
| NBD server, daemon | `nbd/server/server.go`, `nbd/daemon/daemon.go` | `Server`, `Daemon` | modelled |
| lock file | `nbd/daemon/lockfile.go` | `Lockfile` | modelled |
| dm-verity | `nbd/verity` | `Verity` | modelled |
| chaoticp | `nbd/cmd/chaoticp` | `Copier` | modelled |
| task queue | `initramfs/pid1/main.go`, `tasks.go` | `TaskQueue`, `BootTasks` | modelled |
| mounts, module loader, seed, network | `initramfs/pid1/do_*.go`, `kmod`, `rand` | `Boot`, `Kmod`, `Rand`, `Network` | modelled |
| image builder | `initramfs/cmd/mkinitrd`, `ldd`, `cpio` | `Mkinitrd` | modelled but for byte formats |
| access control | `secrets/access` | `Access` | modelled |
| repository, secretctl | `secrets/repo`, `secrets/cmd/secretctl` | `Repository`, `RepoSearch` | modelled, one command at a time |
| ssh-agent connection | `secrets/agent` | `Agent` | modelled |
| secretd | `secrets/server`, `secrets/value`, `secrets/master` | `Secretd`, `Secrets` | modelled but for cryptography |
| machine identity | `metal-id` | `Identity` | modelled but for what sources read |
| sandbox | `lib/sandbox` | `Sandbox` | partly |
| buffer pool, logging, other commands | `nbd/buffer`, ... | - | see the end |
| bytepack, block templates, rootfs | `lib`, `rootfs` | - | see the end |

## How the modules fit together

    Queue                      ChunkMap <- Cache => ObjectReads
    Scrub, Verity              AutoSave
    Negotiation, Transmission  Server <- Daemon
    Lockfile                   Copier, Identity, Sandbox

    TaskQueue, Mkinitrd, Kmod, Rand, Network  <- Boot
    Access, RepoSearch <- Repository, Agent  <- Secretd <- Secrets

`A <- B` means that B extends A and composes its actions with others, and
`A => B` that A refines B.  A module `MCx` gives the constants of x small
values.  Modules `xProofs` hold the theorems: `CacheProofs` those about `ChunkMap`
and `Cache`, `DaemonProofs` those about `Daemon`, `Lockfile` and `AutoSave`,
`ProtocolProofs` those about `Negotiation` and `Transmission`, `PartsProofs` those
about `Queue`, `Copier` and `Sandbox`, `BootProofs` those about `Boot` and its parts,
`SecretsProofs` those about `Secrets` and `RepoSearch`, and the others those about
the module of their name.

Parts that share no state are checked together: a behaviour of `MCParts` or of
`MCWorkers` is a behaviour of one part, which is chosen in the initial state,
while the others stay where they began.  `MCParts` is for safety, and
`MCWorkers` for what must happen in the end; a run of either asks of each part what
a run of its own would.

Each module keeps the names of the source.  A variable's comment names the
field, channel or local variable it stands for; an action stands for what one
goroutine does between two points at which another may step in: taking a lock,
a channel operation, a system call.  Definitions whose comment begins with "A
wrong ..." are not part of the models.  They are plausible mistakes; each property
is known to fail if one of them takes the place of the definition that
follows it, and `PROJECT.json` says which.

## nbd

### Queue

A queue is three buffered channels, and nothing tells one token from another,
so a channel is a number.  A caller follows `Cache.fetch`: it acquires the
process-wide queue, then the object's, and releases them in the opposite
order.  `EnterNormal`, `EnterLow`, `Claim` and `GiveUp` are the selects of
`Acquire` and `AcquireLowPriority`, and `Drain`, `PreferNormal`, `LeaveNormal`, `LeaveLow`
those of `Release`.

* `parts`, queue: three callers, two objects one of which is closed at any
  time, and a caller whose context ends at any time.  `ReleaseNeverBlocks`: who has to take a
  token back finds one.  `ConnectionLimit`.  The counts behind them
  (`SlotsExact`, `LanesCoverOwers`) are proved below.  Three callers are
  enough for one to hold the queue and two to compete in the same or
  different lanes; the two on the same object are interchangeable (symmetry).
* `workers`, queue: `AcquireReturns`.  A caller of normal priority gets
  through.  Strong fairness for a blocked channel operation: Go's channels
  serve waiters in order.  Contexts do not end here, because an `Acquire` that
  is cancelled at its second select leaves its token in the lane.

### ChunkMap, AutoSave

`ChunkMap` is the bitmap, the channels that waiters wait on, numbered as they
are made, and the file.  `Done`, `Lost` and `check` hold the lock from start to
end and are one step; `Save` is two, since readers share the lock.

* `parts`, chunk map: two waiters, two savers, restarts; at most `MaxChanges` = 4
  changes.  `NeverClosedTwice` (closing a closed channel ends the process),
  `NoLostWakeup` (a waiter holds the channel that the next `Done` closes),
  `FileNeverOlder` (overlapping `Save`s never put an older map in place).
* `parts`, autosave: the loop of `AutoSave` reads two times without a lock and may
  put a save off.  `SavedInTime` (one and a half intervals).  A quarter of the
  interval has `Settled` = 2 units, so that a change can be recent and not of
  this moment.  That a save is never skipped wrongly (`CleanMeansSaved`) is proved.

### Cache and what it promises

`Cache` has readers (`ReadAt`), fetches for each chunk of a read and for the background
(`bgFetchAll`), the integrity check (`verity.Open`, then `bgIntegrity`), `AutoSave`,
`Close`, which waits for the last three goroutines, and faults that a run chooses:
`store` (reads fail or end early), `timeout`, `scrub` (chunks rot), `crash` (the process
dies) and `power` (what was not synced is lost).  A cell of the local file is
blank or has the object's data.  The integrity check reads through `ReadAt`;
here its reads take any time and succeed or fail, and their fetches,
which are like those of any reader, are not followed one by one.  `ObjectReads` is the abstract reader of an
immutable object, and the refinement hides everything local.

* `cache`: an object of three cells in chunks of two, so that the last chunk
  is short; a reader of that chunk and `bgFetchAll` fetch it at the same time.
  `MaxChanges` = 2 lets a chunk be fetched and dropped, or both be fetched.  `AvailabilityMapTrue`: a chunk that a map calls available is in
  the file.  `ReadsFromObject`: the refinement, for reads within a chunk.
* `cache_liveness`: one chunk, a store that keeps failing, a check that drops
  the chunk, and loss of power.  `ReadReturns`: `ReadAt` returns without its
  deadline.  The code has one exception, and the history variable `dropped`
  names it: the chunk is dropped after the fetch of `ReadAt` found it
  (`cache.go:160`) and before `ReadAt` looks itself (`cache.go:135`); then
  nobody need fetch it again.  `CloseEnds`: each of the three goroutines ends,
  wherever it is when `Close` cancels the context.  Fairness: the goroutines run, a copy ends or
  fails, and a select that finds the context done again and again takes that
  branch at last.  Deadlines are not fair, so nothing rests on them.  In both runs
  `bgFetchAll` does not retry (`RetryLimit` = 0): retries repeat what is there,
  and `cache_straddle` has one.
* `cache_straddle` (violation): a read that begins inside a chunk returns
  bytes of the next chunk before they are fetched.  `ReadAt` waits for the
  first chunk and reads `min(len(p), chunkSize)` bytes from the offset
  (`cache.go:138`), while the comment says "Return data from the first
  relevant chunk" (`cache.go:134`).

### Scrub and Verity

`Scrub` is the loop of `bgIntegrity`: the timer, the chunk that comes next, the
verdict of `Verify`.  Chunks of the local file rot and are fetched again at any
time.  `Verity` is `Verify` itself, over an image as veritysetup makes it: where
`findFirstLeafHash` looks for the leaves, and the loop over the blocks of a
region.  Lengths are in units of a hash, with two hashes to a block, so that
13 units already make trees of three levels; images have two data blocks or
more, and one block, of data or of hashes, may be damaged.  `Layer` and `Above`
are the two loops of `findFirstLeafHash`; `LevelHashes` and `LeafOffset` are the
tree of the image, which no code of the repository makes.

* `parts`, verity: `VerifyExact`.  `Verify` fails if and only if something in
  the region it was given is damaged, for every length of the image, offset
  and size.
* `scrub_stops` (violation): `CorruptionFound`, after the comment "Check data
  integrity in background indefinitely" (`cache.go:259`).  The timer is
  renewed only when a pass is over (`cache.go:288`), so with two cached chunks
  the second receive (`cache.go:275`) waits for ever.  The counterexample
  is under fairness of the goroutine.
* `workers`, scrub: `OneChunkScrubbed`, what remains true: an object of one
  chunk is verified again and again.  Fairness: the goroutine runs, the timer
  fires, and a select that finds the context done again and again takes that
  branch at last.

### Lockfile

Daemons that share a cache directory: open or create, `flock`, and `Close` in
its three system calls; each may be killed at any point, and the kernel then
unlocks.  A name leads to an inode, and inodes that nobody uses are used
again.  Three daemons, two of which stop in order, and four inodes, which are
as many as can be in use at once.

* `lock_removed` (violation): `DirectoryExclusive`, after the comment "Exclusive
  lock on local cache directory" (`daemon.go:39`).  `Close` removes the name after
  it has unlocked the file (`lockfile.go:35`).  By then another daemon
  may have locked it, and a third one finds no file and locks a new one.
* `parts`, lock: `SharedOnlyAfterRemove`, what the lock does achieve: of two
  daemons that run at once one has a file that lost its name.

### Negotiation, Transmission, Server, Daemon

`Negotiation` is the handshake and the options of one connection.  The client
(external) keeps to the protocol, and may send the next option before the last one is answered,
or hang up in the middle of a payload.  A payload is as many
units as its header says: shorter than a name, a fitting one, or longer than
the buffer, which is discarded in pieces.

`Transmission` is one connection: the receiver, the main loop, a worker for
each read, the mutex that keeps replies apart.  `Server` has listeners,
connections and `Shutdown` with its timer; `Daemon` adds `Run` with the export
callback, the memoised caches and the closing loop.  Data races (the map that
`Run` reads without a lock) are a choice between the outcomes.

* `parts`, negotiation: two options of any type and length.
  `NegotiationInStep`: no payload is taken for a header, every option is
  answered once and in order, and transmission begins with nothing left over.
* `transmission`: one read longer than the buffer and one command of any
  type.  `RepliesWhole` (replies are not mixed, and there is one for a
  command), `CommandsAnswered` (reads that have begun to be answered included),
  `ConnectionEnds`.  Fairness: goroutines run as long as they do not send; a
  send has no deadline, so it ends for sure only when the connection is down,
  and then fails.  What needs the client to read its replies says so
  (`ClientReads`): all commands are answered, and a shutdown ends the
  connection.  A hang-up ends it without that.  A client that stays connected
  and stops reading keeps a worker in `send`, and `transmission` with it.
* `daemon`: two listeners of which each may fail to bind, two clients and two
  volumes.  `OneCachePerVolume`, `RunReturns`.  `ServedFromOpenCaches`: until the
  server is told to stop, who is in transmission has an open cache, also if
  one of the listeners is gone.  From then on `Run` closes the caches when
  the listeners have returned (`daemon.go:98`), under whatever
  connections there still are.  Nothing is assumed of clients: only the server's goroutines and timers are fair.

### Copier

chaoticp, the tool that copies a file in chunks in random order to test a
backend: the goroutine that hands chunks over, the workers, errors at any
read or write, the comparison of the two files.

* `workers`, copier: two workers, chunks of two cells, files of none to two
  and a half chunks.  `CopyEnds`: the program ends, and if nothing failed it
  finds the copy to be right if the file consists of whole chunks.
  What follows the last whole chunk is never copied (`main.go:63`); such a copy ends in
  the error of the comparison.  Fairness: the goroutines run.

## initramfs

`TaskQueue` is `start`, `TaskQueue.Go` and the workers' goroutines over any
table of tasks; `BootTasks` computes the table that `Run` really builds.
`Kmod` keeps the recursion of `loadPath` as a stack.  `Rand` tells numbers apart
by zero, small and large, which is what `Seed` does.  `Network` has a goroutine
per interface, which store into a map without a lock.  `Mkinitrd` is the two
depth-first searches and the copying loop, with failing and torn copies.
`Boot` builds an image and then boots from it.

* `boot`: the real table; two targets; a results channel of size 1; two
  graphs of libraries and modules, with a diamond, a cycle and a missing
  module; one failing copy (`MaxFailures`); two interfaces.  The kernel has `scsi` built in, and
  may have loaded `libata` before (`Preloads`), so a module can be
  accepted although `loadPath` failed to load what it depends on.  `DependenciesFirst`
  is about the queue; `LoadedInKernel` and `NothingMissing` about modules at
  boot and in the image; `UpMeansConfigured` about the network, `resolv.conf`
  of late goroutines included; `ImageComplete` about the archive,
  its order included; `GeneratorsEnd` and `BootEnds` are
  liveness.  One generator and two half bytes are enough for
  a generator to be ahead of `Seed` and to be cancelled at each of its steps.
  Fairness: something that can happen happens, and timers jitter.
  Deadlock is not an error: a boot that failed waits for ever.

## secrets

`Access` is pure: a certificate is a record, the SQL table a set of rows, and
the queries are set expressions.  A path is the sequence of its components.
`AllowedRead` returns the set of orders that SQLite may choose.  `RepoSearch` is
the search for the file that answers a query, a pure function too.  A name in
a query is the sequence of its components, and `Join` does to it what
`filepath.Join` does.  The root is the directory of secrets; what a name leads to outside of
it is not followed.  `Repository`
adds the directory and the commands `init`, `cert` and `set`, each with the
moment between `os.WriteFile` emptying a file and filling it, at which the
command may die.  `Agent` is `Sign` with its second attempt.  `Secretd` is the
daemon: the accept loop, `renewHostCert`, and one handler per connection.
`Secrets` puts them together and lets time pass.

The ghost `grounds` remembers the administrator certificates that were in force when a user
certificate was issued; `excused` the signers that had no ssh-agent
during their call; `failing` that the last renewal failed.

* `secrets`: everything that can happen often has a bound, and a `load` is a set of bounds,
  chosen in the initial state: (1) three commands on an empty and on a used repository
  while one unit of time passes; (2) one command while secretd is started twice and
  serves one connection; (3) ssh-agent dies twice under a connection; (4) it dies
  under the renewal of the host certificate; (5) two connections compete with two
  renewals for `sshMu`.  Each load makes one kind of interleaving complete;
  their product is out of reach.  `MarkerLast`: `init` that dies leaves nothing that opens.
  `CertNeverOverwritten`: with names that begin alike and gaps in the numbers.
  `IssuedIsAccepted`: `FindAgent` of secretctl and `ACL.Validate` of secretd
  agree.  `AnswersGenuine`: what is served was saved completely, in the file its name leads to
  from a directory the client may read or from the parent of one,
  even while files change, and every name of a query is answered.  Queries
  have names of one and of two components.  `SearchNearest`: the loops of `Search`
  against their definition.  `HostCertFresh`, `SignFailsWithCause`.
  Liveness: `ConnectionEnds`, `HostCertInstalled`.  Fairness:
  the goroutines run, and every wait for a client ends, since connections
  have deadlines; `sshMu` is a `sync.RWMutex`, whose waiting writer keeps new
  readers out.  Clients and signals are not fair.  A unit of time is long
  compared with a renewal or a shutdown: the threshold is an hour, connections
  are limited to seconds.  The host certificate lives for two units and is
  renewed one before its end, which is the smallest instance that
  `HostAssumption` allows.  Deadlock is not an error: the loads run out.
* `secrets_parents` (violation): `docs/cli_overview.md:34` says that read access to
  `/test/servers/` is enough to read `/secret`; `Search` stops after one
  parent, because `filepath.Split` keeps the separator.

## metal-id and lib

`Identity` is `metal-id`: sources list their devices in any order, hand out their
data points sorted, and the hash of all of them is the key.  A hash is the
sequence it was fed with.  What can be read of the hardware is assumed to be the
same in each run; a source may fail where the code lets it.  The command may
die between any two steps and is run up to three times.

* `parts`, identity: three sources, one with two devices that look alike, one that finds nothing,
  one that may fail.  `KeyPairMatches`: the two files hold one key,
  whatever order the devices came in and wherever a run died.

`Sandbox` is `lib/sandbox` as its tests use it: commands are scheduled, the
directory is built, the commands run until one fails, and the two outputs of
each go to one buffer through a goroutine each.

* `parts`, sandbox: two commands with up to two units for each
  output.  `ResultTrue`: exit code 0 means that each scheduled command succeeded
  with its files in place, and the buffer can be taken apart into
  what was written to each output.

## What is proved

All theorems hold for any values of the constants that satisfy the named
assumptions, which TLC evaluates in the runs.  Most of them say that sizes are
positive, that sets are finite where they are counted, and that names are
distinct; `IdentityAssumption` also that a device belongs to one source.  The others are about inputs: `GraphsAssumption`, `BuiltinAssumption` and `PathsAssumption`
that modules depend on modules, as far as the files are there, that what is built into the
kernel is a module, and that no directory of the image has the name of a file; `TransmissionAssumption` that reads ask for
something; `RequestsAssumption` and `QueriesAssumption` that paths and
queries are lists of names, and no query is empty, which `handleAPI` refuses; `ReposAssumption` that the
repository at the start is one that `secretctl` can leave behind.

Each theorem follows from an inductive invariant that is stronger than the
property; what it adds is in the right column.

| Module | Theorems | Argument |
| --- | --- | --- |
| `PartsProofs` | `TypeCorrect`, `SlotsStayExact`, `LanesStayCovered`, `ReleaseDoesNotBlock`, `LimitsHold` | `IndInv`: callers are on their route and no channel is overfull, in addition to the counts.  A step moves one caller, so sets of callers and counters change alike (`CountMoves`). |
| | `NoChunkLost` | The safety part of `CopyEnds`.  `CopyInv`: a whole chunk is copied, or on the list, or taken by a goroutine (`Taken`); a buffer holds the chunk of its goroutine, and goroutines end only when the list is empty, so nothing is taken when `wg.Wait` returns. |
| | `ResultIsTrue` | `InPlace`: the files of the scheduled commands are in the directory, or on the list of what `build` has still to copy.  `Ordered`: the commands before the next one have succeeded.  `Kept`: `Read` goes through the whole buffer and is within it after each chunk, so that a write does not change what it found before; that its loop computes this is shown by induction over the chunks. |
| `CacheProofs` | `MapTypeCorrect`, `ChannelsClosedOnce`, `WaitersAreWoken`, `FileMovesForward` | `MapInv`: which channels are closed - all but the registered one - and which version each file has. |
| | `CacheTypeCorrect`, `MapStaysTrue`, `CacheImplementsObjectReads` | `CacheInv`: a bit anywhere, a closed channel and a waiter that need not wait all stand for a chunk that is completely in the file.  Assumes that power is not lost and that reads stay within a chunk (`ReadsStayInChunk`): without either the theorems are false. |
| `ProtocolProofs` | `RepliesStayWhole` | `ArrivalsInv`: a command arrives once, and moves one way only, from the client to its header.  `RepliesInv`: the worker that holds the mutex is the one in a transaction, its reply is the last in the stream and the only one that is not whole, and what it still has to send is what is missing. |
| | `NegotiationStaysInStep` | `NegInv`: behind every header on the wire comes its payload and then the next header, or as much of them as was sent (`Follows`), and the server is at the place that its state says (`StreamInStep`).  The option at hand has no final reply and those before it have one (`RepliesInStep`); a client that has sent `NBD_OPT_GO` waits, so nothing is behind it (`NothingBehind`). |
| `DaemonProofs` | `CachesAreMemoised`, `ConnectionsHaveCaches` | An open cache is in the map, or is the one of the export that holds `volumeMu`.  `Listened`: unless the server was told to stop, there are connections only while a listener still listens, and `Run`, which waits for all listeners, closes no cache as long as one does. |
| | `SharedNeedsRemoval`, `ExclusiveIfNeverRemoved` | `LockInv`: who runs holds the lock of what it opened, and a lock has one holder; and `NeverRemoved`: without a removal all have opened the file of that name. |
| | `SkipsOnlyWhenSaved`, `SaveIsNotPutOff` | `SaveInv`: saves happen at multiples of the period, so a change cannot look recent three times. |
| `BootProofs` | `TasksInOrder`, and the invariants of the parts | `TaskInv`: who launches has waited for the dependencies it has passed.  `NetInv`: the route belongs to one interface and tells what was done.  `KmodInv`: the kernel is closed under dependencies. |
| | `BootImplementsTasks`, `NetworkConfigured`, `ModulesLoaded` | Every step of the machine of `Boot` is a step of each part or leaves the part alone, so it implements the queue with arbitrary workers and keeps their invariants. |
| | `ImageIsComplete`, `NoModuleMissing` | `SearchInv`: what a visited file needs is visited or waits to be.  `ArchiveInv`: a file is in the archive only after the loop came to it, with its directories; as long as `rc` is 0 none was left out.  `ModulesInv`: an image that was built is closed under dependencies, and the loader only goes where they lead. |
| `SecretsProofs` | `IssuedStaysAccepted`, `RepositoryComplete`, `HostCertStaysFresh`, `SignOnlyFailsWithCause` | `GroundsInv`: the grounds of a certificate suffice for it, and rows stay when certificates are added (`RowsStay`).  `CreateInv`: what exists is a prefix of `CreateOrder`.  `HostInv`: the sleep ends before the certificate does.  `SignInv`: who signs again has a connection that is up, or an excuse. |
| | `SearchIsNearest` | `Best`: what the loops have after i paths is the nearest of the files for these paths.  Induction over the list, by its least counterexample. |
| | `CertsAreKept` | `CertsInv`: there are finitely many certificate files, so `FreeSuffix` finds a number that is free; the file a command has still to fill is one that is not whole. |
| | `AnswersAreGenuine`, `SearchFindsNearest` | `AnswersInv`: the table of the list is finite and its paths are paths, so `AllowedRead` is a list of them; values are data or torn; and `ConnOk`: in each state of a handler the names that are done have a secret or an error, and what was found is where its name leads to from an allowed path or its parent. |
| `VerityProofs` | `LeavesFound` | `findFirstLeafHash` rounds up once for each layer, and the tree has levels that are one division by a power of the hashes in a block, rounded up.  Rounding up twice is rounding up once (`CeilOfCeil`), so the layers are the levels (`RoundsAreLevels`) and as many (`LayerIs`); one side adds them from the leaves up, the other from the root down, and what is done and what is left always have the same sum. |
| | `VerifyIsExact` | `Located`: the superblock is behind the data, and the leaves, once looked for, are where `LeavesFound` says.  `Covered`: the blocks of the region that the loop went through are not damaged, and the next one and what is left are where that ends. |
| `IdentityProofs` | `KeyPairAlwaysMatches` | `OneOrder`: two sequences of the same numbers in ascending order are equal, because the places up to a value are as many as the devices with a data point up to it (`UpToCount`).  So a source hands out one sequence, in whatever order it found its devices, and `Fed`, what the hash gets from the first k sources, depends on the machine only.  `Fetching`: the hash has `Fed` of the sources that are done and the part of the present one up to `index`, and `count` is the number of long data points in it.  `Keyed`, `Saved`: a key, in a process or a file, is made from all of `Fed`, with enough data points. |

Every safety property of a passing run is the property of one of these theorems.
Not within the reach of the prover, and only model-checked, are the liveness
properties, under the fairness stated above; of the random seed nothing else is stated.
The library's theorems about induction cannot be used, as they
take an operator for a parameter.  Inductions over data go by the least
counterexample instead (`LeastOf`), and that a function defined by recursion
exists, and what its values are, is proved from the functions on the initial
segments (`SearchDefined`, `ReadKept`, `FedIs`, and for any function that goes on
step by step `Iteration`).  Type
correctness is the other way round: where a module has proofs it is proved, as a
theorem or as a part of its inductive invariant, and no run repeats it.

## Where code and documents differ, and limits of the code

The four violation runs are described above.  Other limits the models show:

* an `Acquire` that is cancelled late leaves a token in its lane (`queue.go:76`);
* the maps `volume`, `q.tasks` and `errs` are used without their lock or
  without any: the runtime may end the process;
* `secretctl set` asks `FindAgent` for the right to delegate writing, so that
  an administrator is needed (`acl.go:302`), while
  `docs/cli_overview.md` lets users with write permission set values;
* after one failed attempt to reach ssh-agent the connection is not made again
  (`agent.go:163`), because the closed socket cannot be closed;
* a name of several components in a query is joined to the directory as it is
  (`search.go:27`), so the file it leads to need not be in that directory or
  above it; `docs/cli_overview.md:34-36` describes what names of
  one component do;
* `send` has no deadline (`proto_negotiate.go:20`), and a shutdown waits for
  clients that do not read until its timer runs out (`server.go:117`);
* a command that dies in `set` loses the old value; a value's `Expires` is not
  looked at when it is served; revocation needs a restart of secretd.

## What is not modelled

* bytes on the wire of NBD, clients that break the protocol in negotiation,
  URLs and the client of the store (`nbd/s3/remote.go`), `nbd/buffer` (no property
  depends on the identity of a buffer);
* concurrent `secretctl` commands, the expiry of the master certificate, the
  formats and ciphers of values and certificates, the SSH protocol;
* bytes of cpio headers, ELF and `ld.so.cache` parsing, `.modinfo` parsing;
* what the sources of `metal-id` read from the kernel, the encodings of keys;
  of `lib/sandbox` the calls `Run`, `Mkdir`, `Remove`, `Setenv` and `Chdir`, and the output of ldd;
* `lib/bytepack` (a pure encoding), `lib/block` (a tool for documents), `rootfs`
  (experiments), logging, command lines, key generation: no state, or text.

Two compositions would multiply state spaces that are near the limit of what
can be checked, and would not ask anything new: `Queue` inside `Cache`, where acquiring may
fail or take any time, which `FetchAcquire` and `FetchAcquireFail` allow; and
`Transmission` over `ObjectReads`, where a backend may return some bytes or an error,
which `ReadSome` and `ReadNothing` allow.  Two `secretctl` commands at once are
not modelled because nothing in the code keeps them apart: two that issue for one name may
take the same number (`save.go:85`), and one certificate is lost.

## Running

    tlc -workers 2 -config Cache.cfg MCCache
    tlapm CacheProofs.tla

Each run takes at most a few minutes.
