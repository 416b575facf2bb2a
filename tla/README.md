# TLA+ models of go-dvote

These modules model the vochain node of go-dvote: its ABCI Application, the
State it drives, the Scrutinizer that indexes results, and the census
manager. Each module is translated from the Go source named in `PROJECT.json`
("map"). The exception is code that is not under `src/`: the validator
`AddTx`, the `State` store and the Scrutinizer's helpers. Those are modelled
from `spec.md` and marked `spec_modelled`.

## The system and how its parts interact

* **Application** (`src/unnamed/part_000`, `BaseApplication`). The consensus
  engine calls it on one thread, in this order:
  1. `InitChain` once;
  2. then for each height, `BeginBlock`, a `DeliverTx` for each transaction,
     and `Commit`.

  `Info` is called at the start-up handshake, and also by the `abci_info`
  RPC at any time. `BeginBlock` and `Info` both call `State.Rollback`.
  `DeliverTx` runs `AddTx(tx, State, true)`. `Commit` runs `State.Save`.
* **State** (not under `src/`; spec 4.1 and 4.2). It keeps a committed
  snapshot and a working snapshot. A transaction that validates is applied to
  the working snapshot, and the listeners are then called synchronously.
  `Save` commits the working snapshot and then calls each listener's
  `Commit(height)`.
* **Scrutinizer** (`src/vochain/scrutinizer/scrutinizer.go`). It listens to
  the State:
  * its callbacks append to three in-memory pools;
  * `Rollback` empties the pools;
  * `Commit(height)` first starts the goroutine
    `checkFinishedProcesses(height)`, then flushes the pools into its own
    store, keyed by prefix: entity `E`, live tallies `L`, and the final-result
    schedule `P`;
  * the goroutine writes the final results `R`.
* **Census manager** (`src/census/census.go`). It manages named merkle trees
  (namespaces) with management keys:
  * HTTP requests are served concurrently, each on its own goroutine;
  * `importQueueDaemon` imports remote censuses queued by
    `AddToImportQueue`;
  * `m.Trees` is guarded by `TreesMu`, but `m.Census.Namespaces` is not.
* **Not modelled.** IPFS storage (`part_002`), websocket transport,
  service start-up, the miner command, the router file methods and the older
  copy of the Application (`part_001`). The reasons are in `PROJECT.json`
  ("components").

## Modules

| Module | Models | State (VARIABLES) | Actions |
|---|---|---|---|
| `VochainTx` | process/tx types (`client/util.go`), `AddTx` and the State (spec 4.2) | none: operators `ValidTx`, `ApplyTx`, `Deliver` | |
| `Scrutinizer` | `scrutinizer.go` | the three pools; `L`, `E`, `P`, `R`; `entityCount`; `finishing`, the heights whose goroutine has not yet run | `OnProcess`, `OnVote`, `OnRevealKeys`, `OnNothing` (OnCancel and OnProcessKeys), `Rollback`, `CommitSpawn`, `CommitFlush`, `CheckFinishedProcesses`, `Restart` (NewScrutinizer) |
| `VochainApp` | `part_000`, composed with `Scrutinizer` via `INSTANCE` | `phase`, `committed`, `working`, `tmHeight`, ghosts `pending` and `ideal`, `crashes` | `InitChain`, `BeginBlock`, `DeliverTx`, `Commit`, `SaveNotifySpawn`, `SaveNotifyFlush`, `RunFinishedCheck`, `InfoInBlock`, `Crash`, `Restart` |
| `Census` | `census.go` | `nsList`, `trees` (name to tree object), `content` (tree object to its claims), `queue`, `daemon`, `hs` (one program counter per request goroutine); on disk `nsFile` (namespaces.json: absent, corrupt or its contents) and `dirs` (name to tree directory); `crashes` | `ManagerInit` (`LoadNamespaces`), `Crash`, `HandleAddCensus`, `HandleWrite`/`WriteClaims`, `HandlePublish`/`PublishAddNamespace`/`PublishImport`, `AddToImportQueue`, `DaemonReceive`/`DaemonFetch`/`DaemonImport`/`DaemonCheck` |
| `CensusRegistry` | what the census Manager promises: a census is created under a free name, empty, with fixed keys; its claims only grow; only a root-named census whose claims differ from its name is deleted | `registry` (name to keys and claims) | `Create`, `AddClaims`, `Delete` |

The `MC_*` modules give the model values for the constants. Notes on how the
modules correspond to the code:

* **`Commit` is split into two steps.** The Scrutinizer's `Commit` is two
  actions because its first statement is a `go` statement: the goroutine may
  run before the flush, or blocks later.
* **Restart and replay.** A restart rebuilds the Scrutinizer with
  `NewScrutinizer` and rolls the State back (`Info`). The engine then replays
  the block it had decided. The ghost `pending` records that block, so the
  replay delivers exactly the same transactions.
* **The `ideal` ghost** is the State that results from applying every
  decided transaction once, in order.
* **Census data.** A merkle tree's root is abstracted to its set of claims,
  so a census "named after its root hash" is named by a set of claims. Tree
  objects are numbered, so a request that read `m.Trees` before `RUnlock`
  keeps writing to the same object afterwards.
* **Census persistence and restart.** `Init` is `LoadNamespaces`, with the
  three outcomes of `os.Stat`/`Unmarshal`: an absent file is created and
  `Init` returns; a corrupt one is skipped and `Init` returns; otherwise the
  root key is taken or kept and a tree is opened for each listed namespace.
  When `TreeInitFails` is TRUE, `tr.Init` may fail on any of them: as at
  `census.go:103-106`, the error is logged and the name stays listed with
  no tree.
  `AddNamespace` and `DelNamespace` create or remove the tree directory and
  end with `save()`, which writes `nsFile`. `Crash` loses everything in
  memory (trees, namespaces, queue, requests, daemon); the disk survives,
  and the next `ManagerInit` reloads it.
* **Census refinement.** `Census` implements `CensusRegistry` under
  `RegistryView`: while the Manager runs, a census is what `m.Trees` and
  `m.Census.Namespaces` hold; while it is down, what `namespaces.json` and
  the tree directories hold. `AddNamespace` is `Create`, a write or import
  is `AddClaims`, the daemon's `DelNamespace` is `Delete`, and a crash and
  restart change nothing. `CensusRegistry` models no code, so it has no
  map entry. The refinement is checked with `TreeInitFails = FALSE`: a
  tree that fails to open takes its census out of service, which
  `census_tree_init_failure` shows leads further, to a census listed
  twice.
* **`List`** is a recursive operator over the entity keys in badger's key
  order: seek to `from`, skip `from` itself, append, then stop when `max`
  drops below 1. `Restart` counts entities with
  `List(MaxListSize, NoFrom, ...)` as `NewScrutinizer` does.
* **`CheckAuth`** reproduces the loop `for _, n := range ... { ns = &n }`.
  The pointer is to the loop variable, which ends up holding the last
  namespace.

## Runs

| Run | Expect | What it shows |
|---|---|---|
| `vochain_safety` | pass | Across blocks, rejected transactions, a crash mid-block and the replay, `L` equals the committed envelope count of every live-results process, `E` and `entityCount` match the committed processes, and no process is scheduled for final results twice. |
| `vochain_info_safety` | pass | When `Info` rolls back inside a block, the pools roll back with the State, so `L` stays consistent. In every state reached, paging through the entity index with `List` returns every entity once and in order, for every `max` from -1 upward, and no page is longer than a positive `max` (`ListPagesEnumerateKeys`). |
| `vochain_results_liveness` | pass | Without crashes, every process whose keys are all revealed early enough gets `R`, in any order of goroutine and flush. |
| `vochain_info_in_block` | violation | `Info` called between two `DeliverTx` discards the block's header and its transactions so far, and `Commit` then saves a State that is not the decided block. |
| `vochain_crash_results` | violation | After a crash before `checkFinishedProcesses(h)` runs, nothing rescans `P` for `h`, so those processes never get results. |
| `vochain_crash_in_save` | violation | A crash between the store commit and the Scrutinizer's `Commit` loses the pools for good. |
| `census_safety` | pass | For every start-up config (absent, corrupt, present), with every existing tree opening at `Init`, and with requests, publish, imports and a crash with restart interleaved, `m.Trees` and `m.Census.Namespaces` describe the same censuses, each listed once (`NamespacesMatchTrees`), although the daemon's existence check under `RLock` is stale when it calls `AddNamespace`. The Manager implements `CensusRegistry` (`ImplementsCensusRegistry`): a restart never loses, changes or invents a census, because every change is saved before its handler returns. |
| `census_no_daemon` | violation | When Init creates the config, or cannot unmarshal it, it returns before starting the daemon, so queued imports are never received. |
| `census_auth_aliasing` | violation | A request on census A is authorised with census B's keys. |
| `census_stale_tree` | violation | A claim is added to a tree the daemon has already deleted, and the request reports success. |
| `census_publish_race` | violation | A write that runs in the middle of `publish` leaves a census named after one root that holds the claims of another. |
| `census_tree_init_failure` | violation | `tr.Init` fails on a listed census at `Init`; the name stays in `m.Census` with no tree, an `addCensus` with that name passes `AddNamespace`'s check of `m.Trees`, and `namespaces.json` lists the census twice (`NsFileListsEachOnce`), the second time with the new request's keys. |

Every property of a passing run has a mutant in `PROJECT.json`: a plausible
bug in the mapped code that TLC shows breaks the property. Examples are a
`Rollback` that keeps a pool, an off-by-one in the `P` height, a restart that
does not recount entities, a validator without the key-count bound, a
`List` that does not skip `from`, a daemon that trusts its stale existence
check and adds the namespace without `AddNamespace`'s own, and an
`AddNamespace` that does not `save()`.

## Bounds

* **Vochain.** 2 processes, 2 entities, 2 voters, poll and encrypted
  processes, one key per encrypted process, 2 blocks per process, 3 heights,
  2 transactions per block, 1 crash. These bounds are enough for:
  * a process to be created, get its key added and revealed, be voted on,
    and be scheduled for final results;
  * a crash to fall inside a block and the block to be replayed.

  Symmetry over processes, voters and entities is used in the two safety
  runs (`vochain_safety`, `vochain_info_safety`). The liveness run uses one entity, one voter and encrypted processes
  over 4 heights, so the result height is reached.
* **Census.** 1 user name, 2 claims (hence 4 root-hash names), 1 or 2 keys,
  a queue of capacity 1, and at most 2 imports, so the queue can be full.
  With capacity 1, the full-queue case occurs at the same point as the
  code's 32-slot buffer would be full.
  * The safety run has 1 request goroutine, 2 tree objects (the saved
    census and one created by a request, an import or publish) and 1 crash.
    One goroutine is enough for what it checks: `AddNamespace` and
    `DelNamespace` run whole under `TreesMu`, so one request goroutine and
    the daemon already interleave every change of the two lists, and a
    crash can fall between any two of them. The races of two request
    goroutines are the subject of the stale-tree and publish runs. With 2
    goroutines and the crash the state space passes 26 million states.
    Claims are symmetric (a root-hash name is permuted with them); the
    stale-tree run uses the same symmetry.
  * The no-daemon run has 1 request goroutine and 1 import.
  * The tree-init run loads the saved census with `tr.Init` allowed to
    fail, and 1 request goroutine; no imports or crashes are needed.
  * The stale-tree and publish races need 2 request goroutines and 3 tree
    objects.

## Fairness

* **Vochain.** Weak fairness holds for:
  * the engine's steps: `BeginBlock`, `Commit`, replaying a decided block
    and `Restart`;
  * the two halves of `State.Save`;
  * the `checkFinishedProcesses` goroutine, which the Go runtime eventually
    schedules.

  Clients are not obliged to send transactions.
* **Census.** Weak fairness holds for `Init`, for the daemon's receive,
  import and check, and for request goroutines that are past their checks.
  `DaemonFetch` is not fair: `Storage.Retrieve(context.TODO(), ...)` at
  `census.go:305` has no deadline, and an IPFS fetch of a census nobody
  serves may never return (a hazard with a note). So no liveness of imports
  past a fetch is claimed; `ImportsEventuallyReceived` is only checked in
  `census_no_daemon`, where the daemon never starts. Clients and the
  callers of `AddToImportQueue` are not obliged to act, and `Crash` is not
  fair: a process is not obliged to crash.

## What is left out, and why

* **Vochain.**
  * Signatures, census proofs, oracles and validators are abstracted: a
    transaction is accepted or rejected by the State checks of spec 4.2
    alone.
  * Tallies are abstracted to vote counts.
  * The vote cache and `CheckTx`/mempool recheck belong to the consensus
    engine.
* **Census.**
  * Read-only census methods change no state.
* **Scrutinizer `List` with `max <= 0`.** `List` appends a key before it
  checks `max`, so it returns one key. `ListPagesEnumerateKeys` shows that
  paging still terminates. It claims the page bound only for `max >= 1`,
  because nothing says what `max <= 0` should mean. The only caller under
  `src/` passes `MaxInt64`.
* **Census crashes inside a locked handler, and failed writes.** A crash
  falls between handlers, not between `DelNamespace`'s `RemoveAll` and its
  `save()`, and `save()` always succeeds. Both are hazards with notes. A
  crash mid-`DelNamespace` brings the census back empty, which
  `CensusRegistry` cannot tell from a new census. A failed `save()` and a
  restart lose a census, which would violate `ImplementsCensusRegistry`.
  The contents of a corrupt `namespaces.json` are not represented, so an
  `Init` that skips it and a later `save()` overwriting it are not shown
  to lose the censuses it held. `save()` writes the file in place
  (`ioutil.WriteFile`: truncate, then write, with no fsync and no rename),
  so a crash mid-write is exactly such a corrupt file (hazard at
  `census.go:164`). A census created after that reopens the old tree
  directory with `tr.Init` and may inherit its claims (hazard at
  `census.go:128`). What `tr.Init` does there belongs to the tree library
  outside `src/`.
* **The import queue after a crash.** It is lost; nothing promises that
  queued imports survive a restart. A crash between the daemon's
  `AddNamespace` and its `ImportDump` leaves an empty census named after a
  root, which later imports skip (hazard at `census.go:324`).
* **An abstract specification of the Application.** The committed State
  moving only by whole decided blocks was stated as a refinement, but in the
  crash runs `Crash` itself resets the working set, so it held by
  construction, and with `Info` inside a block it is violated (as
  `CommittedMatchesDecidedBlocks` shows). It was dropped.
* **`Init`'s `ReadFile` error** returns the error to `Init`'s caller, which
  is not under `src/`.
* **The unlocked `CheckAuth` read.** `DelNamespace` shifts the namespace
  slice in place. A concurrent `CheckAuth` loop can therefore skip a listed
  census and treat it as unlisted, which means "allowing all". Catching this
  needs `CheckAuth` as a loop interleaved with the copy, one element at a
  time. It is a hazard with a note.
* **Older Application, IPFS, router, websocket, service start-up, miner.**
  * The older `part_001` Application is not wired into the service.
  * IPFS, the router and the websocket transport are I/O wrappers with no
    protocol state. Two of their hazards are listed: `Publish` has no size
    check while `Retrieve` has one, and `addFile` sends no reply for
    non-ipfs types.
  * Start-up and the miner are configuration.
* **Late votes.** Votes that arrive after the final results are computed
  (one block after the last reveal) were seen in the model. They are kept as
  a hazard with a note, because spec 4.2/S3 and spec 4.5 disagree on what
  is intended.
* **Results of poll-vote processes.** Only `OnRevealKeys` fills
  `resultsPool`, so a process that needs no keys never gets final results
  `R`, while spec 8.4 and scenario S1 expect them. `RevealedProcessGetsResults`
  is therefore stated for key-requiring processes only, and the difference
  is recorded in the note of the `scrutinizer.go:81` ordering hazard.
* **Why these are notes and not runs.** Each of the gaps above would need a
  run of its own (a torn file, a census-wide `CheckAuth` loop, poll-vote
  results). The twelve runs allowed each answer a different question, and `vochain_info_safety` is the only passing run in which
  `InfoInBlock` fires (a liveness run with `InfoDuringBlock = TRUE` did not
  finish in 15 minutes), so none of them is given up for these.

## Plan for later work

Done so far: `List` with its paging property, census persistence with
crash and restart, `tr.Init` failing at `Init`, and the `CensusRegistry`
refinement.

1. A crash inside `DelNamespace`, a failing `save()` and a torn
   `namespaces.json`, each with a property that tells a lost or
   resurrected census apart.
2. `CheckAuth` as a loop, racing with `DelNamespace`'s in-place copy.
3. `OldVochainApp` from `part_001`, with its `Lock` flag.
