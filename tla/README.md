# MobFS in TLA+

MobFS keeps code on a server and gives a client machine a live view of it: a
daemon (`mobfsd`) serves a directory tree over an encrypted stream, a client
either mounts the tree (FUSE or a local NFS server) or mirrors it into a local
directory. This directory holds TLA+ models of the parts of the program where
something can go wrong that a test would hardly reach, TLC instances that check
them, and proofs that TLAPS checks.

Paths below are relative to the repository's crate, `src/src/`.

## 1. Inventory

| Component | State | Operations | Models |
|---|---|---|---|
| Inode table (`vfs.rs`, `Inodes`) | `by_path`, `by_ino`, `next` under one lock | `ino`, `remove_tree`, `rename`, and the requests that resolve paths first and apply later | `Inodes` |
| Block cache (`vfs.rs`, `BlockCache`, `BlockStore`, `Inflight`) | blocks, LRU list, byte count, generations; table of flights | `get`, `insert`, `invalidate_*`, `clear`, `fetch`, `fetch_run` | `BlockCache` |
| Write-back (`vfs.rs`, `PendingWrite`, `Uploads`) | one buffer per handle; uploads in flight, window, errors | `write`, `flush`, `fsync`, the flush before a read, idle flusher, dispatch, upload jobs | `WriteBack` |
| Change feed (`changes.rs`, `vfs.rs`, `remote.rs`) | the daemon's log of recent changes, epoch, watcher; each mount's epoch, cursor, `feed_live` | `push`, `wait`, `ensure_watching`, `start`, `run_change_feed` | `ChangeFeed` |
| Mirror mode (`sync.rs`, `snapshot.rs`, `local.rs`, `storage.rs`) | local tree, remote tree, base snapshot | `pull`, `push`, `sync`, `watch`, `serve`, conflict copies | `MirrorSync` |
| Attribute and directory caches (`vfs.rs`) | `metas`, `dirs`, pending writes | lookup, getattr, readdir, create, mkdir, symlink, setattr, remove, rename, `apply_change`, `invalidate_all` | `Namespace` |
| Mount journal (`vfs.rs`) | the mount's journal file | `mutate`, `recover_journal`, `replay_journal`, `Vfs::start` | `MountJournal` |
| Remote client and pool (`remote.rs`, `vfs.rs`) | stream, operation ids, pooled clients | `with`, `op`, `reconnect`, retries | `RemoteOp` implements `OnceOp` |
| Resumable upload (`remote.rs`, `journal.rs`, `daemon.rs`) | temporary file on the server, transfer journal | `upload_file`; start, offset, chunk and finish requests | `UploadResume` implements `AtomicPut` |
| Daemon handlers (`daemon.rs`) | files, operation markers | one per request, `once`, streamed writes | in `RemoteOp`, `Namespace`, `UploadResume`, `FeedWatcher` |
| Watcher and echo filter (`changes.rs`) | busy paths, recent signatures | `record`, `begin_write`, `push`, `handle_fs_event` | `FeedWatcher` |
| Read-ahead, sidecars, xattrs, `statfs` (`vfs.rs`) | windows and maps of their own | | not modelled |
| Secure stream, wire protocol, front ends, configuration, command line, output | none that others rely on | | not modelled |

How they interact. A kernel request reaches `vfs.rs` through `mountfs.rs` or
`nfsmount.rs` on one of several threads. It resolves inode numbers to paths,
looks in the caches, takes a pooled `RemoteClient` and sends requests to the
daemon. The daemon changes files and records a change; the feed thread of every
other mount long-polls for changes and invalidates attributes, listings and
blocks. Writes go into a buffer per handle, and full, displaced, idle or flushed
buffers are uploaded by background jobs. Mirror mode does not use any of the
mount's caches: it compares three snapshots and copies whole files.

What is hard:

* state is read under one lock, a lock is dropped, and the result is used under
  another: inode paths, buffers on their way from `write_buffers` to
  `uploads.inflight`, a block read before an invalidation and inserted after it;
* several threads work on the same block, buffer or upload window, and wait for
  each other on condition variables;
* the feed's log is bounded and in memory: it overflows, and the daemon restarts;
* connections break with a poll, an operation, an answer or an upload on them,
  and what is repeated on a new one may still be under way on the old one;
* the mount and the daemon die between a record, its effect and its marker;
* answers are cached without a generation, while events and mutations go by;
* a mirror command fails or is killed with half of its plan applied, or while it
  writes its base.

`PROJECT.json` lists these as hazards, each at its line, with the properties that
watch it or the reason why none does yet.

## 2. Modules

An action is what a thread does under one acquisition of a lock, or one server
round trip, or one item of a plan. History variables record what the properties
speak about; no guard reads them, except where noted.

**`Inodes`**: the table of `vfs.rs:386-456`. A path is a sequence of names.
Handlers resolve (`ChildPath`, `ParentOf`, `RenameTarget`) and later apply
(`FinishIno`, `FinishRemove`, `FinishRename`, or `Fail`), so a handler may hold
a path that others have meanwhile removed or renamed.

**`BlockCache`**: the cache of one mount and the files on the server. A block's
content is the version of the last change that touched it and its length, in
units of which `BLOCK_SIZE` make a block. A change on the server puts an
invalidation into `pending`: an event of the feed, or the mount's own call, which is
delivered later in any order. `ApplyChange` is the head of `apply_change`: an event for
a path with a write pending at or below it is dropped for good. `writing` is any set
of files, since a write may be pending for any file at any time. `invalidate_tree`
is the two steps it is in the code (`CollectTree`, then `Deliver` of the paths found).
`LateEffect` is a request that failed for the mount and is carried out later, which
nobody announces. `Changes` selects the kinds of change of an instance. `missed` is a
history: the blocks whose old content no invalidation removes, each put there by the
step that leaves it behind (the gap of a write past the end, a skipped event, blocks
`Loaded` during a tree or full invalidation that does not know their path, a late
effect), and taken out when the block is invalidated for another reason. The code
orders the cached blocks by ticks (`lru`, a map from tick to key); the model keeps
that order itself, as pairs of blocks, since only the order of ticks matters.
`Victims` are the blocks that the eviction loop of `insert` removes: those before which
too much is left. A summed length is the number of units of the blocks.

**`WriteBack`**: buffers, hands, uploads. `Write` appends to the buffer of a handle
or displaces it; the displaced buffer, like one taken by `dispatch_fh`, is in the
hands of a thread (`th[t].hand`) until `Enqueue`. `UploadSend` is the moment the
server applies an upload, `UploadDone` the end of the job, with or without an
error; an upload may fail although it was applied. A file is a row of cells and
every write puts its own number into the cells it covers. The handles that
`flush_path` and the flusher have collected are a set (`todo`), taken smallest
first, the order of the code's `BTreeMap`.

**`ChangeFeed`**: `RootFeed::push` and `wait`, the mount's `Vfs::start` (cursor
first, then snapshot) and `run_change_feed`. The answer of `wait` is computed by
the same arithmetic on positions as in the code (`oldest`, `Visited`, `Cut`).
`Restart` empties the log; changes that reached the disk and not the log may
come with it. `UnseenEdit` is an edit in a directory nobody watches yet.

**`MirrorSync`**: two trees, the saved base and one running command. A version
stands for size, hash and bytes of a file. `push_items`, `pull_items` and
`sync_items` are translated with the order of their items; every item is a step,
any step may fail or the process be killed (`Fail`, `KilledInSwap`, `SaveTorn`).
`upload_file` gives the remote file the time of the upload, `download_file` gives
the local one the time of the scan. A command has its `--delete` and `--dry-run`:
`pull` and `sync` return from `MakePlan` on a dry run, while `push` has created its
directories by then, applies nothing and saves the remote scan as base all the same.
`passed` is a history of the remote versions that a push has left alone and saved
(`PassedOver`). `watch` is a `push` started by a file event, `serve` is `sync` with its
early return on an empty plan. `KilledInSwap` leaves no local file, or the remote one,
where `write_conflict_artifacts` was swapping.

**`OnceOp`** and **`RemoteOp`**: what a metadata operation promises, and how the pool
keeps it. A slot holds one client with one stream; `Send`, `Receive`, `AttemptFails`,
`Retry` and `GiveUp` are `RemoteClient::op` and `reconnect`, with the operation id kept
over all attempts. An attempt fails when the stream breaks or the read times out, so
a call may give up, with its attempts used up or its reconnect failed, on a stream
that is alive and still owes an answer (`Owes`). The daemon's handler of a connection
runs `once` in three steps: `Accept` (the marker is looked for), `Act` or `Refuse`,
`Mark` or `MarkFails`; handlers of old connections run on beside the new one, on the same
operation too. `Break` cuts a connection with requests and answers on it, `Kill` ends
all handlers where they are; markers are files and stay. `ImplementsOnce` maps `applied`
to the abstract effects. `OnceOp` names what the code does not prevent: `torn` (the
handler ended between effect and marker), `raced` (two attempts were being served at
the same time) and `misled` (sent on a stream that owed an answer). The histories of
these names are set by the steps where it happens, and `OnceOp` says what each of them
takes and what it may cost.

**`MountJournal`**: `mutate` as the steps `Record`, `ActOk`/`ActRefused`/`ActBroken`, `Clear`,
and recovery as `Reconnect`, one `Replay...` step per record and `ReplayDone`, with
`AttemptFails` counting the attempts. Operations in `Twofold` (create and mkdir) send two
requests, and their record has only the first (`vfs.rs:1641`, `1664`). A request of the
pool is one step here, answered or broken; whenever a connection broke under it, also
under one that was answered in the end, the request is in `stray` and `StrayEffect` may
carry it out at any later time, or never. `Written` appends a line, on to an unfinished one
if there is one; `WrittenInPart` is an append that fails or is cut off by a crash.
Lines that cannot be read are skipped by the replay (`ReplaySkip`) and their operations are
in `torn`. `Crash` ends the mount anywhere, `Start` replays what the file holds.

**`Namespace`**: `metas` and `dirs` of one mount against the server's tree. Mutations run on
the session thread in the order of the code: checks, `DropWrites`, the request
(`ServerOp`), attributes (`MutateMetas`), listings (`MutateDirs`, one step for up to three
acquisitions of the lock). A request may fail in transport (`TransportFails`): then the
mutation is an error, or recovery replays its record, or sees it refused, and the caches
are updated as if it had been carried out; the request is in `late` and `LateEffect` has
it take effect at any later time, any number of times. Writes are pending from `LocalWrite` to
`Upload`; `has_pending_write` finds them (`HasPending`) or, as they pass from the buffers to the
uploads, does not: `ApplyChange`, `InvalidateAll`, `StatStore` and `ListEntry` take either branch,
and `setattr` and `rename` go on though their flush left a write behind, which a rename may carry
along (`CarryWrite`). Workers read
(`StatRead`, `ListRead`) and store later. Others change the tree and their events
queue up in `feed`; `ApplyChange` and `InvalidateAll` are what the feed thread does with
them. `tainted` is a history: the keys stored or kept in one of the ways
that the code does not guard, listed at the head of the module. Paths are sequences
of `Labels`; `PathsAssumption` says that they form a tree in which a subtree fits at every
place of its depth, `TreesAssumption` that the mount starts on a tree.

**`AtomicPut`** and **`UploadResume`**: what an upload promises, and `upload_file` with its
four kinds of request. A version is a row of chunks; two versions may share an
upload id, as the id is made of path, size and time stamp. `Offset` hashes the
part that is already there from the local file, as the code does, so that the
checksum at the end is of the local file alone. `Check` and `Install` are the two halves
of `WriteFileFinish`. `reqs` are the requests the daemon has not done with; each is served
when its thread gets to it, in any order, also between the two halves of another one.
Those of broken connections and of dead clients may also be lost, and nobody reads
their answers. `touched` is a history of the uploads whose temporary file was changed
between check and rename, by another request: the one exception of `AtomicPut`.

**`FeedWatcher`**: one file, the requests that change and record it, the watcher that
reports every change, and the filter of `push`. A handler takes the file's signature
(`Sign`) before it enters it under the lock (`RecordWrite`), and so does the watcher
(`WatcherSign`, `WatcherLog`). Streams log every `Announce` pieces and may break off.

**`NamespaceProofs`**, **`ChangeFeedProofs`**, **`MountJournalProofs`**, **`MirrorSyncProofs`**,
**`RemoteOpProofs`**, **`UploadResumeProofs`**, **`WriteBackProofs`**, **`BlockCacheProofs`**: the
theorems of section 5. Each extends the module it is about; `ChangeFeedProofs` extends the
two halves of `changes.rs`, `ChangeFeed` and `FeedWatcher`, and `NamespaceProofs` the two
views of names in `vfs.rs`, `Namespace` and `Inodes`.
`MC*` modules give the instances their constants.

## 3. Runs

| Run | Checks | What it shows |
|---|---|---|
| `MCInodes` | `TableTypeOK`, `MapsInverse`, `RootPinned`, `NoReuse` | Renames and removals with stale paths, over and below existing subtrees, keep the two maps inverse, never touch the root and never reuse a number. |
| `MCBlockCacheCoherence` | `TypeOK`, `Coherent`, `ReadsAnnounced`, `SingleFlight`, `FetchEnds` | Two workers, fetching singly and in runs, race writes, truncations, replacements of file and directory, resets, skipped events and late effects: generations keep stale blocks out but for those of `missed`, a fetch is never older than what was announced before it, a block has one fetcher, every follower is woken. |
| `MCBlockCacheEviction` | `Accounting` | Bytes, LRU list and capacity agree through replacement, eviction and range, tree and full invalidations. |
| `MCWriteBack` | `TypeOK`, `NothingLost`, `NoOverlap`, `WindowExact`, `FailuresKept`, `FlushDrains`, `CallsEnd` | Two request threads and the idle flusher on one handle with a failing upload; every call ends, through overlaps and a full window. |
| `MCChangeFeed` | `TypeOK`, `CursorHonest`, `CursorForward`, `Delivered` | The cursor never passes a change the mount has not applied and never goes back, through overflow, cut answers, lost answers and a restart, and every change is delivered in the end, as an event or by a reset. |
| `MCMirrorSync` | `TypeOK`, `BaseHonest`, `NoClobber`, `SyncAgrees` | All commands with all their flags, failing or killed anywhere, torn base files and edits on both sides between commands: the base is honest, and sync replaces nothing the other side has not had, but for the remote versions that a push has passed over; a sync that ends well leaves both sides equal. |
| `MCRemoteOp` | `TypeOK`, `ImplementsOnce`, `OpsEnd` | Lost requests and answers, timeouts on live streams, failed reconnects, old handlers that run on and a daemon killed at any point: Ok means done and done once, except for operations that were raced, misled or torn, and those only in the circumstances that `OnceOp` gives. Every call returns. |
| `MCMountJournal` | `TypeOK`, `OkSettled`, `CrashRecovered`, `NoLateReplay`, `JournalDrains` | With one mutating thread, as under FUSE: Ok means carried out in full, or broken and then carried out as far as the record goes, refused or lost with its line; a mount that comes up again has settled what it died on; no replay repeats an operation after it, or a later one, has returned Ok; recovery ends. |
| `MCNamespace` | `TypeOK`, `Coherent` | Every stale cache entry has one of the listed causes: an event on its way, a step of the mount under way, or one of the unguarded ways. Nothing else that workers, mutations, writes, late requests and feed do together leaves one. |
| `MCUploadResume` | `TypeOK`, `ImplementsAtomicPut`, `Healed` | Whatever temporary file an earlier upload left and whenever late requests are served, the destination never holds a mixture and Ok means that the version was put there, unless a late request fell between check and rename; once connections hold the file gets there: a bad leftover fails one upload and is removed. |
| `MCFeedWatcher` | `WatcherTypeOK`, `Announced` | The echo filter swallows no change other than edits that a mobfs write to the same file overlaps or follows, and what a broken stream wrote; the busy count is exact through broken streams. |
| `MCWriteBackDurable` | `Durable`, violated | A flush returns Ok while another thread has the buffer in hand. |

Further configurations show known violations and are not part of the passing
set: `MCChangeFeedOverflow.cfg`, `MCMirrorSyncDelete.cfg`, `MCMirrorSyncResolve.cfg` and
`MCMountJournalPending.cfg`; section 4 says what they find.

### Bounds

* `MCInodes`: two names, depth 2, four numbers, two handlers: enough for a rename
  of a directory over another one while a second handler holds a path below
  either. The theorems do away with the bounds.
* `BlockCache`: files of one or three units with two units to a block, so that a
  file has a short only block, or a full and a short one, and a range can touch
  one block, the seam, or leave a gap. One change, of any kind, is enough for every race
  of one fetch with one invalidation: 389,449 states. Eviction uses three files against a
  capacity of four blocks, the least `BlockCache::new` allows: 2,220,312 states.
* `WriteBack`: two writes of one or two cells to three cells, a buffer of two cells and a
  window of two: appends, displacement, overlap, a full window, and two buffers of
  one handle in the hands of two threads.
* `ChangeFeed`: a log of two, one event per answer, three events per life of the
  daemon, one restart, one broken connection, one mount and
  edits on the server. The theorems do away with these bounds too.
* `MirrorSync`: a directory and a file in it, so that a plan has up to two items and may
  fail half way; all 14 commands; three edits, deletions or merges by users; two seconds.
  Three edits give a synced version and a change of it on each side. 4,299,799 states.
* `RemoteOp`: two operations on one slot, one retry, three connections, one break
  and one kill: a retry that meets the first attempt, a second call on the stream of one
  that failed, a death between effect and marker. Slots share nothing but the daemon's
  marker directory, whose names contain the client's id. 306,246 states.
* `MountJournal`: two operations, the first of two requests, three faults, two attempts and
  two crashes: a failed recovery that leaves a record to the next operation, a late
  request after the other's Ok, and a crash in the replay after a crash. 473,381 states.
* `Namespace`: two directories with an entry of the same name below each, so that a
  subtree can be moved over another; three versions (two changes) and one answer
  under way: a change by others, or a request that failed and its late effect, and a
  mutation of the mount around one stat or readdir. 1,443,786 states.
* `UploadResume`: three versions of one or two chunks, two with one id; two
  breaks, one edit, one death of the client: late requests of an earlier attempt and of
  a dead client can be waiting when the next upload begins. 363,459 states.
* `FeedWatcher`: three ranges, two handlers, three changes, an event every two pieces.

`CHECK_DEADLOCK FALSE` is set for all modules but `Inodes`, `BlockCache` and `MirrorSync`:
their bounded counters run out and nothing is left to do. Symmetry is used in runs without
temporal properties that need fairness: permutations of names, files, workers or
threads, none of which any definition tells apart.

### Fairness

* `BlockCache!Fairness`: a worker that has begun a fetch goes on. Nothing in a
  fetch blocks except the wait for a flight and the server read, which ends with
  an answer or an error after the retries.
* `WriteBack!Fairness`: threads in a call run, the flusher finishes the sweep it
  has begun, upload jobs end, with an error if the connection is gone.
* `ChangeFeed!FairSpec`: the feed thread loops for ever, the daemon answers a
  poll at the latest at its deadline, and a connection that does not break
  delivers. Pushes, edits, restarts and breaks are not fair.
* `RemoteOp!Fairness`: a thread in a call goes on (reads have a timeout, so waiting
  ends), a handler of the daemon with a request goes on.
* `MountJournal!FairSpec`: a thread in `mutate` or in a replay goes on, and a dead mount is
  started again; this last is the user's part.
* `UploadResume!FairSpec`: a file that differs is uploaded again (a mirror command is run,
  or `watch` runs it), and some request under way is served.

Breaks, kills, crashes and faults are never fair, and their number is bounded, so
"in the end" means after the last of them.

### Assumptions

`PromptWake` (`ChangeFeed`): a poll that waits in `wait` gets the lock back before
the log drops an event it has to return. In the code `MAX_EVENTS` is
50 000 and the waiter is notified by every push, but nothing enforces it;
`MCChangeFeedOverflow` shows what happens otherwise.

`QuietFile = TRUE` (`UploadResume`): the file is not edited while it is uploaded.

One mutator (`MountJournal`): FUSE runs mutations on its session thread. The NFS
server runs them on several threads (section 4).

Markers are not pruned while their operation may still be repeated (`RemoteOp`); two
changes of a file have different size or time stamp (`FeedWatcher`).

`Quiet` (`MirrorSync`): nobody edits while a command runs. Commands compare only
what they scanned, so with edits in between no statement about overwriting can
hold. With `Quiet = FALSE`, `BaseHonest` fails in seven steps: a remote edit
between the scan and the second scan enters the base although the local side
never had it, and the next `sync` uploads the old local file over it.

The requests of broken connections are under no assumption of order or time in
`RemoteOp`, `MountJournal`, `UploadResume`, `Namespace` and `BlockCache`.

## 4. Observations

Where the code differs from what it, or its documentation, says. The first is a run
of the passing set's table; the next four have a configuration of their own.

* `MCWriteBackDurable`: `dispatch_fh` takes a buffer under one lock and `dispatch_pending`
  enters the upload under another (`vfs.rs:1081`); a flush in between finds neither.
  `README.md:91`: "`close` and `fsync` still wait until the data is on the server."
* `MCChangeFeedOverflow.cfg` (`CursorHonest`): `wait` tests for overflow once, before its loop
  (`changes.rs:220`); if more than `MAX_EVENTS` events come while it sleeps, the answer
  skips the lost ones. `README.md:25`: the daemon "pushes edits from other mounts and
  from the server itself into every connected mount".
* `MCMirrorSyncDelete.cfg` (`DeletesOnlyUnchanged`): `sync` records remote directories in its base
  that it does not create locally (`sync.rs:571`); the next `sync --delete` takes one for
  deleted and removes it with the files created in it since. `cli.rs:325`: "Propagate
  deletions on the side that did not change".
* `MCMirrorSyncResolve.cfg` (`ResolvedIsResolved`): after a conflict both sides still differ
  from the base, so merging and running `sync` again reports the same conflict
  (`snapshot.rs:118`). `sync.rs:564`: "Resolve by choosing or merging the
  .mobfs-conflict-local and .mobfs-conflict-remote files, then run `mobfs sync` again".
* `MCMountJournalPending.cfg` (`PendingKept`): a mutation whose recovery failed leaves its
  record, and the next mutation that succeeds clears the whole file
  (`vfs.rs:989`). `sync.rs:618`: "pending mount journal operations will replay on the
  next successful reconnect or remount".

Met while modelling, by changing a constant or a property:

* `RemoteOp`, `raced`: `once` looks for the marker, runs the operation and writes
  the marker without a lock (`daemon.rs:734`); a retry that arrives meanwhile runs it
  again, for instance a `Remove` of what the caller has created anew after its Ok.
  `misled`: a reconnect that fails, or attempts used up by timeouts, leave the old stream in
  place (`remote.rs:723-731`), and the next operation takes the late answer for its own.
  `ImplementsOnce` fails when either is taken out of `OnceOp`.
* `MountJournal`: create and mkdir record only their first request, so a recovery that
  replays it leaves the mode unset and `mutate` returns Ok. An operation that failed in
  transport and is refused on replay is reported as Ok, with a warning on the console. A line
  that could not be written as a whole takes the next record with it. A request whose
  connection broke may be carried out after later operations have returned Ok.
  With two mutators one's clear removes the other's record, so `OkSettled`
  and `CrashRecovered` fail.
* `MirrorSync`: `push` without `--delete` saves a base with remote files the local side never
  had, and `push --dry-run` does so for all that differ (`sync.rs:532-534`), after it has created the
  local directories on the remote side (`sync.rs:1721`). The next `sync --delete` takes them
  for deleted and removes them from the server: `BaseHonest` and `NoClobber` fail when `passed` is
  taken out of `Known`.
* `Namespace`: each of the unguarded ways listed at the head of the module is a behaviour
  of the code that leaves a stale attribute or listing behind. With a live feed, a
  listing stored after the event about it stays until the next event in the directory.
  One of these ways came out of the proof and not of the run, whose bound of three versions
  is too small for it (five show it): a stale answer leaves the attributes of a file where a
  directory is now, and `rename` puts the new path into its parent's listing with the kind it
  finds in the attribute cache (`vfs.rs:1836`), so the listing is wrong as well and nothing is
  under way that would correct it.
* `rmdir` asks for the listing and then has the directory removed with all its contents
  (`vfs.rs:1721`, `daemon.rs:553`): what others create in between is removed.
* `UploadResume` with `QuietFile = FALSE`: an edit during the upload gives a file of two
  halves, with a checksum that fits. `touched`: a late chunk or start changes the
  temporary file between the check and the rename (`daemon.rs:488-494`), and the mixture is
  put in place with an Ok. A finish that is repeated
  because its answer was lost fails, although the file is in place. The journal
  entry of an upload whose file was edited before it was repeated is never removed.
* `FeedWatcher`: an edit on the server that a mobfs write to the same file overlaps or follows
  before the watcher has read the report is announced to nobody beyond the range of the
  write; `Announced` fails in five steps without `mixed`. The other way round, a mount's own
  write may be reported as foreign when the signature it recorded is newer than the
  one the watcher took: harmless.
* `BlockCache::invalidate_tree` and `clear` raise the generation only of paths with a
  cached block. A fetch of the first block of another path that is under way
  inserts old content afterwards.
* A write past the end of a file lengthens the block that was its short last one;
  the range of the event does not cover it.
* An event for a path with a write pending at or below it is dropped for good
  (`vfs.rs:1936`): blocks that another client changed elsewhere in the file stay as they are.
  With these three and late effects taken out of `missed`, `Coherent` fails.
* Two threads with successive buffers of one handle may enter `uploads.inflight` in
  either order, so older data can reach the server last.
* A read of a path takes upload errors of other handles of the path; the
  writer's own `close` then returns Ok.
* Edits on the server between a mount's snapshot and the end of the watcher's walk
  are recorded by nobody, and the feed is then announced as live.
* `upload_file` does not set the time of the remote file: after a `Put` the local
  file differs from the base, so the next `sync` uploads it again, and an edit on
  the remote side shows up as a conflict although nobody changed the local file.

## 5. Proofs

**`NamespaceProofs`**, on the caches, for any paths and trees to start from, any number of
workers, changes and answers, without further conditions. `NamespaceTypes` (`TypeOK`, which
says that the server's tree is one) rests on `Typed`, which adds what the session thread and the
workers remember. `NamespaceCoherent`: `Spec => []Coherent`. `Coherent` is not inductive: it says
nothing of answers that are still to be stored, nor of what a mutation under way will leave.
The invariant is `Inv`, that there are two trees `b` and `a` with `Holds(b, a)`: the trees just
before and just after the mutation under way. An entry or an answer is right (`MetaRight`,
`DirRight`) if the server has it, an event that drops it is in the feed, or `b` had it and the
mutation has still to write its key. `Holds` says that every cache entry is absent, tainted, the
mount's own write or right, that every answer is right or overtaken, that `a` is still what the
server has for the keys of the mutation, unless an event or an overtaking says otherwise
(`StillThere`), and how the operation made `a` of `b` (`Did`, `Deed`). The work of the proof is in
`MutateMetas` and `MutateDirs`: a rename moves entries of the old path to the new one, and they are
right there because `a` below the new path is `b` below the old one. `Disturbs(K)` with
`RightKept` handles all other steps: a step disturbs some keys, and what it does not disturb stays
right. The inductive invariant quantifies over pairs of trees, which TLC cannot enumerate;
TLC checks `TypeOK` and `Coherent`.

Also **`NamespaceProofs`**, on the inode table, for any set of names and handlers and any bounds.
`TableCorrect`: `TableSpec => [](TableTypeOK /\ MapsInverse /\ RootPinned)`. `MapsInverse` is not
inductive alone: `remove` and `rename` must not get hold of the root, so the
invariant `CallsInv` adds `CallsBelowRoot`, that the paths a handler holds for them end
in a name. The core is `RenameKeepsTable`: what `rename` builds for a key below
`from` is below `to`, the arithmetic on suffixes can be undone (`MovedBack`), hence
no two keys collide and nothing that was not removed is overwritten.
`NumbersNotReused`: `TableSpec => NoReuse`, from the same invariant.

**`ChangeFeedProofs`**, for any number of mounts, log and answer sizes, restarts and
broken connections.
`FeedTypes` and `CursorMovesForward` rest on `Bounded`: `TypeOK`, with consecutive
numbers in the log, plus bounds on the cursors of mounts and of answers on their
way (`CursorsBounded`, `RepliesBounded`).
`CursorIsHonest`: `ASSUME PromptWake PROVE Spec => []CursorHonest`. The invariant adds
`LogQueued` (what the history has from `oldest` on is in the queue), `WaitsCovered`
(nothing a waiting poll has to return has been dropped: here `PromptWake` is used,
in `PushHonest`) and `RepliesHonest` (an answer brings everything up to its
cursor). `AnswerHonest` shows that the positions `wait` visits, and the place
where it cuts, leave nothing out; `MinOfNumbers` makes the cut well defined.

Also **`ChangeFeedProofs`**, on the watcher, for any ranges, requests, pieces per event and
changes; the set of handlers is finite. `WatcherTypes`: the busy count is the number of streams, however
they end. `ChangesAnnounced` (`Announced`): while requests are under way, every change
that is neither told nor excused is on the list of one of them (`HandlersCover`);
otherwise it is younger than what was last recorded and the watcher has yet to see
it (`WatcherCovers`).

**`MountJournalProofs`**, for any number of operations of one or two requests, faults, crashes
and attempts. `JournalTypes` needs no condition. `OkMeansSettled` (`OkSettled`), `CutCallsSettle`
(`CrashRecovered`) and `ReplaysInOrder` (`NoLateReplay`) assume `OneMutator`, a mount whose
mutations run on one thread, as under FUSE; with two they fail (section 4). `OkSettled`
is about the end of a call, so the invariant says where an operation is before:
on record, or its record lost, while it is to be sent or replayed (`OnRecord`), in the queue of
the replay or settled (`ReplayCovers`), broken if it is being recovered (`RecoverBroken`), its first
request carried out before the second is sent (`MainFirst`), settled when the record is about to
be cleared (`ClearIsSettled`), settled or on record after a crash (`CutOnRecord`). `RecordsYoung`,
that no record is older than an operation that returned Ok, gives `NoLateReplay`.

**`RemoteOpProofs`**, for any slots, number of operations, retries, connections, breaks and kills,
without conditions. `PoolTypes`; and `PoolImplementsOnce`, `Spec => ImplementsOnce`: initial states map
to initial states and every step to a step of `OnceOp` or a stutter. The invariant says
that an operation that was not retried is in one place only (`Single`); that a stream carries
nothing but what the current call is waiting for, unless that call is misled or some call has
failed (`Streams`, `Settled`, `MisledAfter`); that two handlers at work on one operation make it
raced, and that this takes a retry (`Meetings`); and that without that an operation has taken
effect once more than it is torn exactly if it is marked or a handler is between
effect and marker (`Accounts`), and an Ok that was not misled has a marker (`OkMarked`).

**`UploadResumeProofs`**, for any versions of any sizes under any upload ids, any number of
retries, breaks, edits and crashes, and requests served in any order. `UploadTypes` needs no
condition. `UploadImplementsAtomicPut` assumes only `QuietFile` and shows
`Spec => ImplementsAtomicPut`. What the client has hashed is a part of the version it was
called with (`Reading`), a finish carries the hash of a whole version that was begun
(`Hashes`), and what a finish has checked is still there until it is renamed, unless the upload
is touched (`Checked`); so what `Install` moves is a version that an upload was started with.
A request that the client does not wait for has been given up (`Late`), which only a break or
a crash does.

**`WriteBackProofs`**, for any files, handles and threads, buffer and window sizes, any number
of writes, calls and failures, without further conditions. `NoByteLost`: an accepted
byte is in a buffer, in the hands of a thread, in flight, on the server or was dropped
with a failed upload (`Kept`). `UploadsApart`, `WindowKept` and `FailuresReported` are the
wait loop of `dispatch_pending` and the book-keeping of `uploads`. `FlushLeavesNothing`:
`Spec => FlushDrains`, from an invariant (`DrainedTask`) on what a call accounts for:
it is buffered only where the call is still to take the buffer. That the theorem
speaks of buffers and uploads and not of other threads' hands is the flaw that
`MCWriteBackDurable` shows.

**`BlockCacheProofs`**, for any files (finitely many), workers, block size, file sizes,
capacity and changes. `CacheTypes`, `AccountsExact` (`Accounting`) and `OneFetcher`
(`SingleFlight`), and also `CacheCoherent` (`Coherent`) and `ReadsSeeAnnounced` (`ReadsAnnounced`), need no
condition: changes of every kind, skipped events and late effects included.
`EvictionFits`: the oldest block that is not evicted
has only evicted blocks before it, so what is left is within the capacity.
`TotalSplit` takes the length of removed blocks off; as bytes is exact, the code's
saturating subtractions never saturate. `OneFetcher` needs that the tasks are well
formed and cover their runs (`TasksOK`, `FlightOK`). The invariant `CInv` of coherence: a cached
block that is not in `missed` is not older than what was announced, and equal to the server's or
announced by something that will drop it (`CacheFresh`; that delivering drops it is
`DeliveryDrops`, with the division of offsets into blocks in `DivIs`);
so is data on its way into the cache, if the generation it was read under is still
that of its path (`FlightsFresh`); and a fetch that began when a version had been
announced carries nothing older (`FloorsOK`). `UntouchedLen` shows that a change leaves
the length of the blocks it does not touch alone. The step from the paths that
`invalidate_tree` collects to their invalidation is `SwapFresh`: what it does not know of is
not cached, and what is loaded of it is missed.

**`MirrorSyncProofs`**, for any paths, files in directories included, any commands, edits and
failures. `MirrorTypes` needs no condition; it rests on `Shapes`: both sides and the
snapshots are trees in which a path keeps its kind. `MirrorBaseHonest`, `MirrorNoClobber` and
`MirrorSyncAgrees` assume `Quiet`: nobody edits while a command runs (without it the code does
not have the properties, section 3); all commands and flags are covered.
`BaseHonest` is inductive only together with what a command is about to save: every
version there is known to the local side already (had, or passed over by a push), or an item of
the plan is still to bring it (`HeldLocally`). For a push that is `Pushing`: the remote side
has the local version, or one that `PassedOver` will account for, or an item is to come.
For sync that needs what the plan decided about each path:
`SyncFile` says that a file whose item is still to come is as it was scanned or went with
its directory, and that a file that is done with is the same on both sides. That the order
of the plan matters is in `SyncPlan`: while a directory's item is to come, so are those of its
files, because a directory's name sorts before theirs; `SyncDelete` needs it, as a
directory is deleted with all that is in it.

Only model-checked: the liveness properties (`FetchEnds`, `CallsEnd`, `Delivered`,
`OpsEnd`, `JournalDrains`, `Healed`), which are outside the prover's logic. Every invariant,
action property and refinement that a passing run checks is stated by a theorem.

## 6. What the models leave out

* `BlockCache`: read-ahead decides what to prefetch; here any run may be fetched at
  any time. Which files have a pending write when an event comes is any set, not that of
  `WriteBack`.
* `WriteBack`: `remove`, which drops buffers (it is in `Namespace`), and `flush_all_buffers` at
  shutdown;
  the `Fsync` request after the flush; `take_upload_error` is merged with the
  step that follows it.
* `ChangeFeed`: the echo filter of `push` (it is in `FeedWatcher`), the
  delay between an edit and the watcher's event, and a mount whose first
  subscription fails, which runs without a feed thread.
* `MirrorSync`: symbolic links, modes, ignore patterns, paths that change their kind,
  scans interleaved with edits; conflict copies and upload leftovers, which are
  ordinary files of the tree to the next scan; two commands at once.
* `RemoteOp`: requests without an operation id, which are repeated as they are; the set-up of a
  connection is one step.
* `MountJournal`: what an operation does to the tree. Whether a second effect of the same
  operation is harmless depends on the tree, which is why `NoLateReplay` forbids the ones
  that come after a later operation's Ok, other than those of broken requests.
* `Namespace`: sidecars, ignored names, modes apart from times and sizes, symbolic links (as
  files), versions handed to the kernel, expiry when no feed is live (it only drops
  entries), two mutations at once, renames to another depth, the releases of the lock
  between the changes of one mutation to several listings.
* `UploadResume`: two uploads of one path at once; opening the temporary file and writing a
  chunk to it are one step.
* `FeedWatcher`: renames and removals of the file, directories, signatures that collide,
  the bound of 16 384 on recent signatures.
* Not modelled at all: encryption, framing, the front ends, configuration, command
  line and output, search, `statfs`, remote commands, Apple sidecars and extended
  attributes, read-ahead. They keep no state that the components above rely on, or none
  that outlives a call, or can only cost time.

## 7. Plan

What is left, in order of importance:

1. The order in which successive buffers of one handle reach the server.
2. Read-ahead window arithmetic against a reference definition.
