----------------------------- MODULE BlockCache -----------------------------
(***************************************************************************)
(* The block cache of one mount (BlockStore, BlockCache and Inflight in    *)
(* vfs.rs), the files it caches on the server, and the invalidations that  *)
(* follow every change of those files: change-feed events for what other   *)
(* clients do, and the mount's own calls after its uploads, truncations,   *)
(* removals and renames.  apply_change drops an event for good when its    *)
(* path has a write pending.                                               *)
(*                                                                         *)
(* The cache has two locks (store, inflight).  Every action is what is     *)
(* done under one acquisition, or one server round trip, so that a fetch   *)
(* races invalidations exactly where the code lets go of its locks.        *)
(*                                                                         *)
(* Data: a block's content is the version of the last change that touched  *)
(* it, and its length.  Lengths are in units, BLOCK_SIZE units to a block. *)
(* The tree is one directory, Dir, that holds all Files.                   *)
(***************************************************************************)
EXTENDS Integers, Sequences, FiniteSets, FiniteSetsExt, Functions

CONSTANTS Files,        \* paths of regular files
          Dir,          \* the directory that contains them
          Workers,      \* threads that read: request handlers, prefetchers
          BLOCK_SIZE,   \* units per block
          MaxSize,      \* bound: longest file, in units
          capacity,     \* cache capacity, in units
          Sizes,        \* bound: lengths a file is given, in units
          Ranges,       \* bound: ranges <<from, to>> that are written
          MaxChanges,   \* bound: server changes and invalidations
          Changes       \* kinds of change that happen in this instance

ASSUME CacheAssumption ==
  /\ BLOCK_SIZE \in Nat \ {0} /\ MaxSize \in Nat /\ MaxChanges \in Nat
  /\ capacity \in Nat /\ capacity >= 4 * BLOCK_SIZE    \* BlockCache::new
  /\ Sizes \subseteq 0..MaxSize
  /\ \A r \in Ranges : r[1] \in Nat /\ r[2] \in 1..MaxSize /\ r[1] < r[2]
  /\ Dir \notin Files /\ IsFiniteSet(Files)
  /\ Changes \subseteq {"write", "failed", "truncate", "replace", "tree", "reset", "late"}

VARIABLES
  size,      \* server: length of every file
  ver,       \* server: version of every block
  pending,   \* invalidations on their way to the mount
  changes,   \* number of changes so far (names the invalidations)
  blocks,    \* store.blocks: block key -> content
  lru,       \* store.lru, as the order of its ticks: <<a, b>> when block a was
             \* used before block b, or a = b
  bytes,     \* store.bytes
  generations, \* store.generations
  inflight,  \* block key -> the worker that fetches it
  task,      \* what every worker is doing
  floor,     \* history: the version of every block that delivered
             \* invalidations have announced
  missed     \* history: blocks whose old content no invalidation has removed,
             \* nor will remove

server == <<size, ver, changes>>
store == <<blocks, lru, bytes, generations>>
others == <<server, pending, floor, missed>>
vars == <<others, store, inflight, task>>

Indexes == 0..((MaxSize - 1) \div BLOCK_SIZE)
Keys == Files \X Indexes

BlockLen(n, i) ==
  IF n >= (i + 1) * BLOCK_SIZE THEN BLOCK_SIZE
  ELSE IF n <= i * BLOCK_SIZE THEN 0 ELSE n - i * BLOCK_SIZE

Content(key) == [ver |-> ver[key], len |-> BlockLen(size[key[1]], key[2])]

\* Keys of the blocks of path that hold a byte of from..to-1.
Touched(path, from, to) ==
  {key \in Keys : /\ key[1] = path /\ from < to
                  /\ key[2] * BLOCK_SIZE < to /\ from < (key[2] + 1) * BLOCK_SIZE}

-----------------------------------------------------------------------------
(* store: what is done under one acquisition of its lock. *)

\* The summed length of blocks, as the number of their units.
TotalLen(bs, keys) == Cardinality(UNION {{key} \X (1..bs[key].len) : key \in keys})

\* A block gets a new tick, the highest.
Used(order, key) ==
  {p \in order : p[1] # key /\ p[2] # key}
    \cup {<<k, key>> : k \in {p[1] : p \in order} \cup {key}}

\* An order of exactly these blocks.
Linear(order, keys) ==
  /\ order \subseteq keys \X keys
  /\ \A a, b \in keys : <<a, b>> \in order \/ <<b, a>> \in order
  /\ \A a, b \in keys : <<a, b>> \in order /\ <<b, a>> \in order => a = b
  /\ \A a, b, c \in keys : <<a, b>> \in order /\ <<b, c>> \in order => <<a, c>> \in order

\* Blocks leave the order.
Unused(order, keys) == {p \in order : p[1] \notin keys /\ p[2] \notin keys}

\* The while loop at the end of insert removes a block when what is left
\* without the blocks used before it is still too much.
Victims(bs, order, total) ==
  {k \in DOMAIN bs :
     total - TotalLen(bs, {j \in DOMAIN bs : j # k /\ <<j, k>> \in order}) > capacity}

\* A mutant: the length of evicted blocks is not taken off bytes.
PutLeaking(key, c) ==
  LET old == IF key \in DOMAIN blocks THEN blocks[key].len ELSE 0
      bs == [k \in DOMAIN blocks \cup {key} |-> IF k = key THEN c ELSE blocks[k]]
      order == Used(lru, key)
      total == bytes - old + c.len
      victims == Victims(bs, order, total)
  IN /\ blocks' = Restrict(bs, DOMAIN bs \ victims)
     /\ lru' = Unused(order, victims)
     /\ bytes' = total

\* insert, its generation test passed: replace, account, evict.
Put(key, c) ==
  LET old == IF key \in DOMAIN blocks THEN blocks[key].len ELSE 0
      bs == [k \in DOMAIN blocks \cup {key} |-> IF k = key THEN c ELSE blocks[k]]
      order == Used(lru, key)
      total == bytes - old + c.len
      victims == Victims(bs, order, total)
  IN /\ blocks' = Restrict(bs, DOMAIN bs \ victims)
     /\ lru' = Unused(order, victims)
     /\ bytes' = total - TotalLen(bs, victims)

\* A mutant: insert without the generation test.
InsertAlways(key, c, generation) == Put(key, c) /\ UNCHANGED generations

\* BlockCache::insert
Insert(key, c, generation) ==
  /\ IF generations[key[1]] = generation THEN Put(key, c)
                                         ELSE UNCHANGED <<blocks, lru, bytes>>
  /\ UNCHANGED generations

\* BlockCache::get, when the block is there: it becomes the most recently used.
GetHit(key) ==
  /\ key \in DOMAIN blocks
  /\ lru' = Used(lru, key)
  /\ UNCHANGED <<blocks, bytes, generations>>

\* BlockCache::invalidate_where; keep holds the indexes of the blocks that stay.
InvalidateWhere(paths, keep) ==
  LET doomed == {key \in DOMAIN blocks : key[1] \in paths /\ key[2] \notin keep}
  IN /\ generations' = [p \in DOMAIN generations |->
                          generations[p] + (IF p \in paths THEN 1 ELSE 0)]
     /\ blocks' = Restrict(blocks, DOMAIN blocks \ doomed)
     /\ lru' = Unused(lru, doomed)
     /\ bytes' = bytes - TotalLen(blocks, doomed)
     /\ missed' = {key \in missed : key[1] \notin paths \/ key[2] \in keep}

InvalidatePath(path) == InvalidateWhere({path}, {})

\* A mutant: the length of a removed block is taken off bytes twice.
InvalidateRangeOvercounting(path, offset, len) ==
  LET first == offset \div BLOCK_SIZE
      last == (offset + Max({len, 1}) - 1) \div BLOCK_SIZE
      doomed == {key \in DOMAIN blocks : key[1] = path /\ key[2] \in first..last}
  IN /\ generations' = [generations EXCEPT ![path] = @ + 1]
     /\ blocks' = Restrict(blocks, DOMAIN blocks \ doomed)
     /\ lru' = Unused(lru, doomed)
     /\ bytes' = bytes - 2 * TotalLen(blocks, doomed)
     /\ UNCHANGED missed

InvalidateRange(path, offset, len) ==
  LET first == offset \div BLOCK_SIZE
      last == (offset + Max({len, 1}) - 1) \div BLOCK_SIZE
  IN InvalidateWhere({path}, Indexes \ (first..last))

Below(path) == IF path = Dir THEN Files \cup {Dir} ELSE {path}

\* The first half of invalidate_tree: the paths that have a cached block.
TreePaths(path) == ({key[1] : key \in DOMAIN blocks} \cap Below(path)) \cup {path}

\* Blocks of these paths that a fetch has read and not inserted yet.  Without a
\* new generation for their path they get into the cache whatever they are.
Loaded(paths) ==
  {key \in Keys : key[1] \in paths /\
     \E w \in Workers : task[w].pc = "insert" /\ task[w].path = key[1]
                       /\ key[2] \in task[w].first..(task[w].first + task[w].n - 1)}

\* BlockCache::clear
Clear ==
  LET paths == {key[1] : key \in DOMAIN blocks}
      none == [key \in {} |-> <<>>]
  IN /\ generations' = [p \in DOMAIN generations |->
                          generations[p] + (IF p \in paths THEN 1 ELSE 0)]
     /\ blocks' = none
     /\ lru' = {}
     /\ bytes' = 0
     /\ missed' = Loaded(Files \ paths)

-----------------------------------------------------------------------------
(* The server's files change, and an invalidation is on its way.           *)
(* An invalidation knows the blocks whose content it announces (keys).     *)

Bumped(keys) == [k \in Keys |-> ver[k] + (IF k \in keys THEN 1 ELSE 0)]

Change(keys, newSize) ==
  /\ changes < MaxChanges
  /\ changes' = changes + 1
  /\ ver' = Bumped(keys)
  /\ size' = newSize
  /\ UNCHANGED <<store, inflight, task, floor>>

\* The mount is told by the feed, or by the call that made the change; of some of
\* the blocks, lost, in vain.
Announce(inv, feed, keys, lost) ==
  /\ pending' = pending \cup
       {[id |-> changes, feed |-> feed, inv |-> inv, news |-> [k \in keys |-> ver[k] + 1]]}
  /\ missed' = missed \cup lost

RangeInv(path, from, to) == [kind |-> "range", path |-> path, offset |-> from, len |-> to - from]

\* Bytes from..to-1 are written, by another client or by an upload of this
\* mount.  Past the end of the file the gap is filled with zeros, so the blocks
\* of the gap change as well, which the invalidation says nothing of.
WriteFileAt(path, from, to, feed) ==
  /\ "write" \in Changes
  /\ LET told == Touched(path, from, to)
         gap == Touched(path, size[path], from) \ told
     IN /\ Change(told \cup gap, [size EXCEPT ![path] = Max({@, to})])
        /\ Announce(RangeInv(path, from, to), feed, told \cup gap, gap)

\* An upload that fails invalidates without a change on the server.
NoWrite(path, from, to) ==
  /\ "failed" \in Changes
  /\ Change({}, size) /\ Announce(RangeInv(path, from, to), FALSE, {}, {})

\* setattr(size) and create of this mount: the file is cut or extended, then
\* invalidate_path.
Truncate(path, n) ==
  /\ "truncate" \in Changes
  /\ LET keys == Touched(path, Min({n, size[path]}), Max({n, size[path]}))
     IN /\ Change(keys, [size EXCEPT ![path] = n])
        /\ Announce([kind |-> "path", path |-> path], FALSE, keys, {})

\* A file is replaced, removed or renamed over; by this mount or another: the
\* cache is told with invalidate_tree of the file.
ReplaceFile(path, n, feed) ==
  /\ "replace" \in Changes
  /\ LET keys == {key \in Keys : key[1] = path}
     IN /\ Change(keys, [size EXCEPT ![path] = n])
        /\ Announce([kind |-> "tree", path |-> path], feed, keys, {})

\* The directory is replaced as a whole: invalidate_tree of the directory.
ReplaceDir(n, feed) ==
  /\ "tree" \in Changes
  /\ Change(Keys, [p \in Files |-> n])
  /\ Announce([kind |-> "tree", path |-> Dir], feed, Keys, {})

\* Events were lost (daemon restart, overflow) and the feed answers reset: a
\* file has changed and all the mount is told is to clear the cache.
LostEvents(path, n) ==
  /\ "reset" \in Changes
  /\ LET keys == {key \in Keys : key[1] = path}
     IN /\ Change(keys, [size EXCEPT ![path] = n])
        /\ Announce([kind |-> "clear"], FALSE, keys, {})

\* A request of this mount that failed for the mount is carried out late: no
\* invalidation follows, and the feed leaves the mount's own changes out.
LateEffect(path, n) ==
  /\ "late" \in Changes
  /\ LET keys == {key \in Keys : key[1] = path}
     IN /\ Change(keys, [size EXCEPT ![path] = n])
        /\ missed' = missed \cup keys
  /\ UNCHANGED pending

-----------------------------------------------------------------------------
(* Invalidations reach the mount, in any order: the feed delivers its own   *)
(* in order, but each upload and request thread delivers for itself.        *)

Raise(news) ==
  floor' = [k \in Keys |-> IF k \in DOMAIN news \ missed' THEN Max({floor[k], news[k]}) ELSE floor[k]]

\* The head of apply_change: with a write pending at or below the path the event
\* is dropped, otherwise it is applied.  writing are the files that have a write
\* in the buffers or an upload in flight at this moment: any, at any time (see
\* WriteBack).
ApplyChange(e, writing) ==
  /\ e.feed
  /\ IF Below(e.inv.path) \cap writing # {}
     THEN pending' = pending \ {e} /\ missed' = missed \cup DOMAIN e.news
     ELSE pending' = (pending \ {e}) \cup {[e EXCEPT !.feed = FALSE]} /\ UNCHANGED missed
  /\ UNCHANGED <<server, store, inflight, task, floor>>

Deliver(e) ==
  /\ ~e.feed
  /\ \/ e.inv.kind = "range" /\ InvalidateRange(e.inv.path, e.inv.offset, e.inv.len)
     \/ e.inv.kind = "path" /\ InvalidatePath(e.inv.path)
     \/ e.inv.kind = "clear" /\ Clear
     \/ e.inv.kind = "where" /\ InvalidateWhere(e.inv.paths, {})
  /\ pending' = pending \ {e}
  /\ Raise(e.news)
  /\ UNCHANGED <<server, inflight, task>>

\* invalidate_tree collects the paths under one lock and invalidates under the
\* next one.  A path below without a cached block is not among them.
CollectTree(e) ==
  /\ ~e.feed /\ e.inv.kind = "tree"
  /\ LET paths == TreePaths(e.inv.path)
     IN /\ pending' = (pending \ {e}) \cup
                        {[e EXCEPT !.inv = [kind |-> "where", paths |-> paths]]}
        /\ missed' = missed \cup Loaded(Below(e.inv.path) \ paths)
  /\ UNCHANGED <<server, store, inflight, task, floor>>

-----------------------------------------------------------------------------
(* Fetching. *)

Idle == [pc |-> "idle"]

Done(key, c, since) == [pc |-> "done", key |-> key, data |-> c, floor |-> since]

\* Inflight::finish: everyone who waits on w's flight goes on.
Wake(tasks, w) ==
  [v \in Workers |-> IF tasks[v].pc = "wait" /\ tasks[v].on = w
                     THEN [tasks[v] EXCEPT !.pc = "woken"] ELSE tasks[v]]

\* A fetch that is under way: of n blocks of path from first on.
Flight(run, path, first, n, since) ==
  [pc |-> "lead", run |-> run, path |-> path, first |-> first, n |-> n, floor |-> since,
   gen |-> 0, data |-> <<>>, pos |-> 1]

RunKeys(t) == {<<t.path, i>> : i \in t.first..(t.first + t.n - 1)}

\* fetch: the block is cached.
FetchHit(w, key) ==
  /\ task[w].pc = "idle"
  /\ GetHit(key)
  /\ task' = [task EXCEPT ![w] = Done(key, blocks[key], floor[key])]
  /\ UNCHANGED <<others, inflight>>

\* fetch: the block is not cached; the store lock is released.
FetchMiss(w, key) ==
  /\ task[w].pc = "idle"
  /\ key \notin DOMAIN blocks
  /\ task' = [task EXCEPT ![w] = [pc |-> "miss", key |-> key, floor |-> floor[key]]]
  /\ UNCHANGED <<others, store, inflight>>

\* fetch, under the inflight lock: lead a flight, or follow the one there is.
FetchClaim(w) ==
  /\ task[w].pc = "miss"
  /\ LET t == task[w] IN
     IF t.key \in DOMAIN inflight
     THEN /\ task' = [task EXCEPT ![w] = [pc |-> "wait", key |-> t.key, floor |-> t.floor,
                                          on |-> inflight[t.key]]]
          /\ UNCHANGED inflight
     ELSE /\ inflight' = [k \in DOMAIN inflight \cup {t.key} |->
                            IF k = t.key THEN w ELSE inflight[k]]
          /\ task' = [task EXCEPT ![w] = Flight(FALSE, t.key[1], t.key[2], 1, t.floor)]
  /\ UNCHANGED <<others, store>>

\* A mutant: fetch_run claims blocks another worker is already fetching.
FetchRunGreedy(w, path, first, count) ==
  /\ task[w].pc = "idle"
  /\ count > 0 /\ <<path, first>> \notin DOMAIN blocks
  /\ LET t == Flight(TRUE, path, first, 1, 0)
     IN /\ task' = [task EXCEPT ![w] = t]
        /\ inflight' = [k \in DOMAIN inflight \cup RunKeys(t) |->
                          IF k \in RunKeys(t) THEN w ELSE inflight[k]]
  /\ UNCHANGED <<others, store>>

\* fetch_run, under both locks: claim blocks from first on up to the first one
\* that is cached or being fetched.  With none to claim it returns.
FetchRun(w, path, first, count) ==
  /\ task[w].pc = "idle"
  /\ \E n \in 1..count :
       LET taken(i) == <<path, i>> \in DOMAIN blocks \/ <<path, i>> \in DOMAIN inflight
           t == Flight(TRUE, path, first, n, 0)
       IN /\ \A i \in first..(first + n - 1) : ~taken(i)
          /\ n = count \/ taken(first + n)
          /\ task' = [task EXCEPT ![w] = t]
          /\ inflight' = [k \in DOMAIN inflight \cup RunKeys(t) |->
                            IF k \in RunKeys(t) THEN w ELSE inflight[k]]
  /\ UNCHANGED <<others, store>>

\* The generation is read before the server is asked.
ReadGeneration(w) ==
  /\ task[w].pc = "lead"
  /\ task' = [task EXCEPT ![w].pc = "read", ![w].gen = generations[task[w].path]]
  /\ UNCHANGED <<others, store, inflight>>

\* read_range: the blocks up to the end of the file.  Bytes that change while
\* the daemon reads them count as old.  fetch turns an empty answer into an
\* empty block (unwrap_or_default); fetch_run has nothing to insert for it.
ServerRead(w) ==
  /\ task[w].pc = "read"
  /\ LET t == task[w]
         block(i) == Content(<<t.path, t.first + i - 1>>)
         got == IF t.run THEN Cardinality({i \in 1..t.n : block(i).len > 0}) ELSE t.n
     IN task' = [task EXCEPT ![w].pc = IF got = 0 THEN "unclaim" ELSE "insert",
                             ![w].data = [i \in 1..got |-> block(i)]]
  /\ UNCHANGED <<others, store, inflight>>

ReadFails(w) ==
  /\ task[w].pc = "read"
  /\ task' = [task EXCEPT ![w].pc = "unclaim"]
  /\ UNCHANGED <<others, store, inflight>>

InsertNext(w) ==
  /\ task[w].pc = "insert"
  /\ LET t == task[w]
     IN /\ Insert(<<t.path, t.first + t.pos - 1>>, t.data[t.pos], t.gen)
        /\ task' = [task EXCEPT ![w].pc = IF t.pos = Len(t.data) THEN "unclaim" ELSE "insert",
                                ![w].pos = t.pos + 1]
  /\ UNCHANGED <<others, inflight>>

\* A mutant: a leader whose read failed leaves without finishing its flight.
UnclaimForgetting(w) ==
  /\ task[w].pc = "unclaim"
  /\ inflight' = Restrict(inflight, DOMAIN inflight \ RunKeys(task[w]))
  /\ task' = IF task[w].run
             THEN [task EXCEPT ![w] = Idle]
             ELSE [task EXCEPT ![w].pc = "finish"]
  /\ UNCHANGED <<others, store>>

\* The flights leave the table.  fetch_run finishes them in the same critical
\* section; fetch releases the lock first.
Unclaim(w) ==
  /\ task[w].pc = "unclaim"
  /\ inflight' = Restrict(inflight, DOMAIN inflight \ RunKeys(task[w]))
  /\ task' = IF task[w].run
             THEN Wake([task EXCEPT ![w] = Idle], w)
             ELSE [task EXCEPT ![w].pc = "finish"]
  /\ UNCHANGED <<others, store>>

\* A mutant: followers are handed the leader's data instead of looking again.
FetchFinishShared(w) ==
  /\ task[w].pc = "finish"
  /\ LET t == task[w]
         end(v) == IF t.data = <<>> THEN Idle
                   ELSE Done(<<t.path, t.first>>, t.data[1], task[v].floor)
     IN task' = [v \in Workers |->
                   IF v = w \/ (task[v].pc = "wait" /\ task[v].on = w) THEN end(v) ELSE task[v]]
  /\ UNCHANGED <<others, store, inflight>>

\* fetch: finish the flight; return the data or the error.
FetchFinish(w) ==
  /\ task[w].pc = "finish"
  /\ LET t == task[w]
         end == IF t.data = <<>> THEN Idle
                ELSE Done(<<t.path, t.first>>, t.data[1], t.floor)
     IN task' = Wake([task EXCEPT ![w] = end], w)
  /\ UNCHANGED <<others, store, inflight>>

\* A follower looks again once the flight has finished.
FollowerHit(w) ==
  /\ task[w].pc = "woken"
  /\ GetHit(task[w].key)
  /\ task' = [task EXCEPT ![w] = Done(@.key, blocks[@.key], @.floor)]
  /\ UNCHANGED <<others, inflight>>

FollowerMiss(w) ==
  /\ task[w].pc = "woken"
  /\ task[w].key \notin DOMAIN blocks
  /\ task' = [task EXCEPT ![w].pc = "direct"]
  /\ UNCHANGED <<others, store, inflight>>

\* It then reads for itself and leaves the cache alone; the read may fail.
FollowerRead(w) ==
  /\ task[w].pc = "direct"
  /\ \/ task' = [task EXCEPT ![w] = Done(@.key, Content(@.key), @.floor)]
     \/ task' = [task EXCEPT ![w] = Idle]
  /\ UNCHANGED <<others, store, inflight>>

Return(w) ==
  /\ task[w].pc = "done"
  /\ task' = [task EXCEPT ![w] = Idle]
  /\ UNCHANGED <<others, store, inflight>>

-----------------------------------------------------------------------------

\* Vfs::start: the cache is empty but for small files that were prefetched and
\* inserted at generation 0 before anything runs.
Init ==
  /\ size \in [Files -> Sizes]
  /\ ver = [k \in Keys |-> 0]
  /\ changes = 0
  /\ pending = {}
  /\ \E small \in SUBSET {p \in Files : size[p] \in 1..BLOCK_SIZE} :
       LET keys == {<<p, 0>> : p \in small} IN
       /\ blocks = [k \in keys |-> [ver |-> 0, len |-> size[k[1]]]]
       /\ lru \in {order \in SUBSET (keys \X keys) : Linear(order, keys)}
       /\ bytes = TotalLen(blocks, DOMAIN blocks)
       /\ bytes <= capacity
  /\ generations = [p \in Files \cup {Dir} |-> 0]
  /\ inflight = [k \in {} |-> Dir]
  /\ task = [w \in Workers |-> Idle]
  /\ floor = [k \in Keys |-> 0] /\ missed = {}

ServerChanges ==
  \/ \E p \in Files, r \in Ranges, feed \in BOOLEAN : WriteFileAt(p, r[1], r[2], feed)
  \/ \E p \in Files, r \in Ranges : NoWrite(p, r[1], r[2])
  \/ \E p \in Files, n \in Sizes, feed \in BOOLEAN : ReplaceFile(p, n, feed)
  \/ \E p \in Files, n \in Sizes : Truncate(p, n) \/ LostEvents(p, n) \/ LateEffect(p, n)
  \/ \E n \in Sizes, feed \in BOOLEAN : ReplaceDir(n, feed)

Starts(w) ==
  \/ \E key \in Keys : FetchHit(w, key) \/ FetchMiss(w, key)
  \/ \E p \in Files, first, last \in Indexes : FetchRun(w, p, first, last + 1 - first)

Goes(w) ==
  \/ FetchClaim(w) \/ ReadGeneration(w) \/ ServerRead(w) \/ ReadFails(w) \/ InsertNext(w)
  \/ Unclaim(w) \/ FetchFinish(w) \/ FollowerHit(w) \/ FollowerMiss(w) \/ FollowerRead(w)
  \/ Return(w)

Next ==
  \/ ServerChanges
  \/ \E e \in pending, writing \in SUBSET Files : ApplyChange(e, writing)
  \/ \E e \in pending : Deliver(e) \/ CollectTree(e)
  \/ \E w \in Workers : Starts(w) \/ Goes(w)

Spec == Init /\ [][Next]_vars

\* A worker that has begun a fetch goes on: nothing in it blocks but the wait
\* for a flight, and a server read ends with an answer or an error.
Fairness == \A w \in Workers : WF_vars(Goes(w))

FairSpec == Spec /\ Fairness

-----------------------------------------------------------------------------
(* Properties. *)

Contents == [ver : Nat, len : 0..BLOCK_SIZE]

\* Types of the cache's variables, and of the history variable.
TypeOK ==
  /\ size \in [Files -> 0..MaxSize]
  /\ ver \in [Keys -> 0..MaxChanges] /\ floor \in [Keys -> 0..MaxChanges]
  /\ DOMAIN blocks \subseteq Keys /\ \A k \in DOMAIN blocks : blocks[k] \in Contents
  /\ generations \in [Files \cup {Dir} -> 0..MaxChanges]
  /\ DOMAIN inflight \subseteq Keys /\ \A k \in DOMAIN inflight : inflight[k] \in Workers
  /\ bytes \in Nat /\ missed \subseteq Keys

\* insert, eviction and the invalidations keep bytes equal to what is cached,
\* within capacity, and lru an order of exactly the cached blocks; otherwise the
\* cache would shrink, grow without bound or evict what it does not hold.
Accounting ==
  /\ bytes = TotalLen(blocks, DOMAIN blocks)
  /\ bytes <= capacity
  /\ Linear(lru, DOMAIN blocks)

\* fetch and fetch_run share one table of flights: a block has one fetcher at a
\* time, and that fetcher is in the middle of a fetch that covers it.
SingleFlight ==
  /\ \A k \in DOMAIN inflight :
       LET t == task[inflight[k]]
       IN t.pc \in {"lead", "read", "insert", "unclaim"} /\ k \in RunKeys(t)
  /\ \A w \in Workers : task[w].pc \in {"lead", "read", "insert", "unclaim"} =>
       \A k \in RunKeys(task[w]) : k \in DOMAIN inflight /\ inflight[k] = w

\* A cached block that differs from the server's is one the mount is still to
\* be told about: once its invalidation has been delivered no fetch that was
\* under way may put the old content back (generations).  The exceptions are
\* those of missed, which last until the block is invalidated for another reason:
\* the block is in the gap that a write left behind the old end of the file; its
\* event came while a write at or below the path was pending; a tree or the whole
\* cache was invalidated while the block was on its way into the cache and no
\* other block of its file was there; or a failed request took effect later.
Coherent ==
  \A k \in DOMAIN blocks \ missed :
    blocks[k] # Content(k) => \E e \in pending : k \in DOMAIN e.news

\* A fetch never returns content older than what had been announced to the
\* mount before the fetch began, whichever of leader, follower or cache hit it
\* turns out to be.  A block that is missed when it is announced counts from its
\* next invalidation on.
ReadsAnnounced ==
  \A w \in Workers : task[w].pc = "done" => task[w].data.ver >= task[w].floor

\* Every fetch ends: a follower is woken by its leader, whatever becomes of the
\* leader's read, also when a new flight for the block starts meanwhile.
FetchEnds == \A w \in Workers : task[w].pc = "miss" ~> task[w].pc = "idle"
=============================================================================
