----------------------------- MODULE Namespace ------------------------------
(***************************************************************************)
(* The attribute cache (metas) and the directory cache (dirs) of the mount *)
(* core (vfs.rs) against the server's tree: the handlers that fill them,   *)
(* the mutations of the mount, its buffered writes, and the change feed    *)
(* that invalidates them.                                                  *)
(*                                                                         *)
(* A mutation runs on the session thread: it changes the server, then the  *)
(* attributes, then the listings, each under its own lock.  Lookups and    *)
(* readdirs that miss the caches run on worker threads: they ask the       *)
(* server and store the answer later.  Changes made by others are queued   *)
(* by the feed and applied one by one; the mount's own are not sent back.  *)
(* The caches have no generations: an answer is stored whatever happened   *)
(* since it was given.  The stats that create, rename and setattr make     *)
(* before or after their mutation are answers of this kind, too.           *)
(*                                                                         *)
(* Entries differ in kind and in a version, which stands for all           *)
(* attributes.  A listing holds its entries' kinds; the attributes in it   *)
(* are left out.  tainted is a history of the cache keys whose contents    *)
(* were stored or kept in one of the ways the code does not guard:         *)
(*   an answer or a mutation overtaken by the invalidation of its key,     *)
(*   an event skipped because of a pending write, an answer stored while a *)
(*   write in a thread's hands is not seen, a failed upload, a write that  *)
(*   a removal drops before the server may refuse it,                      *)
(*   a write, truncation or mkdir whose target had gone or was there, a    *)
(*   mutation of a file whose buffered write the flush has not waited for, *)
(*   attributes guessed for an entry that is not cached,                   *)
(*   a rename that moves entries whose events still name the old path, or  *)
(*   whose source had gone, or that lists the new path with attributes of  *)
(*   one of these kinds,                                                   *)
(*   a mutation that succeeds only through the replay of its record, whose *)
(*   refusal nobody sees, and the effect that a request which failed in    *)
(*   transport has later, by its old handler or by a replay.               *)
(***************************************************************************)
EXTENDS Naturals, Sequences, FiniteSets, SequencesExt

CONSTANTS Labels,       \* names of directory entries
          Paths,        \* paths of the tree: sequences of names, parents included
          Readers,      \* worker threads
          InitTrees,    \* trees on the server when the mount starts
          MaxVersion,   \* bound: changes of the tree
          MaxReads      \* bound: answers a worker asks for

VARIABLES server, clock,   \* the tree, and the last version given
          metas, dirs,     \* the caches
          pending,         \* buffered or uploading writes: what they will leave
          feed,            \* events on their way
          main,            \* the session thread
          reader,          \* the workers
          late,            \* requests of mutations that failed in transport
          tainted

caches == <<metas, dirs>>
vars == <<server, clock, metas, dirs, pending, feed, main, reader, late, tainted>>

Root == <<>>
None == [dir |-> FALSE, ver |-> 0]
File(v) == [dir |-> FALSE, ver |-> v]
Dir(v) == [dir |-> TRUE, ver |-> v]
Entries == [dir : BOOLEAN, ver : 0..MaxVersion]

Under(p) == {q \in Paths : IsPrefix(p, q)}
Children(d) == {p \in Paths : Front(p) = d}
DirPaths == {d \in Paths \cup {Root} : Children(d) # {}}
DirsOf(tree) == {Root} \cup {p \in Paths : tree[p].dir}
Moved(from, to, q) == to \o SubSeq(q, Len(from) + 1, Len(q))
Ancestors(p) == {q \in Paths : IsStrictPrefix(q, p)}
Apart(from, to) == ~IsPrefix(from, to) /\ ~IsPrefix(to, from) /\ Len(from) = Len(to)

\* What is in a directory may be moved to any other place of the same depth.
ASSUME PathsAssumption ==
  /\ Paths \subseteq Seq(Labels) /\ Root \notin Paths
  /\ \A p \in Paths : Front(p) \in Paths \cup {Root}
  /\ \A p, q \in Paths : Apart(p, q) => \A s \in Under(p) : Moved(p, q, s) \in Paths

\* Every entry is in directories only.
IsTree(tree) ==
  /\ tree \in [Paths -> Entries]
  /\ \A p \in Paths : tree[p] # None => \A q \in Ancestors(p) : tree[q].dir

ASSUME TreesAssumption ==
  /\ MaxVersion \in Nat \ {0} /\ MaxReads \in Nat
  /\ \A tree \in InitTrees : IsTree(tree)

Kind(e) == IF e = None THEN "none" ELSE IF e.dir THEN "dir" ELSE "file"
NoListing == <<>>
Listing(tree, d) == [p \in Children(d) |-> Kind(tree[p])]

-----------------------------------------------------------------------------
(* Cache keys and the events that cover them. *)

MetaKeys(S) == {<<"meta", p>> : p \in S}
DirKeys(S) == {<<"dir", d>> : d \in S \cap DirPaths}
TreeKeys(p) == MetaKeys(Under(p)) \cup DirKeys(Under(p) \cup {Front(p)})
Keys == MetaKeys(Paths) \cup DirKeys(DirPaths)

EventKeys(e) ==
  CASE e.kind = "reset" -> Keys
    [] e.kind = "replaced" -> TreeKeys(e.path)
    [] e.kind = "changed" -> {<<"meta", e.path>>} \cup DirKeys({Front(e.path)})

Covered(key) == \E i \in 1..Len(feed) : key \in EventKeys(feed[i])

\* A write below p is pending.  has_pending_write finds it in its buffer or
\* among the uploads, and misses it in the hands of the thread that takes it
\* from the one to the other.
HasPending(p) == \E q \in Under(p) : pending[q] # None

\* The keys an answer under way is about.
Wanted(r) ==
  CASE reader[r].pc = "idle" -> {}
    [] reader[r].pc = "stat" -> {<<"meta", reader[r].path>>}
    [] reader[r].pc = "list" -> DirKeys({reader[r].path}) \cup MetaKeys(DOMAIN reader[r].left)
    [] reader[r].pc = "entries" -> MetaKeys(DOMAIN reader[r].left)

\* The keys are invalidated, or written by a mutation: answers given before
\* that are overtaken.
Overtake(K) ==
  reader' = [r \in Readers |-> [reader[r] EXCEPT !.dirty = @ \cup (K \cap Wanted(r))]]

Idle == [pc |-> "idle", op |-> "none", path |-> Root, to |-> Root, old |-> None,
         new |-> None, keys |-> {}, dirty |-> {}]
NoAnswer == [pc |-> "idle", path |-> Root, stat |-> None, list |-> NoListing,
             left |-> [p \in {} |-> None], dirty |-> {}, reads |-> 0]
Fresh(r) == [NoAnswer EXCEPT !.reads = reader[r].reads]


Init ==
  /\ server \in InitTrees
  /\ clock = 1
  /\ metas = server
  /\ dirs = [d \in DirPaths |-> IF d \in DirsOf(server) THEN Listing(server, d)
                                ELSE NoListing]
  /\ pending = [p \in Paths |-> None]
  /\ feed = <<>>
  /\ main = Idle
  /\ reader = [r \in Readers |-> NoAnswer]
  /\ late = {} /\ tainted = {}

-----------------------------------------------------------------------------
(* The server's tree (daemon.rs). *)

Blocked(p) == \E q \in Ancestors(p) : server[q] # None /\ ~server[q].dir

\* create_dir_all of the parent, then the entry itself.
MakeParents(p) ==
  [q \in Paths |-> IF q \in Ancestors(p) /\ server[q] = None THEN Dir(clock') ELSE server[q]]
Put(p, e) == [MakeParents(p) EXCEPT ![p] = e]

\* The keys of directories that MakeParents brings into being.
Revived(p) == UNION {TreeKeys(q) : q \in {a \in Ancestors(p) : server[a] = None}}

\* Mutant: what is below a removed entry stays.
CutOne(p) == [server EXCEPT ![p] = None]

Cut(p) == [q \in Paths |-> IF q \in Under(p) THEN None ELSE server[q]]

MoveTree(f, from, to, none) ==
  [q \in DOMAIN f |->
     IF q \in Under(to)
     THEN LET s == Moved(to, from, q) IN IF s \in DOMAIN f THEN f[s] ELSE none
     ELSE IF q \in Under(from) THEN none ELSE f[q]]

Empty(p) == \A q \in Under(p) \ {p} : server[q] = None

MayRename(from, to) ==
  \/ server[to] = None
  \/ ~server[from].dir /\ ~server[to].dir
  \/ server[from].dir /\ server[to].dir /\ Empty(to)

Tick == clock < MaxVersion /\ clock' = clock + 1

\* Other mounts and the server's own users.
Event(kind, p) == [kind |-> kind, path |-> p]

RemoteChange(p) ==
  /\ Tick /\ server[p] # None
  /\ server' = [server EXCEPT ![p].ver = clock']
  /\ feed' = Append(feed, Event("changed", p))
  /\ UNCHANGED <<caches, pending, main, reader, late, tainted>>

RemoteCreate(p) ==
  /\ Tick /\ server[p] = None
  /\ Front(p) \in DirsOf(server)
  /\ \E e \in {File(clock')} \cup (IF p \in DirPaths THEN {Dir(clock')} ELSE {}) :
       server' = [server EXCEPT ![p] = e]
  /\ feed' = Append(feed, Event("replaced", p))
  /\ UNCHANGED <<caches, pending, main, reader, late, tainted>>

RemoteRemove(p) ==
  /\ Tick /\ server[p] # None
  /\ server' = Cut(p)
  /\ feed' = Append(feed, Event("replaced", p))
  /\ UNCHANGED <<caches, pending, main, reader, late, tainted>>

RemoteRename(from, to) ==
  /\ Tick /\ server[from] # None /\ Apart(from, to) /\ MayRename(from, to)
  /\ Front(to) \in DirsOf(server)
  /\ server' = MoveTree(server, from, to, None)
  /\ feed' = feed \o <<Event("replaced", from), Event("replaced", to)>>
  /\ UNCHANGED <<caches, pending, main, reader, late, tainted>>

\* The daemon's log overflows or the daemon restarts: the feed answers "reset".
LoseEvents ==
  /\ feed # <<>> /\ Head(feed).kind # "reset"
  /\ feed' = <<Event("reset", Root)>>
  /\ UNCHANGED <<server, clock, caches, pending, main, reader, late, tainted>>

-----------------------------------------------------------------------------
(* The feed thread. *)

DropMetas(K) == [p \in Paths |-> IF <<"meta", p>> \in K THEN None ELSE metas[p]]
DropDirs(K) == [d \in DirPaths |-> IF <<"dir", d>> \in K THEN NoListing ELSE dirs[d]]

\* Whatever is under way is overtaken by what happened to the keys K.
OvertakeAll(K) ==
  /\ Overtake(K)
  /\ main' = IF main.pc \in {"metas", "dirs"} THEN [main EXCEPT !.dirty = @ \cup (K \cap main.keys)] ELSE main

\* Mutant: the event drops the attributes, the listing of the parent stays.
ApplyChangeToMetas ==
  LET e == Head(feed)
      K == EventKeys(e)
  IN /\ feed # <<>> /\ e.kind # "reset"
     /\ \/ /\ HasPending(e.path)
           /\ tainted' = tainted \cup K
           /\ UNCHANGED metas
        \/ /\ metas' = DropMetas(K)
           /\ tainted' = tainted \ K
     /\ OvertakeAll(K)
     /\ feed' = Tail(feed)
     /\ UNCHANGED <<server, clock, dirs, pending, late>>

\* apply_change: attributes of the path, or of its subtree, and the listing of
\* its parent are dropped; nothing is done when a pending write is found.
ApplyChange ==
  LET e == Head(feed)
      K == EventKeys(e)
  IN /\ feed # <<>> /\ e.kind # "reset"
     /\ \/ /\ HasPending(e.path)
           /\ tainted' = tainted \cup K
           /\ UNCHANGED caches
        \/ /\ metas' = DropMetas(K)
           /\ dirs' = DropDirs(K)
           /\ tainted' = tainted \ K
     /\ OvertakeAll(K)
     /\ feed' = Tail(feed)
     /\ UNCHANGED <<server, clock, pending, late>>

\* invalidate_all keeps the attributes of files with a buffered write.
InvalidateAll ==
  /\ feed # <<>> /\ Head(feed).kind = "reset"
  /\ \E kept \in SUBSET {p \in Paths : pending[p] # None} :
       /\ metas' = DropMetas(Keys \ MetaKeys(kept))
       /\ tainted' = MetaKeys(kept)
  /\ dirs' = DropDirs(Keys)
  /\ OvertakeAll(Keys)
  /\ feed' = Tail(feed)
  /\ UNCHANGED <<server, clock, pending, late>>

-----------------------------------------------------------------------------
(* The workers: lookup, getattr and readdir that miss the caches. *)

\* stat_remote: the server's answer ...
StatRead(r, p) ==
  /\ reader[r].pc = "idle" /\ metas[p] = None /\ reader[r].reads < MaxReads
  /\ reader' = [reader EXCEPT ![r] = [NoAnswer EXCEPT !.pc = "stat", !.path = p, !.stat = server[p],
                                                      !.reads = reader[r].reads + 1]]
  /\ UNCHANGED <<server, clock, caches, pending, feed, main, late, tainted>>

\* What storing entry e for path p leaves, if the thread has been overtaken on
\* the keys of dirty, or the write that e lacks is still to come.
StoreMeta(p, e, dirty) ==
  LET key == <<"meta", p>>
  IN /\ metas' = [metas EXCEPT ![p] = e]
     /\ tainted' = IF e # None /\ (key \in dirty \/ pending[p] # None)
                   THEN tainted \cup {key} ELSE tainted \ {key}

\* A pending write is looked for before the answer is stored, not at the time,
\* and may not be found.
StoreUnlessPending(p, e, dirty) ==
  \/ StoreMeta(p, e, dirty)
  \/ /\ e # None /\ HasPending(p)
     /\ UNCHANGED <<metas, tainted>>

\* ... is stored: attributes, or their removal.
StatStore(r) ==
  /\ reader[r].pc = "stat"
  /\ StoreUnlessPending(reader[r].path, reader[r].stat, reader[r].dirty)
  /\ reader' = [reader EXCEPT ![r] = Fresh(r)]
  /\ UNCHANGED <<server, clock, dirs, pending, feed, main, late>>

\* list_dir: the server's answer, the listing, and the attributes one by one.
ListRead(r, d) ==
  /\ reader[r].pc = "idle" /\ dirs[d] = NoListing /\ reader[r].reads < MaxReads
  /\ d \in DirsOf(server)
  /\ reader' = [reader EXCEPT ![r] =
                  [NoAnswer EXCEPT !.pc = "list", !.path = d, !.list = Listing(server, d),
                     !.reads = reader[r].reads + 1,
                     !.left = [p \in {q \in Children(d) : server[q] # None} |-> server[p]]]]
  /\ UNCHANGED <<server, clock, caches, pending, feed, main, late, tainted>>

ListStore(r) ==
  LET d == reader[r].path
      key == <<"dir", d>>
  IN /\ reader[r].pc = "list"
     /\ dirs' = [dirs EXCEPT ![d] = reader[r].list]
     /\ tainted' = IF key \in reader[r].dirty THEN tainted \cup {key} ELSE tainted \ {key}
     /\ reader' = [reader EXCEPT ![r].pc = "entries", ![r].list = NoListing, ![r].dirty = @ \ {key}]
     /\ UNCHANGED <<server, clock, metas, pending, feed, main, late>>

ListEntry(r) ==
  /\ reader[r].pc = "entries" /\ DOMAIN reader[r].left # {}
  /\ \E p \in DOMAIN reader[r].left :
       /\ StoreUnlessPending(p, reader[r].left[p], reader[r].dirty)
       /\ reader' = [reader EXCEPT ![r].left = [q \in DOMAIN @ \ {p} |-> @[q]],
                                   ![r].dirty = @ \ {<<"meta", p>>}]
  /\ UNCHANGED <<server, clock, dirs, pending, feed, main, late>>

ListDone(r) ==
  /\ reader[r].pc = "entries" /\ DOMAIN reader[r].left = {}
  /\ reader' = [reader EXCEPT ![r] = Fresh(r)]
  /\ UNCHANGED <<server, clock, caches, pending, feed, main, late, tainted>>

-----------------------------------------------------------------------------
(* Buffered writes. *)

\* write: note_local_write sets the attributes, or guesses them.
LocalWrite(p) ==
  /\ main.pc = "idle" /\ Tick
  /\ Kind(metas[p]) = "file" \/ (metas[p] = None /\ Kind(server[p]) = "file")
  /\ pending' = [pending EXCEPT ![p] = File(clock')]
  /\ metas' = [metas EXCEPT ![p] = File(clock')]
  /\ tainted' = IF metas[p] = None THEN tainted \cup {<<"meta", p>>} ELSE tainted
  /\ Overtake({<<"meta", p>>})
  /\ UNCHANGED <<server, dirs, feed, main, late>>

\* The upload ends: the daemon writes the file, which it creates where it has
\* gone, or fails.
Upload(p) ==
  LET fails == server[p].dir \/ Blocked(p)
      gone == server[p] = None
      K == {<<"meta", p>>} \cup (IF gone THEN TreeKeys(p) \cup Revived(p) ELSE {})
  IN /\ pending[p] # None
     /\ pending' = [pending EXCEPT ![p] = None]
     /\ UNCHANGED clock
     /\ server' = IF fails THEN server ELSE Put(p, pending[p])
     /\ tainted' = IF fails \/ gone THEN tainted \cup K ELSE tainted
     /\ OvertakeAll(K)
     /\ UNCHANGED <<caches, feed, late>>

-----------------------------------------------------------------------------
(* Mutations. *)

Believed(p) ==
  IF metas[p] # None THEN Kind(metas[p]) ELSE Kind(server[p])
InDir(p) == Front(p) \in DirsOf(metas) \cup DirsOf(server)
\* known_absent, or an answer of the server.
SaidAbsent(p) ==
  /\ metas[p] = None
  /\ server[p] = None \/ (dirs[Front(p)] # NoListing /\ dirs[Front(p)][p] = "none")

Begin(op, p, to, pc) ==
  /\ main.pc = "idle"
  /\ main' = [Idle EXCEPT !.pc = pc, !.op = op, !.path = p, !.to = to]
  /\ UNCHANGED <<server, clock, caches, pending, feed, reader, late, tainted>>

\* What the kernel asks for depends on what the mount has told it.  create
\* stands for symlink too.
Create(p) ==
  /\ InDir(p)
  /\ Begin("create", p, Root, "server")

Mkdir(p) ==
  /\ InDir(p) /\ SaidAbsent(p)
  /\ Begin("mkdir", p, Root, "server")

\* setattr flushes the file first, and rename both paths: but flush_matching
\* does not wait for a write in another thread's hands.
Setattr(p, op) ==
  /\ Believed(p) # "none"
  /\ op = "truncate" => Believed(p) = "file"
  /\ Begin(op, p, Root, "server")

\* rmdir looks first.
RemoveEntry(p) ==
  /\ Believed(p) # "none"
  /\ \/ Believed(p) = "dir" /\ Begin("rmdir", p, Root, "check")
     \/ Believed(p) = "file" /\ Begin("unlink", p, Root, "drop")

Rename(from, to) ==
  /\ Apart(from, to) /\ Believed(from) # "none" /\ InDir(to)
  /\ Begin("rename", from, to, "server")

\* rmdir lists the directory on the server.
RmdirCheck ==
  /\ main.pc = "check"
  /\ main' = IF server[main.path].dir /\ Empty(main.path)
             THEN [main EXCEPT !.pc = "drop"] ELSE Idle
  /\ UNCHANGED <<server, clock, caches, pending, feed, reader, late, tainted>>

\* remove forgets the writes buffered below the path and waits for the path's
\* uploads, whose result nobody then looks at; other writes are left.
DropWrites ==
  /\ main.pc = "drop"
  /\ \E S \in SUBSET Under(main.path) :
       LET lost == MetaKeys({q \in S : pending[q] # None})
       IN /\ pending' = [q \in Paths |-> IF q \in S THEN None ELSE pending[q]]
          /\ tainted' = tainted \cup lost
          /\ Overtake(lost)
  /\ main' = [main EXCEPT !.pc = "server"]
  /\ UNCHANGED <<server, clock, caches, feed, late>>

\* A request m, the one of main or an earlier one: the daemon refuses it (the
\* file system's errors) ...
Refuses(m) ==
  LET p == m.path
  IN CASE m.op \in {"create", "truncate"} -> server[p].dir \/ Blocked(p)
       [] m.op = "mkdir" -> Kind(server[p]) = "file" \/ Blocked(p)
       [] m.op = "chmod" -> server[p] = None
       [] m.op = "unlink" -> server[p].dir
       [] m.op = "rmdir" -> FALSE
       [] m.op = "rename" -> Blocked(m.to) \/ (server[p] # None /\ ~MayRename(p, m.to))

\* ... or carries it out.
Effect(m) ==
  LET p == m.path
  IN CASE m.op \in {"create", "truncate"} -> Put(p, File(clock'))
       [] m.op = "mkdir" -> Put(p, Dir(clock'))
       [] m.op = "chmod" -> [server EXCEPT ![p].ver = clock']
       [] m.op \in {"unlink", "rmdir"} -> Cut(p)
       [] m.op = "rename" ->
            IF server[p] = None THEN MakeParents(m.to)
            ELSE MoveTree(MakeParents(m.to), p, m.to, None)

\* The keys a mutation is about, and the ones it brings into doubt.
OpKeys(m) ==
  LET p == m.path
  IN CASE m.op \in {"chmod", "truncate"} -> {<<"meta", p>>}
       [] m.op = "create" -> {<<"meta", p>>} \cup DirKeys({Front(p)})
       [] m.op = "mkdir" -> {<<"meta", p>>} \cup DirKeys({p, Front(p)})
       [] m.op \in {"unlink", "rmdir"} -> TreeKeys(p)
       [] m.op = "rename" -> TreeKeys(p) \cup TreeKeys(m.to)

Unwritten(S) == MetaKeys({q \in S : pending[q] # None})

Doubts(m) ==
  LET p == m.path
      found == IF server[p] # None THEN DirKeys({p}) ELSE {}
  IN CASE m.op \in {"unlink", "rmdir"} -> {}
       [] m.op = "chmod" -> Unwritten({p})
       [] m.op = "truncate" ->
            Unwritten({p}) \cup (IF server[p] = None THEN TreeKeys(p) \cup Revived(p) ELSE {})
       [] m.op = "create" -> Revived(p) \cup Unwritten({p})
       [] m.op = "mkdir" -> Revived(p) \cup Unwritten({p}) \cup found
       [] m.op = "rename" ->
            Revived(m.to) \cup Unwritten(Under(p) \cup Under(m.to))
            \cup (IF server[p] = None THEN TreeKeys(m.to) ELSE {})

Answered(new, dirty) ==
  main' = [main EXCEPT !.pc = "metas", !.old = server[main.path], !.new = new,
                       !.keys = OpKeys(main), !.dirty = dirty]

\* mutate: the request is refused, or carried out.
ServerOp ==
  /\ main.pc = "server" /\ Tick
  /\ \/ /\ Refuses(main)
        /\ main' = Idle
        /\ UNCHANGED <<server, reader, tainted>>
     \/ /\ ~Refuses(main)
        /\ server' = Effect(main)
        /\ Answered(server'[main.path], Doubts(main))
        /\ tainted' = tainted \cup Doubts(main)
        /\ Overtake(Doubts(main))
  /\ UNCHANGED <<caches, pending, feed, late>>

\* mutate: the request fails in transport.  The recovery fails too, which is an
\* error for the caller, or ends with the record replayed or refused, which is
\* a success: the caches follow what was asked for.
Request(m) == [op |-> m.op, path |-> m.path, to |-> m.to]

TransportFails ==
  /\ main.pc = "server" /\ Tick
  /\ late' = late \cup {Request(main)}
  /\ \/ /\ main' = Idle
        /\ UNCHANGED <<reader, tainted>>
     \/ /\ Answered(Effect(main)[main.path], OpKeys(main))
        /\ tainted' = tainted \cup OpKeys(main)
        /\ Overtake(OpKeys(main))
  /\ UNCHANGED <<server, caches, pending, feed>>

\* A request that failed in transport takes effect: at once or later, by its
\* handler on the old connection or by a replay of its record, which may leave
\* out a part of it (the mode).  It stands as well for the first request of a
\* create or mkdir whose second one is refused: an error, with an effect.
LateEffect(m) ==
  LET K == OpKeys(m) \cup Doubts(m)
  IN /\ Tick /\ ~Refuses(m)
     /\ server' = Effect(m)
     /\ tainted' = tainted \cup K
     /\ OvertakeAll(K)
     /\ UNCHANGED <<caches, pending, feed, late>>

\* The attributes, once the server has answered.
NewMetas ==
  LET p == main.path
  IN CASE main.op \in {"create", "mkdir"} -> [metas EXCEPT ![p] = main.new]
       [] main.op \in {"chmod", "truncate"} ->
            [metas EXCEPT ![p] = IF @ = main.old /\ @ # None THEN main.new
                                 ELSE IF @ = None /\ main.op = "truncate" THEN main.new
                                 ELSE @]
       [] main.op \in {"unlink", "rmdir"} -> DropMetas(TreeKeys(p))
       [] main.op = "rename" -> MoveTree(metas, p, main.to, None)

\* Keys that hold more than the server's answer vouches for.
SuspectMetas ==
  LET p == main.path
      stale(from) == from \in tainted \cup main.dirty \/ Covered(from)
  IN CASE main.op \in {"create", "mkdir"} -> {<<"meta", p>>} \cap main.dirty
       [] main.op \in {"chmod", "truncate"} ->
            {key \in {<<"meta", p>>} :
               key \in main.dirty \/ key \in tainted
               \/ (metas[p] = None /\ main.op = "truncate")}
       [] main.op \in {"unlink", "rmdir"} -> {}
       [] main.op = "rename" ->
            {key \in MetaKeys(Under(main.to)) :
               key \in main.dirty \/ stale(<<"meta", Moved(main.to, p, key[2])>>)}

MutateMetas ==
  LET K == {key \in main.keys : key[1] = "meta"}
  IN /\ main.pc = "metas"
     /\ metas' = NewMetas
     /\ tainted' = (tainted \ K) \cup SuspectMetas
     /\ Overtake(K)
     /\ main' = IF main.op \in {"chmod", "truncate"} THEN Idle
                ELSE [main EXCEPT !.pc = "dirs"]
     /\ UNCHANGED <<server, clock, dirs, pending, feed, late>>

\* dir_upsert and dir_remove change a listing only where there is one.
Relist(f, p, kind) ==
  IF f[Front(p)] = NoListing THEN f ELSE [f EXCEPT ![Front(p)][p] = kind]

\* The listings.
MovedDirs(from, to) ==
  LET moved == MoveTree(dirs, from, to, NoListing)
  IN [d \in DirPaths |->
        IF d \in Under(to) /\ moved[d] # NoListing
        THEN [p \in Children(d) |-> moved[d][Moved(to, from, p)]]
        ELSE moved[d]]

NewDirs ==
  LET p == main.path
      to == main.to
  IN CASE main.op = "create" -> Relist(dirs, p, "file")
       [] main.op = "mkdir" -> [Relist(dirs, p, "dir") EXCEPT ![p] = [q \in Children(p) |-> "none"]]
       [] main.op \in {"unlink", "rmdir"} ->
            Relist(DropDirs(DirKeys(Under(p))), p, "none")
       [] main.op = "rename" ->
            LET f == Relist(MovedDirs(p, to), p, "none")
            IN IF metas[to] # None THEN Relist(f, to, Kind(metas[to]))
               ELSE [f EXCEPT ![Front(to)] = NoListing]

SuspectDirs ==
  LET p == main.path
      stale(from) == from \in tainted \cup main.dirty \/ Covered(from)
  IN CASE main.op \in {"create", "unlink", "rmdir"} -> DirKeys({Front(p)}) \cap main.dirty
       [] main.op = "mkdir" -> DirKeys({p, Front(p)}) \cap main.dirty
       [] main.op = "rename" ->
            {key \in DirKeys(Under(main.to)) :
               key \in main.dirty \/ stale(<<"dir", Moved(main.to, p, key[2])>>)}
            \cup (DirKeys({Front(p), Front(main.to)}) \cap main.dirty)
            \cup (IF <<"meta", main.to>> \in tainted THEN DirKeys({Front(main.to)}) ELSE {})

\* The listings that the step replaces or drops as a whole.
WholeDirs ==
  CASE main.op = "mkdir" -> DirKeys({main.path})
    [] main.op \in {"unlink", "rmdir"} -> DirKeys(Under(main.path))
    [] main.op = "rename" -> DirKeys(Under(main.path) \cup Under(main.to))
    [] main.op = "create" -> {}

\* The code takes the lock of the listings up to three times for one mutation;
\* here it is one step.
MutateDirs ==
  LET K == {key \in main.keys : key[1] = "dir"}
  IN /\ main.pc = "dirs"
     /\ dirs' = NewDirs
     /\ tainted' = (tainted \ WholeDirs) \cup SuspectDirs
     /\ Overtake(K)
     /\ main' = Idle
     /\ UNCHANGED <<server, clock, metas, pending, feed, late>>

\* dispatch_pending asks the inode table for the path of the write it carries:
\* a rename of the file on its way takes the write along.
CarryWrite(q) ==
  LET to == Moved(main.path, main.to, q)
      K == MetaKeys({q, to})
  IN /\ main.pc = "dirs" /\ main.op = "rename"
     /\ q \in Under(main.path) /\ pending[q] # None
     /\ pending' = [pending EXCEPT ![q] = None, ![to] = pending[q]]
     /\ tainted' = tainted \cup K
     /\ Overtake(K)
     /\ UNCHANGED <<server, clock, caches, feed, main, late>>

-----------------------------------------------------------------------------
RemoteStep ==
  \/ \E p \in Paths : RemoteChange(p) \/ RemoteCreate(p) \/ RemoteRemove(p)
  \/ \E p, q \in Paths : RemoteRename(p, q)

ReaderStep(r) ==
  \/ \E p \in Paths : StatRead(r, p)
  \/ \E d \in DirPaths : ListRead(r, d)
  \/ StatStore(r) \/ ListStore(r) \/ ListEntry(r) \/ ListDone(r)

MainStep ==
  \/ \E p \in Paths :
       \/ Create(p) \/ RemoveEntry(p)
       \/ Setattr(p, "chmod") \/ Setattr(p, "truncate")
       \/ LocalWrite(p) \/ CarryWrite(p)
  \/ \E p \in Paths \cap DirPaths : Mkdir(p)
  \/ \E p, q \in Paths : Rename(p, q)
  \/ RmdirCheck \/ DropWrites \/ ServerOp \/ TransportFails \/ MutateMetas \/ MutateDirs

Next ==
  \/ RemoteStep \/ LoseEvents
  \/ ApplyChange \/ InvalidateAll
  \/ MainStep
  \/ \E p \in Paths : Upload(p)
  \/ \E m \in late : LateEffect(m)
  \/ \E r \in Readers : ReaderStep(r)

Spec == Init /\ [][Next]_vars

-----------------------------------------------------------------------------
(* Properties. *)

\* The types, and the server's tree is one: every entry is in a directory.
TypeOK ==
  /\ server \in [Paths -> Entries] /\ metas \in [Paths -> Entries]
  /\ pending \in [Paths -> Entries] /\ clock \in 0..MaxVersion
  /\ \A d \in DirPaths :
       dirs[d] = NoListing \/ dirs[d] \in [Children(d) -> {"none", "file", "dir"}]
  /\ \A i \in 1..Len(feed) : feed[i].kind \in {"changed", "replaced", "reset"}
  /\ main.pc \in {"idle", "check", "drop", "server", "metas", "dirs"}
  /\ main.keys \subseteq Keys /\ main.dirty \subseteq Keys
  /\ \A r \in Readers : reader[r].pc \in {"idle", "stat", "list", "entries"}
  /\ tainted \subseteq Keys
  /\ \A m \in late : m.path \in Paths /\ m.to \in Paths \cup {Root}
  /\ \A p \in Paths : server[p] # None => Front(p) \in DirsOf(server)

Excused(key) ==
  key \in tainted \/ Covered(key) \/ (main.pc \in {"metas", "dirs"} /\ key \in main.keys)

\* Cached attributes and listings agree with the server, unless an event about
\* them is on its way, the mount's own write or mutation is under way, or they
\* were stored or kept in one of the unguarded ways listed above: nothing else
\* that mounts, workers, feed and mutations do together leaves a stale entry.
Coherent ==
  /\ \A p \in Paths :
       metas[p] \notin {None, server[p]} /\ pending[p] = None => Excused(<<"meta", p>>)
  /\ \A d \in DirPaths :
       dirs[d] \notin {NoListing, Listing(server, d)} => Excused(<<"dir", d>>)
=============================================================================
