----------------------------- MODULE MirrorSync -----------------------------
(* Mirror mode: the pull, push, sync, watch and serve commands of sync.rs,  *)
(* which reconcile a local tree with a remote one (the daemon's or a folder *)
(* of a provider) against a base snapshot kept in .mobfs.                   *)
(*                                                                          *)
(* A version is the number of the edit that wrote it; it stands for size,   *)
(* hash and bytes of a file.  Time is in seconds, as in EntryMeta.modified. *)
(* A path keeps its kind: a directory of Dirs, or a file, at the top or in  *)
(* a directory.  Symbolic links are planned like files and left out.  A     *)
(* scan is one step.                                                        *)
EXTENDS Integers

CONSTANTS
  Paths,        \* all paths
  Position,     \* [Paths -> place in the order of the BTreeMap keys]
  Dirs,         \* the paths that are directories
  DirOf,        \* [files -> Dirs or Top]
  Top,
  Commands,     \* the commands in use: records of op, --delete and --dry-run;
                \* watch is a push for every burst of local events
  Quiet,        \* TRUE: nobody edits while a command runs
  MaxEdits, MaxNow

Files == Paths \ Dirs
Sides == {"local", "remote"}
Other(s) == IF s = "local" THEN "remote" ELSE "local"

ASSUME PathsAssumption ==
  /\ Dirs \subseteq Paths /\ Top \notin Paths
  /\ DirOf \in [Files -> Dirs \cup {Top}]
  /\ Position \in [Paths -> Nat]
  /\ \A p, q \in Paths : p # q => Position[p] # Position[q]
  /\ \A p \in Files : DirOf[p] # Top => Position[DirOf[p]] < Position[p]
ASSUME CommandsAssumption ==
  /\ Commands \subseteq [op : {"pull", "push", "sync", "serve"}, delete : BOOLEAN, dry : BOOLEAN]
  /\ Quiet \in BOOLEAN /\ MaxEdits \in Nat /\ MaxNow \in Nat \ {0}

VARIABLES
  tree,      \* [Sides -> [Paths -> EntryMeta or None]]
  base,      \* the saved snapshot
  readable,  \* FALSE: the saved snapshot does not parse
  pc, cmd,   \* where the running command is, and which one it is
  lsnap, rsnap, plan,   \* its local variables
  now, edits,   \* the clock; edits and deletions so far
  seen,      \* the versions a side has held
  passed,    \* the remote versions that a push has left alone and saved
  rcopy,     \* the .mobfs-conflict-remote copies
  merged     \* conflicts the user has dealt with and nobody has touched since

command == <<pc, cmd, lsnap, rsnap, plan>>
saved == <<base, readable>>
world == <<now, edits, seen, passed, rcopy, merged>>
vars == <<tree, saved, command, world>>

Meta(kind, data, modified) == [kind |-> kind, data |-> data, modified |-> modified]
None == Meta("none", 0, 0)
DirMeta == Meta("dir", 0, 0)
Damaged == Meta("damaged", 0, 0)
NoTree == [p \in Paths |-> None]
NoCommand == [op |-> "none", delete |-> FALSE, dry |-> FALSE]

-----------------------------------------------------------------------------
(* Planning: snapshot.rs *)

Item(kind, p) == [kind |-> kind, path |-> p]
Items(kind, paths) == {Item(kind, p) : p \in paths}

\* A plan is the set of items still to be applied.  They come in the order of
\* their paths, but pull and push delete last and from the end.
DeletesLast(item) == cmd.op \in {"pull", "push"} /\ item.kind \in {"DeleteLocal", "DeleteRemote"}

Before(i, j) ==
  \/ ~DeletesLast(i) /\ DeletesLast(j)
  \/ ~DeletesLast(i) /\ ~DeletesLast(j) /\ Position[i.path] < Position[j.path]
  \/ DeletesLast(i) /\ DeletesLast(j) /\ Position[i.path] > Position[j.path]

IsHead(item) == item \in plan /\ \A i \in plan \ {item} : Before(item, i)

push_items(local, remote, delete) ==
  LET stale(p) == local[p].kind = "file" /\ remote[p] # local[p]
      extra(p) == delete /\ remote[p] # None /\ local[p] = None
  IN Items("Put", {p \in Paths : stale(p)}) \cup Items("DeleteRemote", {p \in Paths : extra(p)})

pull_items(local, remote, delete) ==
  LET stale(p) == remote[p].kind = "file" /\ local[p] # remote[p]
      extra(p) == delete /\ local[p] # None /\ remote[p] = None
  IN Items("Get", {p \in Paths : stale(p)}) \cup Items("DeleteLocal", {p \in Paths : extra(p)})

\* A mutant: a local change wins, whatever happened on the other side.
DecideLocalWins(b, l, r, delete) ==
  CASE l = r -> "Skip"
    [] l # r /\ l # b ->
         IF l.kind = "file" THEN "Put"
         ELSE IF l = None /\ delete THEN "DeleteRemote" ELSE "Skip"
    [] l # r /\ l = b ->
         IF r.kind = "file" THEN "Get"
         ELSE IF r = None /\ delete THEN "DeleteLocal" ELSE "Skip"

\* A mutant: with --delete, a file deleted on the remote side stays.
DecideKeeping(b, l, r, delete) ==
  CASE l = r \/ (l = b /\ r.kind # "file") -> "Skip"
    [] l # r /\ l # b /\ r # b -> "Conflict"
    [] l # r /\ l # b /\ r = b ->
         IF l.kind = "file" THEN "Put"
         ELSE IF l = None /\ delete THEN "DeleteRemote" ELSE "Skip"
    [] l # r /\ l = b /\ r.kind = "file" -> "Get"

\* What sync does about one path; "Skip" is no item.
Decide(b, l, r, delete) ==
  LET local_changed == l # b
      remote_changed == r # b
  IN CASE l = r -> "Skip"
       [] l # r /\ local_changed /\ remote_changed -> "Conflict"
       [] l # r /\ local_changed /\ ~remote_changed ->
            IF l.kind = "file" THEN "Put"
            ELSE IF l = None /\ delete THEN "DeleteRemote" ELSE "Skip"
       [] l # r /\ ~local_changed ->
            IF r.kind = "file" THEN "Get"
            ELSE IF r = None /\ delete THEN "DeleteLocal" ELSE "Skip"

sync_items(b, local, remote, delete) ==
  LET decided(p) == Decide(b[p], local[p], remote[p], delete)
  IN {Item(decided(p), p) : p \in {q \in Paths : decided(q) # "Skip"}}

Plan(local, remote) ==
  CASE cmd.op = "pull" -> pull_items(local, remote, cmd.delete)
    [] cmd.op = "push" -> push_items(local, remote, cmd.delete)
    [] OTHER -> sync_items(base, local, remote, cmd.delete)

IsConflict(item) == item.kind = "Conflict"

-----------------------------------------------------------------------------
(* Trees. *)

\* A mutant: the parent directory is not created.
WriteFileBare(t, p, meta) == [t EXCEPT ![p] = meta]

\* A file is put in place; the directories above it are created.
WriteFile(t, p, meta) ==
  [q \in Paths |-> IF q = p THEN meta ELSE IF q = DirOf[p] THEN DirMeta ELSE t[q]]

Within(p) == {p} \cup {q \in Files : DirOf[q] = p}

\* remove_dir_all or remove_file; no error if nothing is there.
RemovePath(t, p) == [q \in Paths |-> IF q \in Within(p) THEN None ELSE t[q]]

EnsureDirs(t, snap) == [q \in Paths |-> IF snap[q] = DirMeta THEN DirMeta ELSE t[q]]

Saw(s, p, version) == seen' = [seen EXCEPT ![s][p] = @ \cup {version}]

-----------------------------------------------------------------------------
(* Users on both sides. *)

MayEdit == Quiet => pc = "idle"

Edit(s, p) ==
  /\ MayEdit /\ edits < MaxEdits
  /\ edits' = edits + 1
  /\ tree' = [tree EXCEPT ![s] = WriteFile(@, p, Meta("file", edits + 1, now))]
  /\ Saw(s, p, edits + 1)
  /\ merged' = merged \ {p}
  /\ UNCHANGED <<saved, command, now, passed, rcopy>>

Delete(s, p) ==
  /\ MayEdit /\ edits < MaxEdits /\ tree[s][p] # None
  /\ edits' = edits + 1
  /\ tree' = [tree EXCEPT ![s] = RemovePath(@, p)]
  /\ merged' = merged \ Within(p)
  /\ UNCHANGED <<saved, command, now, seen, passed, rcopy>>

\* The user follows the advice that comes with a conflict: the local file
\* becomes a merge of both copies, or the remote copy itself.
Merge(p) ==
  /\ MayEdit /\ rcopy[p] # None /\ edits < MaxEdits
  /\ edits' = edits + 1
  /\ tree' = [tree EXCEPT !["local"] = WriteFile(@, p, Meta("file", edits + 1, now))]
  /\ seen' = [seen EXCEPT !["local"][p] = @ \cup {edits + 1, rcopy[p].data}]
  /\ rcopy' = [rcopy EXCEPT ![p] = None]
  /\ merged' = IF tree["remote"][p].data = rcopy[p].data THEN merged \cup {p} ELSE merged
  /\ UNCHANGED <<saved, command, now, passed>>

ChooseRemote(p) ==
  /\ MayEdit /\ rcopy[p] # None
  /\ tree' = [tree EXCEPT !["local"] = WriteFile(@, p, rcopy[p])]
  /\ Saw("local", p, rcopy[p].data)
  /\ rcopy' = [rcopy EXCEPT ![p] = None]
  /\ merged' = IF tree["remote"][p].data = rcopy[p].data THEN merged \cup {p} ELSE merged
  /\ UNCHANGED <<saved, command, now, edits, passed>>

Tick ==
  /\ now < MaxNow
  /\ now' = now + 1
  /\ UNCHANGED <<tree, saved, command, edits, seen, passed, rcopy, merged>>

-----------------------------------------------------------------------------
(* The commands. *)

LocalScan == tree["local"]
RemoteScan == tree["remote"]

\* sync and serve start by loading the base, which fails if it does not parse.
Start(c) ==
  /\ pc = "idle"
  /\ c.op \in {"sync", "serve"} => readable
  /\ pc' = "scan" /\ cmd' = c
  /\ UNCHANGED <<tree, saved, lsnap, rsnap, plan, world>>

\* pull scans the remote tree first, the others the local one.
FirstScan ==
  /\ pc = "scan"
  /\ pc' = "plan"
  /\ IF cmd.op = "pull" THEN rsnap' = RemoteScan /\ UNCHANGED lsnap
     ELSE lsnap' = LocalScan /\ UNCHANGED rsnap
  /\ UNCHANGED <<tree, saved, cmd, plan, world>>

\* The command is over and its local variables are gone.
Return ==
  pc' = "idle" /\ cmd' = NoCommand /\ lsnap' = NoTree /\ rsnap' = NoTree /\ plan' = {}

\* The second scan and the plan.  pull and push then create the directories of
\* the other side; a plan with conflicts is reduced to them; serve is done if
\* there is nothing to do.  With --dry-run pull and sync return here, sync only
\* if there are no conflicts; push has created its directories and goes on as
\* if its plan were empty.
MakePlan ==
  LET local == IF cmd.op = "pull" THEN LocalScan ELSE lsnap
      remote == IF cmd.op = "pull" THEN rsnap ELSE RemoteScan
      items == Plan(local, remote)
      conflicts == {i \in items : IsConflict(i)}
      done == /\ conflicts = {}
              /\ \/ cmd.op = "serve" /\ items = {}
                 \/ cmd.op # "push" /\ cmd.dry
  IN /\ pc = "plan"
     /\ \/ done /\ Return
        \/ /\ ~done
           /\ lsnap' = local /\ rsnap' = remote
           /\ plan' = IF conflicts # {} THEN conflicts ELSE IF cmd.dry THEN {} ELSE items
           /\ pc' = IF conflicts = {} THEN "apply" ELSE "conflict"
           /\ UNCHANGED cmd
     /\ tree' = CASE cmd.op = "pull" /\ ~cmd.dry -> [tree EXCEPT !["local"] = EnsureDirs(@, remote)]
                  [] cmd.op = "push" -> [tree EXCEPT !["remote"] = EnsureDirs(@, local)]
                  [] OTHER -> tree
     /\ UNCHANGED <<saved, world>>

Applying(kind, p) ==
  /\ pc = "apply" /\ IsHead(Item(kind, p))
  /\ plan' = plan \ {Item(kind, p)}
  /\ UNCHANGED <<saved, pc, cmd, lsnap, rsnap, now, edits, passed, rcopy, merged>>

\* upload_file sends the file as it is now; the remote file is as old as the
\* upload.
Uploaded(p) == Meta("file", tree["local"][p].data, now)

\* download_file takes the bytes as they are now and the time of the scan.
Downloaded(p) == Meta("file", tree["remote"][p].data, rsnap[p].modified)

Put(p) ==
  /\ Applying("Put", p)
  /\ tree["local"][p] # None
  /\ tree' = [tree EXCEPT !["remote"] = WriteFile(@, p, Uploaded(p))]
  /\ Saw("remote", p, tree["local"][p].data)

Get(p) ==
  /\ Applying("Get", p)
  /\ tree["remote"][p] # None
  /\ tree' = [tree EXCEPT !["local"] = WriteFile(@, p, Downloaded(p))]
  /\ Saw("local", p, tree["remote"][p].data)

DeleteItem(kind, s, p) ==
  /\ Applying(kind, p)
  /\ tree' = [tree EXCEPT ![s] = RemovePath(@, p)]
  /\ UNCHANGED seen

\* write_conflict_artifacts for the next conflict: the remote file is downloaded
\* over the local one, which is moved out of the way and back.
BothFiles(p) == tree["local"][p].kind = "file" /\ rsnap[p].kind = "file"

WriteCopies(p) ==
  /\ pc = "conflict" /\ IsHead(Item("Conflict", p))
  /\ BothFiles(p) => tree["remote"][p] # None
  /\ rcopy' = IF BothFiles(p) THEN [rcopy EXCEPT ![p] = Downloaded(p)] ELSE rcopy
  /\ plan' = plan \ {Item("Conflict", p)}
  /\ UNCHANGED <<tree, saved, pc, cmd, lsnap, rsnap, now, edits, seen, passed, merged>>

\* The command is killed while the local file is out of the way: its path is
\* empty, or has the remote file, just downloaded.
KilledInSwap(p) ==
  /\ pc = "conflict" /\ IsHead(Item("Conflict", p)) /\ BothFiles(p)
  /\ \/ /\ tree' = [tree EXCEPT !["local"][p] = None]
        /\ UNCHANGED seen
     \/ /\ tree["remote"][p] # None
        /\ tree' = [tree EXCEPT !["local"][p] = Downloaded(p)]
        /\ Saw("local", p, tree["remote"][p].data)
  /\ Return
  /\ UNCHANGED <<saved, now, edits, passed, rcopy, merged>>

\* All copies are written and the command ends with an error.
StopOnConflict ==
  /\ pc = "conflict" /\ plan = {}
  /\ Return
  /\ UNCHANGED <<tree, saved, world>>

\* A mutant: a command that fails saves what it scanned.
FailSaving ==
  /\ pc \notin {"idle", "save"}
  /\ Return
  /\ base' = IF pc = "apply" THEN rsnap ELSE base
  /\ UNCHANGED <<tree, readable, world>>

\* A connection or a file system call fails, or the command is killed: it ends
\* where it is and the base stays as it was.
Fail ==
  /\ pc \notin {"idle", "save"}
  /\ Return
  /\ UNCHANGED <<tree, saved, world>>

\* A remote file that a push has not replaced although the local side has
\* another version, or none: a push without --delete leaves what is missing
\* locally, one with --dry-run leaves everything.
PassedOver(p) ==
  /\ cmd.op = "push" /\ RemoteScan[p].kind = "file"
  /\ IF cmd.dry THEN RemoteScan[p] # lsnap[p] ELSE ~cmd.delete /\ lsnap[p] = None

\* pull saves the snapshot it started from, the others scan the remote again.
Applied ==
  /\ pc = "apply" /\ plan = {}
  /\ pc' = "save"
  /\ rsnap' = IF cmd.op = "pull" THEN rsnap ELSE RemoteScan
  /\ passed' = [p \in Files |-> passed[p] \cup {v \in {RemoteScan[p].data} : PassedOver(p)}]
  /\ UNCHANGED <<tree, saved, cmd, lsnap, plan, now, edits, seen, rcopy, merged>>

Save ==
  /\ pc = "save"
  /\ Return
  /\ base' = rsnap /\ readable' = TRUE
  /\ UNCHANGED <<tree, world>>

\* The command is killed while the snapshot is being written: the file ends
\* after some entries, in the middle of one that still parses, or where it
\* does not parse.
SaveTorn ==
  /\ pc = "save"
  /\ Return
  /\ \/ readable' = FALSE /\ base' = NoTree
     \/ /\ readable' = TRUE
        /\ \E cut \in Paths, last \in {None, Damaged} :
             base' = [p \in Paths |->
                        IF Position[p] < Position[cut] THEN rsnap[p]
                        ELSE IF p = cut /\ rsnap[p] # None THEN last ELSE None]
  /\ UNCHANGED <<tree, world>>

-----------------------------------------------------------------------------

\* Both sides start empty, and so does the base.
Init ==
  /\ tree = [s \in Sides |-> NoTree]
  /\ base = NoTree /\ readable = TRUE
  /\ pc = "idle" /\ cmd = NoCommand /\ lsnap = NoTree /\ rsnap = NoTree /\ plan = {}
  /\ now = 1 /\ edits = 0
  /\ seen = [s \in Sides |-> [p \in Files |-> {}]]
  /\ passed = [p \in Files |-> {}]
  /\ rcopy = [p \in Files |-> None]
  /\ merged = {}

Next ==
  \/ \E s \in Sides, p \in Files : Edit(s, p)
  \/ \E s \in Sides, p \in Paths : Delete(s, p)
  \/ \E p \in Files : Merge(p) \/ ChooseRemote(p)
  \/ Tick
  \/ \E c \in Commands : Start(c)
  \/ FirstScan \/ MakePlan
  \/ \E p \in Files : Put(p) \/ Get(p)
  \/ \E p \in Paths : DeleteItem("DeleteLocal", "local", p)
  \/ \E p \in Paths : DeleteItem("DeleteRemote", "remote", p)
  \/ \E p \in Paths : WriteCopies(p) \/ KilledInSwap(p)
  \/ StopOnConflict \/ Fail \/ Applied \/ Save \/ SaveTorn

Spec == Init /\ [][Next]_vars

-----------------------------------------------------------------------------
(* Properties. *)

Versions == 0..MaxEdits
Metas == [kind : {"none", "dir", "file", "damaged"}, data : Versions, modified : 0..MaxNow]
Trees == [Paths -> Metas]
PlanItems == [kind : {"Put", "Get", "DeleteLocal", "DeleteRemote", "Conflict"}, path : Paths]

\* Types; and a tree is a tree: a file is in a directory that is there.
TypeOK ==
  /\ tree \in [Sides -> Trees] /\ base \in Trees /\ readable \in BOOLEAN
  /\ \A s \in Sides, p \in Files :
       tree[s][p] # None /\ DirOf[p] # Top => tree[s][DirOf[p]] = DirMeta
  /\ pc \in {"idle", "scan", "plan", "apply", "conflict", "save"}
  /\ cmd \in Commands \cup {NoCommand} /\ lsnap \in Trees /\ rsnap \in Trees
  /\ plan \subseteq PlanItems
  /\ now \in 1..MaxNow /\ edits \in Versions
  /\ seen \in [Sides -> [Files -> SUBSET Versions]] /\ passed \in [Files -> SUBSET Versions]
  /\ rcopy \in [Files -> Metas] /\ merged \subseteq Files

\* The versions that a side has had.  For the local side the base counts those
\* too that a push has passed over.
Known(s, p) == seen[s][p] \cup {v \in passed[p] : s = "local"}

\* The base means what sync_items takes it for: a version in it has been on
\* the local side, so that a local file that differs from it is a change.
\* Failed and killed commands, torn saves and the dry runs of pull and sync do
\* not spoil that; the only versions in it that the local side has not had are
\* those that a push has passed over.
BaseHonest ==
  readable => \A p \in Files : base[p].kind = "file" => base[p].data \in Known("local", p)

\* An item of a sync is applied in this step: one about p.
Syncing == pc = "apply" /\ cmd.op \in {"sync", "serve"} /\ plan' # plan
AtWork(p) == \E item \in plan \ plan' : item.path = p

Replaced(s, p) == tree[s][p].kind = "file" /\ tree'[s][p].data # tree[s][p].data

\* sync never replaces or deletes a file whose version the other side has
\* not had: the user there cannot have meant to replace it.  The one exception
\* is a remote version that a push has passed over: the local file missing
\* beside it is taken for a deletion.  The path is that of the item at work.
NoClobber ==
  [][\A s \in Sides, p \in Files :
       Syncing /\ AtWork(p) /\ Replaced(s, p)
         => tree[s][p].data \in Known(Other(s), p)]_vars

\* After a sync that ends well both sides hold the same version of every file
\* they both have, and with --delete of every file.
SyncAgrees ==
  [][pc = "save" /\ cmd.op \in {"sync", "serve"} /\ base' = rsnap /\ pc' = "idle" =>
       \A p \in Files :
         \/ tree["local"][p].data = tree["remote"][p].data
         \/ ~cmd.delete /\ None \in {tree["local"][p], tree["remote"][p]}]_vars

\* The help of --delete (cli.rs): "Propagate deletions on the side that did not
\* change".  A deletion that sync carries over takes no file with it that the
\* other side has never had.
DeletesOnlyUnchanged ==
  [][\A s \in Sides, p \in Files :
       Syncing /\ Replaced(s, p) /\ tree'[s][p] = None
         => tree[s][p].data \in seen[Other(s)][p]]_vars

\* The message of a conflict (sync.rs): "Resolve by choosing or merging" the
\* copies "then run `mobfs sync` again".  A path that was resolved and not
\* touched since is not a conflict again.
ResolvedIsResolved ==
  pc = "conflict" => \A item \in plan : item.path \notin merged
=============================================================================
