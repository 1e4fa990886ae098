-------------------------- MODULE MirrorSyncProofs --------------------------
(* Mirror mode, for any set of paths and any number of edits: the base that   *)
(* the commands leave behind, whatever fails, and what sync does with it.     *)
EXTENDS MirrorSync, TLAPS

-----------------------------------------------------------------------------
(* The inductive invariants. *)

\* A path keeps its kind, and a file is in a directory that is there.
IsTree(t) ==
  /\ \A d \in Dirs : t[d] \in {None, DirMeta}
  /\ \A p \in Files : t[p] # None => t[p].kind = "file"
  /\ \A p \in Files : t[p] # None /\ DirOf[p] # Top => t[DirOf[p]] = DirMeta

Shapes ==
  /\ \A s \in Sides : IsTree(tree[s])
  /\ IsTree(lsnap) /\ IsTree(rsnap)
  /\ \A p \in Files : rcopy[p] # None => rcopy[p].kind = "file"
  /\ pc # "idle" => cmd \in Commands

TypeInv == TypeOK /\ Shapes

\* A side has held the files that are on it; both know those of the base.
Held ==
  /\ \A s \in Sides, p \in Files : tree[s][p].kind = "file" => tree[s][p].data \in seen[s][p]
  /\ \A s \in Sides, p \in Files : base[p].kind = "file" => base[p].data \in Known(s, p)

\* The local side knows version meta of p, or an item about p is still to come.
HeldLocally(p, meta) ==
  meta.kind = "file" => meta.data \in Known("local", p) \/ \E item \in plan : item.path = p

Scanned ==
  pc = "plan" => IF cmd.op = "pull" THEN rsnap = tree["remote"] ELSE lsnap = tree["local"]

Pulling ==
  pc = "apply" /\ cmd.op = "pull" =>
    /\ rsnap = tree["remote"]
    /\ \A item \in plan : item.kind \in {"Get", "DeleteLocal"}
    /\ \A item \in plan : item.kind = "DeleteLocal" => rsnap[item.path] = None
    /\ \A p \in Files : HeldLocally(p, rsnap[p])

Pushing ==
  pc = "apply" /\ cmd.op = "push" =>
    /\ \A item \in plan : item.kind \in {"Put", "DeleteRemote"} /\ ~cmd.dry
    /\ \A p \in Files : PassedOver(p) \/ HeldLocally(p, tree["remote"][p])

\* sync: what was decided about p, and whether it has still to be done.
Decided(p) == Decide(base[p], lsnap[p], rsnap[p], cmd.delete)
Pending(p) == Item(Decided(p), p) \in plan

\* A file that sync has not touched itself is as it was scanned, or went with
\* its directory.
Untouched(p) == tree["local"][p] \in {lsnap[p], None} /\ tree["remote"][p] \in {rsnap[p], None}

Agree(p) ==
  \/ tree["local"][p].data = tree["remote"][p].data
  \/ ~cmd.delete /\ None \in {tree["local"][p], tree["remote"][p]}

Syncs == cmd.op \in {"sync", "serve"}

SyncPlan ==
  /\ \A item \in plan : item.kind = Decided(item.path)
  /\ \A p \in Paths : Decided(p) # "Conflict"
  /\ \A p \in Files : DirOf[p] # Top /\ Pending(DirOf[p]) => Pending(p) \/ Decided(p) = "Skip"

SyncFile(p) ==
  /\ Pending(p) \/ Decided(p) = "Skip" => Untouched(p)
  /\ Pending(p) \/ Agree(p)
  /\ HeldLocally(p, tree["remote"][p])

Reconciling == pc = "apply" /\ Syncs => SyncPlan /\ \A p \in Files : SyncFile(p)

Saving ==
  pc = "save" =>
    /\ \A s \in Sides, p \in Files : rsnap[p].kind = "file" => rsnap[p].data \in Known(s, p)
    /\ Syncs => \A p \in Files : Agree(p)

Inv == Held /\ Scanned /\ Pulling /\ Pushing /\ Reconciling /\ Saving

-----------------------------------------------------------------------------
(* Types. *)

USE PathsAssumption, CommandsAssumption

\* The empty tree is a tree.
LEMMA NoTreeIsTree == NoTree \in Trees /\ IsTree(NoTree)
  BY DEF NoTree, Trees, Metas, Versions, None, Meta, IsTree, Files

\* A file put in place leaves a tree: the directory above it is created.
LEMMA WriteFileTree ==
  ASSUME NEW t \in Trees, IsTree(t), NEW p \in Files, NEW m \in Metas, m.kind = "file"
  PROVE  WriteFile(t, p, m) \in Trees /\ IsTree(WriteFile(t, p, m))
<1>1. DirMeta \in Metas BY DEF DirMeta, Meta, Metas, Versions
<1>2. WriteFile(t, p, m) \in Trees BY <1>1 DEF WriteFile, Trees
<1> DEFINE w == WriteFile(t, p, m)
<1>3. \A q \in Paths : w[q] = IF q = p THEN m ELSE IF q = DirOf[p] THEN DirMeta ELSE t[q]
  BY DEF WriteFile
<1> HIDE DEF w
<1>4. p \notin Dirs /\ DirOf[p] \notin Files /\ Dirs \subseteq Paths /\ Files \subseteq Paths
  BY DEF Files
<1>5. \A d \in Dirs : w[d] \in {None, DirMeta} BY <1>3, <1>4 DEF IsTree
<1>6. \A q \in Files : w[q] # None => w[q].kind = "file" BY <1>3, <1>4 DEF IsTree
<1>7. \A q \in Files : w[q] # None /\ DirOf[q] # Top => w[DirOf[q]] = DirMeta
  <2>1. \A q \in Files : DirOf[q] # Top => DirOf[q] \in Dirs BY DEF Files
  <2>2. QED BY <1>3, <1>4, <2>1 DEF IsTree
<1>8. QED BY <1>2, <1>5, <1>6, <1>7 DEF IsTree, w

\* What is removed takes with it what is in it.
LEMMA RemovePathTree ==
  ASSUME NEW t \in Trees, IsTree(t), NEW p \in Paths
  PROVE  RemovePath(t, p) \in Trees /\ IsTree(RemovePath(t, p))
<1>1. None \in Metas BY DEF None, Meta, Metas, Versions
<1>2. RemovePath(t, p) \in Trees BY <1>1 DEF RemovePath, Trees
<1>3. QED BY <1>2 DEF RemovePath, Trees, IsTree, Files, Within

\* The directories of another tree are added.
LEMMA EnsureDirsTree ==
  ASSUME NEW t \in Trees, IsTree(t), NEW snap \in Trees, IsTree(snap)
  PROVE  EnsureDirs(t, snap) \in Trees /\ IsTree(EnsureDirs(t, snap))
<1>1. DirMeta \in Metas BY DEF DirMeta, Meta, Metas, Versions
<1>2. EnsureDirs(t, snap) \in Trees BY <1>1 DEF EnsureDirs, Trees
<1>3. \A p \in Files : snap[p] # DirMeta
  <2>1. DirMeta # None /\ DirMeta.kind = "dir" BY DEF DirMeta, None, Meta
  <2>2. QED BY <2>1 DEF IsTree
<1>4. QED BY <1>2, <1>3 DEF EnsureDirs, Trees, IsTree, Files

\* The version that an upload or a download puts in place.
LEMMA CopiedType ==
  ASSUME TypeInv, NEW p \in Files
  PROVE  /\ Uploaded(p) \in Metas /\ Uploaded(p).kind = "file"
         /\ Uploaded(p).data = tree["local"][p].data
         /\ Downloaded(p) \in Metas /\ Downloaded(p).kind = "file"
         /\ Downloaded(p).data = tree["remote"][p].data
<1>1. tree["local"][p] \in Metas /\ tree["remote"][p] \in Metas /\ rsnap[p] \in Metas
  BY DEF TypeInv, TypeOK, Trees, Sides, Files
<1>2. QED BY <1>1 DEF TypeInv, TypeOK, Uploaded, Downloaded, Meta, Metas, Versions

\* A new version of an edit is a version.
LEMMA EditedType ==
  ASSUME TypeInv, edits < MaxEdits
  PROVE  Meta("file", edits + 1, now) \in Metas /\ Meta("file", edits + 1, now).kind = "file"
         /\ edits + 1 \in Versions
  BY DEF TypeInv, TypeOK, Meta, Metas, Versions

\* Both sides stay trees, whatever step is taken.
LEMMA TreesNext ==
  ASSUME TypeInv, Next
  PROVE  tree' \in [Sides -> Trees] /\ \A s \in Sides : IsTree(tree'[s])
<1> DEFINE Goal == tree' \in [Sides -> Trees] /\ \A s \in Sides : IsTree(tree'[s])
<1>0. /\ tree \in [Sides -> Trees] /\ \A s \in Sides : IsTree(tree[s])
      /\ lsnap \in Trees /\ rsnap \in Trees /\ IsTree(lsnap) /\ IsTree(rsnap)
      /\ "local" \in Sides /\ "remote" \in Sides
  BY DEF TypeInv, TypeOK, Shapes, Sides
<1>1. ASSUME NEW s \in Sides, NEW t \in Trees, IsTree(t), tree' = [tree EXCEPT ![s] = t]
      PROVE  Goal
  BY <1>0, <1>1
<1>2. ASSUME UNCHANGED tree PROVE Goal
  BY <1>0, <1>2
<1> SUFFICES Goal OBVIOUS
<1> HIDE DEF Goal
<1>3. ASSUME NEW s \in Sides, NEW p \in Files, Edit(s, p) PROVE Goal
  <2>1. IsTree(WriteFile(tree[s], p, Meta("file", edits + 1, now)))
        /\ WriteFile(tree[s], p, Meta("file", edits + 1, now)) \in Trees
    BY <1>0, <1>3, EditedType, WriteFileTree DEF Edit
  <2>2. QED BY <1>0, <1>1, <1>3, <2>1 DEF Edit
<1>4. ASSUME NEW s \in Sides, NEW p \in Paths, tree' = [tree EXCEPT ![s] = RemovePath(@, p)]
      PROVE Goal
  <2>1. IsTree(RemovePath(tree[s], p)) /\ RemovePath(tree[s], p) \in Trees
    BY <1>0, RemovePathTree
  <2>2. QED BY <1>0, <1>1, <1>4, <2>1
<1>5. ASSUME NEW p \in Files, Merge(p) PROVE Goal
  <2>1. IsTree(WriteFile(tree["local"], p, Meta("file", edits + 1, now)))
        /\ WriteFile(tree["local"], p, Meta("file", edits + 1, now)) \in Trees
    BY <1>0, <1>5, EditedType, WriteFileTree DEF Merge
  <2>2. QED BY <1>0, <1>1, <1>5, <2>1 DEF Merge
<1>6. ASSUME NEW p \in Files, ChooseRemote(p) PROVE Goal
  <2>0. rcopy[p] \in Metas /\ rcopy[p].kind = "file"
    BY <1>6 DEF ChooseRemote, TypeInv, TypeOK, Shapes
  <2>1. IsTree(WriteFile(tree["local"], p, rcopy[p])) /\ WriteFile(tree["local"], p, rcopy[p]) \in Trees
    BY <1>0, <2>0, WriteFileTree
  <2>2. QED BY <1>0, <1>1, <1>6, <2>1 DEF ChooseRemote
<1>7. ASSUME MakePlan PROVE Goal
  <2> DEFINE local == IF cmd.op = "pull" THEN LocalScan ELSE lsnap
             remote == IF cmd.op = "pull" THEN rsnap ELSE RemoteScan
  <2>1. /\ local \in Trees /\ IsTree(local)
        /\ remote \in Trees /\ IsTree(remote)
    BY <1>0 DEF LocalScan, RemoteScan
  <2>2. tree' \in {[tree EXCEPT !["local"] = EnsureDirs(@, remote)],
                   [tree EXCEPT !["remote"] = EnsureDirs(@, local)], tree}
    BY <1>7 DEF MakePlan
  <2> HIDE DEF local, remote
  <2>3. IsTree(EnsureDirs(tree["local"], remote)) /\ EnsureDirs(tree["local"], remote) \in Trees
    BY <1>0, <2>1, EnsureDirsTree
  <2>4. IsTree(EnsureDirs(tree["remote"], local)) /\ EnsureDirs(tree["remote"], local) \in Trees
    BY <1>0, <2>1, EnsureDirsTree
  <2>5. CASE tree' = [tree EXCEPT !["local"] = EnsureDirs(@, remote)] BY <1>0, <1>1, <2>3, <2>5
  <2>6. CASE tree' = [tree EXCEPT !["remote"] = EnsureDirs(@, local)] BY <1>0, <1>1, <2>4, <2>6
  <2>7. QED BY <1>2, <2>2, <2>5, <2>6
<1>8. ASSUME NEW p \in Files, Put(p) PROVE Goal
  <2>1. IsTree(WriteFile(tree["remote"], p, Uploaded(p))) /\ WriteFile(tree["remote"], p, Uploaded(p)) \in Trees
    BY <1>0, CopiedType, WriteFileTree
  <2>2. QED BY <1>0, <1>1, <1>8, <2>1 DEF Put
<1>9. ASSUME NEW p \in Files, Get(p) PROVE Goal
  <2>1. IsTree(WriteFile(tree["local"], p, Downloaded(p))) /\ WriteFile(tree["local"], p, Downloaded(p)) \in Trees
    BY <1>0, CopiedType, WriteFileTree
  <2>2. QED BY <1>0, <1>1, <1>9, <2>1 DEF Get
<1>10. ASSUME NEW p \in Paths, KilledInSwap(p) PROVE Goal
  <2>1. p \in Files /\ tree["local"][p].kind = "file"
    <3>1. tree["local"][p].kind = "file" BY <1>10 DEF KilledInSwap, BothFiles
    <3>2. QED BY <1>0, <3>1 DEF IsTree, None, DirMeta, Meta, Files
  <2>2. PICK m \in {None, Downloaded(p)} : tree' = [tree EXCEPT !["local"][p] = m]
    BY <1>10 DEF KilledInSwap
  <2>3. m \in Metas /\ (m # None => m.kind = "file")
    <3>1. None \in Metas BY DEF None, Meta, Metas, Versions
    <3>2. QED BY <2>1, <3>1, CopiedType
  <2> DEFINE t == [tree["local"] EXCEPT ![p] = m]
  <2>4. t \in Trees BY <1>0, <2>3 DEF Trees
  <2>5. tree["local"][p] # None BY <2>1 DEF None, Meta
  <2>6. IsTree(t) BY <1>0, <2>1, <2>3, <2>4, <2>5 DEF IsTree, Trees, Files
  <2>7. tree' = [tree EXCEPT !["local"] = t] BY <2>2
  <2>8. QED BY <1>0, <1>1, <2>4, <2>6, <2>7
<1>11. CASE \E s \in Sides, p \in Files : Edit(s, p) BY <1>3, <1>11
<1>12. CASE \E s \in Sides, p \in Paths : Delete(s, p) BY <1>4, <1>12 DEF Delete
<1>13. CASE \E p \in Files : Merge(p) \/ ChooseRemote(p) BY <1>5, <1>6, <1>13
<1>14. CASE Tick BY <1>2, <1>14 DEF Tick
<1>15. CASE \E c \in Commands : Start(c) BY <1>2, <1>15 DEF Start
<1>16. CASE FirstScan BY <1>2, <1>16 DEF FirstScan
<1>17. CASE \E p \in Files : Put(p) \/ Get(p) BY <1>8, <1>9, <1>17
<1>18. CASE \E p \in Paths : DeleteItem("DeleteLocal", "local", p) BY <1>0, <1>4, <1>18 DEF DeleteItem
<1>19. CASE \E p \in Paths : DeleteItem("DeleteRemote", "remote", p) BY <1>0, <1>4, <1>19 DEF DeleteItem
<1>20. CASE \E p \in Paths : WriteCopies(p) \/ KilledInSwap(p) BY <1>2, <1>10, <1>20 DEF WriteCopies
<1>21. CASE StopOnConflict \/ Fail \/ Applied \/ Save \/ SaveTorn
  BY <1>2, <1>21 DEF StopOnConflict, Fail, Applied, Save, SaveTorn
<1>22. QED BY <1>7, <1>11, <1>12, <1>13, <1>14, <1>15, <1>16, <1>17, <1>18, <1>19, <1>20, <1>21
           DEF Next

\* What sync decides, seen from the decision.
LEMMA DecideCases ==
  ASSUME NEW b, NEW l, NEW r, NEW delete
  PROVE  /\ Decide(b, l, r, delete)
              \in {"Skip", "Put", "Get", "DeleteLocal", "DeleteRemote", "Conflict"}
         /\ Decide(b, l, r, delete) = "Put" => l.kind = "file" /\ r = b /\ l # r
         /\ Decide(b, l, r, delete) = "Get" => r.kind = "file" /\ l = b /\ l # r
         /\ Decide(b, l, r, delete) = "DeleteRemote" => delete /\ l = None /\ r = b /\ l # r
         /\ Decide(b, l, r, delete) = "DeleteLocal" => delete /\ r = None /\ l = b /\ l # r
         /\ Decide(b, l, r, delete) = "Skip" =>
              \/ l = r
              \/ r = b /\ l.kind # "file" /\ ~(delete /\ l = None)
              \/ l = b /\ r.kind # "file" /\ ~(delete /\ r = None)
<1>1. CASE l = r BY <1>1 DEF Decide
<1>2. CASE l # r /\ l # b /\ r # b BY <1>2 DEF Decide
<1>3. CASE l # r /\ l # b /\ r = b BY <1>3 DEF Decide
<1>4. CASE l # r /\ l = b BY <1>4 DEF Decide
<1>5. QED BY <1>1, <1>2, <1>3, <1>4

\* Every planner makes items of the known kinds, each about a path of its own.
LEMMA PlanType ==
  ASSUME NEW local, NEW remote
  PROVE  Plan(local, remote) \subseteq PlanItems
<1>1. pull_items(local, remote, cmd.delete) \subseteq PlanItems
  BY DEF pull_items, Items, Item, PlanItems
<1>2. push_items(local, remote, cmd.delete) \subseteq PlanItems
  BY DEF push_items, Items, Item, PlanItems
<1>3. sync_items(base, local, remote, cmd.delete) \subseteq PlanItems
  <2>1. \A p \in Paths : Decide(base[p], local[p], remote[p], cmd.delete)
              \in {"Skip", "Put", "Get", "DeleteLocal", "DeleteRemote", "Conflict"}
    BY DecideCases
  <2>2. QED BY <2>1 DEF sync_items, Item, PlanItems
<1>4. QED BY <1>1, <1>2, <1>3 DEF Plan

\* The running command's own variables keep their types.
CommandType ==
  /\ pc \in {"idle", "scan", "plan", "apply", "conflict", "save"}
  /\ cmd \in Commands \cup {NoCommand} /\ lsnap \in Trees /\ rsnap \in Trees
  /\ plan \subseteq PlanItems
  /\ IsTree(lsnap) /\ IsTree(rsnap)
  /\ pc # "idle" => cmd \in Commands

\* The running command and its local variables keep their types.
LEMMA CommandNext ==
  ASSUME TypeInv, Next
  PROVE  CommandType'
<1>0. /\ CommandType
      /\ tree["local"] \in Trees /\ tree["remote"] \in Trees
      /\ IsTree(tree["local"]) /\ IsTree(tree["remote"])
  BY DEF TypeInv, TypeOK, Shapes, CommandType, Sides
<1>1. ASSUME UNCHANGED command PROVE CommandType'
  BY <1>0, <1>1 DEF CommandType, command
<1>2. ASSUME Return PROVE CommandType'
  BY <1>2, NoTreeIsTree DEF CommandType, Return
<1>3. ASSUME plan' \subseteq plan, UNCHANGED <<pc, cmd, lsnap, rsnap>> PROVE CommandType'
  BY <1>0, <1>3 DEF CommandType
<1>4. ASSUME NEW c \in Commands, Start(c) PROVE CommandType'
  BY <1>0, <1>4 DEF CommandType, Start
<1>5. CASE FirstScan
  BY <1>0, <1>5 DEF CommandType, FirstScan, LocalScan, RemoteScan
<1>6. CASE MakePlan
  <2> DEFINE local == IF cmd.op = "pull" THEN LocalScan ELSE lsnap
             remote == IF cmd.op = "pull" THEN rsnap ELSE RemoteScan
             items == Plan(local, remote)
             conflicts == {i \in items : IsConflict(i)}
  <2>1. local \in Trees /\ IsTree(local) /\ remote \in Trees /\ IsTree(remote)
    BY <1>0 DEF LocalScan, RemoteScan, CommandType
  <2>2. items \subseteq PlanItems BY PlanType
  <2>3. \/ Return
        \/ /\ lsnap' = local /\ rsnap' = remote /\ cmd' = cmd
           /\ plan' \in {items, conflicts, {}}
           /\ pc' = (IF conflicts = {} THEN "apply" ELSE "conflict")
    BY <1>6 DEF MakePlan
  <2>4. pc = "plan" BY <1>6 DEF MakePlan
  <2> HIDE DEF local, remote, items
  <2>5. QED BY <1>0, <1>2, <2>1, <2>2, <2>3, <2>4 DEF CommandType
<1>7. CASE Applied
  BY <1>0, <1>7 DEF CommandType, Applied, RemoteScan
<1>8. CASE \E s \in Sides, p \in Files : Edit(s, p) BY <1>1, <1>8 DEF Edit
<1>9. CASE \E s \in Sides, p \in Paths : Delete(s, p) BY <1>1, <1>9 DEF Delete
<1>10. CASE \E p \in Files : Merge(p) \/ ChooseRemote(p) BY <1>1, <1>10 DEF Merge, ChooseRemote
<1>11. CASE Tick BY <1>1, <1>11 DEF Tick
<1>12. CASE \E p \in Files : Put(p) \/ Get(p) BY <1>3, <1>12 DEF Put, Get, Applying
<1>13. CASE \E p \in Paths : DeleteItem("DeleteLocal", "local", p) BY <1>3, <1>13 DEF DeleteItem, Applying
<1>14. CASE \E p \in Paths : DeleteItem("DeleteRemote", "remote", p) BY <1>3, <1>14 DEF DeleteItem, Applying
<1>15. CASE \E p \in Paths : WriteCopies(p) \/ KilledInSwap(p)
  BY <1>2, <1>3, <1>15 DEF WriteCopies, KilledInSwap
<1>16. CASE StopOnConflict \/ Fail \/ Save \/ SaveTorn
  BY <1>2, <1>16 DEF StopOnConflict, Fail, Save, SaveTorn
<1>17. QED BY <1>4, <1>5, <1>6, <1>7, <1>8, <1>9, <1>10, <1>11, <1>12, <1>13, <1>14, <1>15, <1>16
           DEF Next

\* The saved base, the clock, the histories and the conflict copies.
WorldType ==
  /\ base \in Trees /\ readable \in BOOLEAN
  /\ now \in 1..MaxNow /\ edits \in Versions
  /\ seen \in [Sides -> [Files -> SUBSET Versions]] /\ passed \in [Files -> SUBSET Versions]
  /\ rcopy \in [Files -> Metas] /\ merged \subseteq Files
  /\ \A p \in Files : rcopy[p] # None => rcopy[p].kind = "file"

\* So do the base, the clock and the histories.
LEMMA WorldNext ==
  ASSUME TypeInv, Next
  PROVE  WorldType'
<1>0. /\ WorldType
      /\ tree \in [Sides -> Trees] /\ rsnap \in Trees
      /\ "local" \in Sides /\ "remote" \in Sides
      /\ \A s \in Sides, p \in Files : tree[s][p].data \in Versions
  BY DEF TypeInv, TypeOK, Shapes, WorldType, Sides, Trees, Metas, Files
<1>1. ASSUME UNCHANGED <<saved, world>> PROVE WorldType'
  BY <1>0, <1>1 DEF WorldType, saved, world
<1>2. ASSUME NEW s \in Sides, NEW p \in Files, NEW v \in Versions, Saw(s, p, v)
      PROVE  seen' \in [Sides -> [Files -> SUBSET Versions]]
  BY <1>0, <1>2 DEF Saw, WorldType
<1>3. ASSUME NEW s \in Sides, NEW p \in Files, Edit(s, p) PROVE WorldType'
  <2>1. edits + 1 \in Versions BY <1>3, EditedType DEF Edit
  <2>2. seen' \in [Sides -> [Files -> SUBSET Versions]] BY <1>2, <1>3, <2>1 DEF Edit
  <2>3. QED BY <1>0, <1>3, <2>1, <2>2 DEF Edit, WorldType, saved
<1>4. ASSUME NEW s \in Sides, NEW p \in Paths, Delete(s, p) PROVE WorldType'
  BY <1>0, <1>4 DEF Delete, WorldType, Versions, saved
<1>5. \A p \in Files : rcopy[p].data \in Versions
  BY <1>0 DEF WorldType, Metas
<1>6. ASSUME NEW p \in Files, rcopy' = [rcopy EXCEPT ![p] = None]
      PROVE  /\ rcopy' \in [Files -> Metas]
             /\ \A q \in Files : rcopy'[q] # None => rcopy'[q].kind = "file"
  <2>1. None \in Metas BY DEF None, Meta, Metas, Versions
  <2>2. QED BY <1>0, <1>6, <2>1 DEF WorldType
<1>7. ASSUME NEW p \in Files, Merge(p) PROVE WorldType'
  <2>1. edits + 1 \in Versions BY <1>7, EditedType DEF Merge
  <2>2. seen' \in [Sides -> [Files -> SUBSET Versions]]
    <3>1. {edits + 1, rcopy[p].data} \in SUBSET Versions BY <1>5, <2>1
    <3>2. QED BY <1>0, <1>7, <3>1 DEF Merge, WorldType
  <2>3. merged' \subseteq Files BY <1>0, <1>7 DEF Merge, WorldType
  <2>4. QED BY <1>0, <1>6, <1>7, <2>1, <2>2, <2>3 DEF Merge, WorldType, saved
<1>8. ASSUME NEW p \in Files, ChooseRemote(p) PROVE WorldType'
  <2>1. seen' \in [Sides -> [Files -> SUBSET Versions]]
    BY <1>0, <1>2, <1>5, <1>8 DEF ChooseRemote
  <2>2. merged' \subseteq Files BY <1>0, <1>8 DEF ChooseRemote, WorldType
  <2>3. QED BY <1>0, <1>6, <1>8, <2>1, <2>2 DEF ChooseRemote, WorldType, saved
<1>9. CASE Tick BY <1>0, <1>9 DEF Tick, WorldType, saved
<1>10. ASSUME NEW p \in Files, Put(p) \/ Get(p) PROVE WorldType'
  <2>1. seen' \in [Sides -> [Files -> SUBSET Versions]]
    BY <1>0, <1>2, <1>10 DEF Put, Get
  <2>2. QED BY <1>0, <1>10, <2>1 DEF Put, Get, Applying, WorldType, saved
<1>11. ASSUME NEW kind, NEW s \in Sides, NEW p \in Paths, DeleteItem(kind, s, p) PROVE WorldType'
  BY <1>0, <1>11 DEF DeleteItem, Applying, WorldType, saved
<1>12. ASSUME NEW p \in Paths, WriteCopies(p) PROVE WorldType'
  <2>1. CASE BothFiles(p)
    <3>1. p \in Files
      <4>1. rsnap[p].kind = "file" BY <2>1 DEF BothFiles
      <4>2. QED BY <4>1 DEF TypeInv, Shapes, IsTree, None, DirMeta, Meta, Files
    <3>2. Downloaded(p) \in Metas /\ Downloaded(p).kind = "file" BY <3>1, CopiedType
    <3>3. rcopy' = [rcopy EXCEPT ![p] = Downloaded(p)] BY <1>12, <2>1 DEF WriteCopies
    <3>4. rcopy' \in [Files -> Metas] /\ \A q \in Files : rcopy'[q] # None => rcopy'[q].kind = "file"
      BY <1>0, <3>1, <3>2, <3>3 DEF WorldType
    <3>5. QED BY <1>0, <1>12, <3>4 DEF WriteCopies, WorldType, saved
  <2>2. CASE ~BothFiles(p)
    BY <1>0, <1>12, <2>2 DEF WriteCopies, WorldType, saved
  <2>3. QED BY <2>1, <2>2
<1>13. CASE Save BY <1>0, <1>13 DEF Save, WorldType, world
<1>14. CASE SaveTorn
  <2>1. None \in Metas /\ Damaged \in Metas BY DEF None, Damaged, Meta, Metas, Versions
  <2>2. base' \in Trees
    <3>1. CASE base' = NoTree BY <3>1, NoTreeIsTree
    <3>2. ASSUME NEW cut \in Paths, NEW last \in {None, Damaged},
                 base' = [p \in Paths |->
                            IF Position[p] < Position[cut] THEN rsnap[p]
                            ELSE IF p = cut /\ rsnap[p] # None THEN last ELSE None]
          PROVE  base' \in Trees
      BY <1>0, <2>1, <3>2 DEF Trees
    <3>3. QED BY <1>14, <3>1, <3>2 DEF SaveTorn
  <2>3. readable' \in BOOLEAN BY <1>14 DEF SaveTorn
  <2>4. QED BY <1>0, <1>14, <2>2, <2>3 DEF SaveTorn, WorldType, world
<1>15. CASE \E c \in Commands : Start(c) BY <1>1, <1>15 DEF Start
<1>16. CASE FirstScan \/ MakePlan BY <1>1, <1>16 DEF FirstScan, MakePlan
<1>17. ASSUME NEW p \in Paths, KilledInSwap(p) PROVE WorldType'
  <2>1. p \in Files
    <3>1. rsnap[p].kind = "file" BY <1>17 DEF KilledInSwap, BothFiles
    <3>2. QED BY <3>1 DEF TypeInv, Shapes, IsTree, None, DirMeta, Meta, Files
  <2>2. seen' \in [Sides -> [Files -> SUBSET Versions]]
    BY <1>0, <1>2, <1>17, <2>1 DEF KilledInSwap, WorldType
  <2>3. QED BY <1>0, <1>17, <2>2 DEF KilledInSwap, WorldType, saved
<1>18. CASE StopOnConflict \/ Fail BY <1>1, <1>18 DEF StopOnConflict, Fail
<1>20. CASE Applied
  <2>1. passed' \in [Files -> SUBSET Versions]
    BY <1>0, <1>20 DEF Applied, RemoteScan, WorldType
  <2>2. QED BY <1>0, <1>20, <2>1 DEF Applied, WorldType, saved
<1>21. QED
  BY <1>0, <1>3, <1>4, <1>7, <1>8, <1>9, <1>10, <1>11, <1>12, <1>13, <1>14, <1>15, <1>16, <1>17, <1>18, <1>20
  DEF Next

\* Types and shapes are inductive.
LEMMA TypeInvNext ==
  ASSUME TypeInv, [Next]_vars
  PROVE  TypeInv'
<1>1. CASE Next
  <2>1. tree' \in [Sides -> Trees] /\ \A s \in Sides : IsTree(tree'[s]) BY <1>1, TreesNext
  <2>2. CommandType' /\ WorldType' BY <1>1, CommandNext, WorldNext
  <2>3. Shapes' BY <2>1, <2>2 DEF Shapes, CommandType, WorldType
  <2>4. TypeOK' BY <2>1, <2>2 DEF TypeOK, CommandType, WorldType, IsTree
  <2>5. QED BY <2>3, <2>4 DEF TypeInv
<1>2. CASE UNCHANGED vars
  BY <1>2 DEF vars, saved, command, world, TypeInv, TypeOK, Shapes, IsTree
<1>3. QED BY <1>1, <1>2

\* Types and shapes hold at the start ...
LEMMA TypeInvInit == Init => TypeInv
<1> SUFFICES ASSUME Init PROVE TypeInv OBVIOUS
<1>1. NoTree \in Trees /\ IsTree(NoTree) BY NoTreeIsTree
<1>2. \A s \in Sides : tree[s] = NoTree BY DEF Init
<1>3. Shapes BY <1>1, <1>2 DEF Init, Shapes
<1>4. None \in Metas BY DEF None, Meta, Metas, Versions
<1>5. \A s \in Sides, p \in Files : tree[s][p] # None /\ DirOf[p] # Top => tree[s][DirOf[p]] = DirMeta
  BY <1>1, <1>2 DEF IsTree
<1>6. TypeOK BY <1>1, <1>2, <1>4, <1>5 DEF Init, TypeOK, Versions
<1>7. QED BY <1>3, <1>6 DEF TypeInv

\* ... and always.
LEMMA TypeInvAlways == Spec => []TypeInv
<1>1. TypeInv /\ [Next]_vars => TypeInv' BY TypeInvNext
<1>2. QED BY <1>1, TypeInvInit, PTL DEF Spec

\* The types of mirror mode; both trees stay trees whatever the commands and
\* the users on both sides do, edits during a command included.
THEOREM MirrorTypes == Spec => []TypeOK
<1>1. TypeInv => TypeOK BY DEF TypeInv
<1>2. QED BY <1>1, TypeInvAlways, PTL

-----------------------------------------------------------------------------
(* The base and the plan. *)

\* What the operations on trees do to files.
LEMMA FileEffects ==
  /\ \A t, m : \A p, q \in Files : WriteFile(t, p, m)[q] = IF q = p THEN m ELSE t[q]
  /\ \A t : \A p \in Paths, q \in Files :
       RemovePath(t, p)[q] = IF q = p \/ DirOf[q] = p THEN None ELSE t[q]
  /\ \A t, snap : IsTree(snap) => \A q \in Files : EnsureDirs(t, snap)[q] = t[q]
<1>1. \A p \in Files : DirOf[p] \notin Files BY DEF Files
<1>2. \A t, m : \A p, q \in Files : WriteFile(t, p, m)[q] = IF q = p THEN m ELSE t[q]
  BY <1>1 DEF WriteFile, Files
<1>3. \A t : \A p \in Paths, q \in Files :
        RemovePath(t, p)[q] = IF q = p \/ DirOf[q] = p THEN None ELSE t[q]
  BY DEF RemovePath, Within, Files
<1>4. \A t, snap : IsTree(snap) => \A q \in Files : EnsureDirs(t, snap)[q] = t[q]
  <2>1. DirMeta # None /\ DirMeta.kind = "dir" BY DEF DirMeta, None, Meta
  <2>2. QED BY <2>1 DEF EnsureDirs, IsTree, Files
<1>5. QED BY <1>2, <1>3, <1>4

\* The histories only grow.
LEMMA SeenGrows ==
  ASSUME TypeInv, Next
  PROVE  \A s \in Sides, p \in Files : seen[s][p] \subseteq seen'[s][p]
<1> USE DEF Saw
<1>0. seen \in [Sides -> [Files -> SUBSET Versions]] BY DEF TypeInv, TypeOK
<1>1. CASE UNCHANGED seen BY <1>1
<1>2. CASE \E s \in Sides, p \in Files : Edit(s, p) BY <1>0, <1>2 DEF Edit
<1>3. CASE \E p \in Files : Merge(p) BY <1>0, <1>3 DEF Merge
<1>4. CASE \E p \in Files : ChooseRemote(p) BY <1>0, <1>4 DEF ChooseRemote
<1>5. CASE \E p \in Files : Put(p) BY <1>0, <1>5 DEF Put
<1>6. CASE \E p \in Files : Get(p) BY <1>0, <1>6 DEF Get
<1>7. CASE \E p \in Paths : KilledInSwap(p) BY <1>0, <1>7 DEF KilledInSwap
<1>8. QED
  BY <1>1, <1>2, <1>3, <1>4, <1>5, <1>6, <1>7
  DEF Next, Delete, Tick, Start, FirstScan, MakePlan, DeleteItem, WriteCopies,
      StopOnConflict, Fail, Applied, Save, SaveTorn, world

\* So does what is known.
LEMMA KnownGrows ==
  ASSUME TypeInv, Next
  PROVE  \A s \in Sides, p \in Files : /\ seen[s][p] \subseteq Known(s, p)
                                      /\ seen'[s][p] \subseteq Known(s, p)'
                                      /\ Known(s, p) \subseteq Known(s, p)'
<1>1. \A p \in Files : passed[p] \subseteq passed'[p]
  <2>1. CASE UNCHANGED passed BY <2>1
  <2>2. CASE Applied BY <2>2 DEF Applied
  <2>3. QED
    BY <2>1, <2>2
    DEF Next, Edit, Delete, Merge, ChooseRemote, Tick, Start, FirstScan, MakePlan, Put, Get, Applying,
        DeleteItem, WriteCopies, KilledInSwap, StopOnConflict, Fail, Save, SaveTorn, world
<1>2. QED BY <1>1, SeenGrows DEF Known

\* A file that a step puts on a side is in that side's history.
LEMMA TreeHeldNext ==
  ASSUME TypeInv, Inv, Next, NEW s \in Sides, NEW p \in Files, tree'[s][p].kind = "file"
  PROVE  tree'[s][p].data \in seen'[s][p]
<1> DEFINE Goal == tree'[s][p].data \in seen'[s][p]
<1> SUFFICES Goal OBVIOUS
<1>0. /\ tree \in [Sides -> Trees] /\ "local" \in Sides /\ "remote" \in Sides
      /\ seen \in [Sides -> [Files -> SUBSET Versions]]
      /\ None.kind = "none"
  BY DEF TypeInv, TypeOK, Sides, None, Meta
<1>1. ASSUME tree'[s][p] \in {tree[s][p], None} PROVE Goal
  <2>1. tree'[s][p] = tree[s][p] BY <1>0, <1>1
  <2>2. tree[s][p].data \in seen[s][p] BY <2>1 DEF Inv, Held
  <2>3. QED BY <2>1, <2>2, SeenGrows
<1>2. ASSUME NEW side \in Sides, NEW q \in Files, NEW m \in Metas,
             tree' = [tree EXCEPT ![side] = WriteFile(@, q, m)],
             m.data \in seen'[side][q]
      PROVE  Goal
  <2>1. CASE side = s /\ q = p
    <3>1. tree'[s] = WriteFile(tree[s], p, m) BY <1>0, <1>2, <2>1
    <3>2. WriteFile(tree[s], p, m)[p] = m BY FileEffects
    <3>3. QED BY <1>2, <2>1, <3>1, <3>2
  <2>2. CASE side = s /\ q # p BY <1>0, <1>1, <1>2, <2>2, FileEffects
  <2>3. CASE side # s BY <1>0, <1>1, <1>2, <2>3
  <2>4. QED BY <2>1, <2>2, <2>3
<1>3. ASSUME NEW side \in Sides, NEW q \in Paths, tree' = [tree EXCEPT ![side] = RemovePath(@, q)]
      PROVE  Goal
  <2>1. CASE side = s BY <1>0, <1>1, <1>3, <2>1, FileEffects
  <2>2. CASE side # s BY <1>0, <1>1, <1>3, <2>2
  <2>3. QED BY <2>1, <2>2
<1> HIDE DEF Goal
<1>4. ASSUME NEW side \in Sides, NEW q \in Files, Edit(side, q) PROVE Goal
  <2>1. PICK m : m = Meta("file", edits + 1, now) OBVIOUS
  <2>2. m \in Metas /\ m.data = edits + 1 BY <1>4, <2>1, EditedType DEF Edit, Meta
  <2>3. m.data \in seen'[side][q] BY <1>0, <1>4, <2>2 DEF Edit, Saw
  <2>4. tree' = [tree EXCEPT ![side] = WriteFile(@, q, m)] BY <1>4, <2>1 DEF Edit
  <2>5. QED BY <1>2, <2>2, <2>3, <2>4
<1>5. ASSUME NEW q \in Files, Merge(q) PROVE Goal
  <2>1. Meta("file", edits + 1, now) \in Metas /\ Meta("file", edits + 1, now).data = edits + 1
    BY <1>5, EditedType DEF Merge, Meta
  <2>2. edits + 1 \in seen'["local"][q] BY <1>0, <1>5 DEF Merge
  <2>3. QED BY <1>0, <1>2, <1>5, <2>1, <2>2 DEF Merge
<1>6. ASSUME NEW q \in Files, ChooseRemote(q) PROVE Goal
  <2>1. rcopy[q] \in Metas BY DEF TypeInv, TypeOK
  <2>2. rcopy[q].data \in seen'["local"][q] BY <1>0, <1>6 DEF ChooseRemote, Saw
  <2>3. QED BY <1>0, <1>2, <1>6, <2>1, <2>2 DEF ChooseRemote
<1>7. ASSUME NEW q \in Files, Put(q) PROVE Goal
  <2>1. Uploaded(q).data \in seen'["remote"][q] BY <1>0, <1>7, CopiedType DEF Put, Saw
  <2>2. QED BY <1>0, <1>2, <1>7, <2>1, CopiedType DEF Put
<1>8. ASSUME NEW q \in Files, Get(q) PROVE Goal
  <2>1. Downloaded(q).data \in seen'["local"][q] BY <1>0, <1>8, CopiedType DEF Get, Saw
  <2>2. QED BY <1>0, <1>2, <1>8, <2>1, CopiedType DEF Get
<1>9. CASE MakePlan
  <2> DEFINE local == IF cmd.op = "pull" THEN LocalScan ELSE lsnap
             remote == IF cmd.op = "pull" THEN rsnap ELSE RemoteScan
  <2>1. IsTree(local) /\ IsTree(remote)
    BY <1>0 DEF LocalScan, RemoteScan, TypeInv, Shapes
  <2>2. tree' \in {[tree EXCEPT !["local"] = EnsureDirs(@, remote)],
                   [tree EXCEPT !["remote"] = EnsureDirs(@, local)], tree}
    BY <1>9 DEF MakePlan
  <2> HIDE DEF local, remote
  <2>3. tree'[s][p] = tree[s][p]
    <3>1. EnsureDirs(tree["local"], remote)[p] = tree["local"][p]
          /\ EnsureDirs(tree["remote"], local)[p] = tree["remote"][p]
      BY <2>1, FileEffects
    <3>2. CASE s = "local" BY <1>0, <2>2, <3>1, <3>2
    <3>3. CASE s = "remote" BY <1>0, <2>2, <3>1, <3>3
    <3>4. QED BY <3>2, <3>3 DEF Sides
  <2>4. QED BY <1>1, <2>3
<1>10. ASSUME NEW q \in Paths, KilledInSwap(q) PROVE Goal
  <2>1. q \in Files
    <3>1. rsnap[q].kind = "file" BY <1>10 DEF KilledInSwap, BothFiles
    <3>2. QED BY <3>1 DEF TypeInv, Shapes, IsTree, None, DirMeta, Meta, Files
  <2>2. CASE tree' = [tree EXCEPT !["local"][q] = None]
    <3>1. tree'[s][p] \in {tree[s][p], None} BY <1>0, <2>2 DEF Trees, Files
    <3>2. QED BY <1>1, <3>1
  <2>3. CASE tree' = [tree EXCEPT !["local"][q] = Downloaded(q)] /\ Saw("local", q, tree["remote"][q].data)
    <3>1. CASE s = "local" /\ q = p
      <4>1. tree'[s][p] = Downloaded(p) BY <1>0, <2>3, <3>1 DEF Trees, Files
      <4>2. tree["remote"][p].data \in seen'[s][p] BY <1>0, <2>3, <3>1 DEF Saw
      <4>3. QED BY <4>1, <4>2, CopiedType DEF Goal
    <3>2. CASE ~(s = "local" /\ q = p)
      <4>1. tree'[s][p] = tree[s][p] BY <1>0, <2>3, <3>2 DEF Trees, Files
      <4>2. QED BY <1>1, <4>1
    <3>3. QED BY <3>1, <3>2
  <2>4. QED BY <1>10, <2>2, <2>3 DEF KilledInSwap
<1>11. CASE UNCHANGED tree BY <1>1, <1>11
<1>12. QED
  BY <1>0, <1>3, <1>4, <1>5, <1>6, <1>7, <1>8, <1>9, <1>10, <1>11
  DEF Next, Delete, Tick, Start, FirstScan, DeleteItem, WriteCopies,
      StopOnConflict, Fail, Applied, Save, SaveTorn

\* What is in the base both sides know: it is the snapshot of a command
\* that ended well, or a part of it.
LEMMA BaseHeldNext ==
  ASSUME TypeInv, Inv, Next, NEW s \in Sides, NEW p \in Files, base'[p].kind = "file"
  PROVE  base'[p].data \in Known(s, p)'
<1> DEFINE Goal == base'[p].data \in Known(s, p)'
<1> SUFFICES Goal OBVIOUS
<1>0. p \in Paths BY DEF Files
<1>1. CASE UNCHANGED base BY <1>1, KnownGrows DEF Inv, Held
<1>2. ASSUME pc = "save", base'[p] = rsnap[p] PROVE Goal
  BY <1>2, KnownGrows DEF Inv, Saving
<1>3. ASSUME SaveTorn PROVE Goal
  <2>1. None.kind # "file" /\ Damaged.kind # "file" BY DEF None, Damaged, Meta
  <2>2. base'[p] \in {rsnap[p], None, Damaged}
    <3>1. CASE base' = NoTree BY <1>0, <3>1 DEF NoTree
    <3>2. ASSUME NEW cut \in Paths, NEW last \in {None, Damaged},
                 base' = [q \in Paths |->
                            IF Position[q] < Position[cut] THEN rsnap[q]
                            ELSE IF q = cut /\ rsnap[q] # None THEN last ELSE None]
          PROVE  base'[p] \in {rsnap[p], None, Damaged}
      BY <1>0, <3>2
    <3>3. QED BY <1>3, <3>1, <3>2 DEF SaveTorn
  <2>3. pc = "save" BY <1>3 DEF SaveTorn
  <2>4. QED BY <1>2, <2>1, <2>2, <2>3
<1> HIDE DEF Goal
<1>4. CASE Save BY <1>2, <1>4 DEF Save
<1>5. QED
  BY <1>1, <1>3, <1>4
  DEF Next, Edit, Delete, Merge, ChooseRemote, Tick, Start, FirstScan, MakePlan, Put, Get, Applying,
      DeleteItem, WriteCopies, KilledInSwap, StopOnConflict, Fail, Applied, saved

\* The base is what sync takes it for, one step at a time.
LEMMA HeldNext ==
  ASSUME TypeInv, Inv, Next
  PROVE  Held'
  BY TreeHeldNext, BaseHeldNext DEF Held

\* An item is taken off the plan.
LEMMA ApplyingFacts ==
  ASSUME NEW kind, NEW p, Applying(kind, p)
  PROVE  /\ pc = "apply" /\ pc' = "apply" /\ Item(kind, p) \in plan
         /\ plan' = plan \ {Item(kind, p)} /\ Item(kind, p).path = p /\ Item(kind, p).kind = kind
         /\ UNCHANGED <<base, cmd, lsnap, rsnap>>
         /\ \A item \in plan : item.path # p => item \in plan'
         /\ \A i \in plan' : Before(Item(kind, p), i)
  BY DEF Applying, IsHead, Item, saved

\* What an item of a sync leaves of the plan: it is the one decided for its
\* path, and a directory comes before its files.
LEMMA SyncApplying ==
  ASSUME TypeInv, pc = "apply", Syncs, SyncPlan,
         NEW kind, NEW p \in Paths, Applying(kind, p)
  PROVE  /\ Syncs' /\ SyncPlan' /\ kind = Decided(p)
         /\ ~Pending(p)' /\ Pending(p)
         /\ \A q \in Paths : Decided(q)' = Decided(q)
         /\ \A q \in Paths : q # p => Pending(q)' = Pending(q)
<1>1. kind = Decided(p) BY ApplyingFacts DEF SyncPlan
<1>2. \A q : Decided(q)' = Decided(q) BY ApplyingFacts DEF Decided
<1>3. ~Pending(p)' /\ Pending(p) BY <1>1, <1>2, ApplyingFacts DEF Pending
<1>4. \A q \in Paths : q # p => Item(Decided(q), q) # Item(kind, p) BY DEF Item
<1>5. \A q \in Paths : q # p => Pending(q)' = Pending(q) BY <1>2, <1>4, ApplyingFacts DEF Pending
<1>6. Syncs' BY ApplyingFacts DEF Syncs
<1>7. ASSUME NEW q \in Files, DirOf[q] # Top, Pending(DirOf[q])'
      PROVE  Pending(q)' \/ Decided(q)' = "Skip"
  <2>1. DirOf[q] \in Paths /\ DirOf[q] # q /\ q \in Paths BY <1>7 DEF Files
  <2>2. DirOf[q] # p BY <1>3, <1>7
  <2>3. Pending(DirOf[q]) BY <1>5, <1>7, <2>1, <2>2
  <2>4. Pending(q) \/ Decided(q) = "Skip" BY <1>7, <2>3 DEF SyncPlan
  <2>5. CASE q # p BY <1>2, <1>5, <2>1, <2>4, <2>5
  <2>6. CASE q = p
    <3>2. Before(Item(kind, p), Item(Decided(DirOf[q])', DirOf[q])) BY <1>7, ApplyingFacts DEF Pending
    <3>3. ~DeletesLast(Item(kind, p)) /\ ~DeletesLast(Item(Decided(DirOf[q])', DirOf[q]))
      BY DEF DeletesLast, Syncs
    <3>4. Position[p] < Position[DirOf[q]] BY <3>2, <3>3 DEF Before, Item
    <3>5. Position[DirOf[q]] < Position[p] BY <1>7, <2>6
    <3>6. Position[p] \in Nat /\ Position[DirOf[q]] \in Nat BY <2>1, <2>6
    <3>7. QED BY <3>4, <3>5, <3>6
  <2>7. QED BY <2>5, <2>6
<1>8. SyncPlan'
  <2>1. \A item \in plan' : item \in plan /\ item.path \in Paths
    BY ApplyingFacts DEF TypeInv, TypeOK, PlanItems
  <2>2. \A item \in plan' : item.kind = Decided(item.path)' BY <1>2, <2>1 DEF SyncPlan
  <2>3. \A q \in Paths : Decided(q)' # "Conflict" BY <1>2 DEF SyncPlan
  <2>4. QED BY <1>7, <2>2, <2>3 DEF SyncPlan
<1>9. QED BY <1>1, <1>2, <1>3, <1>5, <1>6, <1>8

\* A file that an item of a sync leaves alone keeps its standing.
LEMMA SyncFileKept ==
  ASSUME TypeInv, Next, pc = "apply", Syncs, SyncPlan,
         NEW kind, NEW p \in Paths, Applying(kind, p),
         NEW q \in Files, q # p, SyncFile(q),
         tree'["local"][q] = tree["local"][q], tree'["remote"][q] = tree["remote"][q]
  PROVE  SyncFile(q)'
<1>1. Pending(q)' = Pending(q) /\ Decided(q)' = Decided(q) BY SyncApplying DEF Files
<1>2. Untouched(q)' = Untouched(q) BY ApplyingFacts DEF Untouched
<1>3. Agree(q)' = Agree(q) BY ApplyingFacts DEF Agree
<1>4. HeldLocally(q, tree["remote"][q])'
  <2>1. Known("local", q) \subseteq Known("local", q)' BY KnownGrows DEF Sides
  <2>2. QED BY <2>1, ApplyingFacts DEF SyncFile, HeldLocally
<1>5. QED BY <1>1, <1>2, <1>3, <1>4 DEF SyncFile

\* Put brings the remote file to the local version.
LEMMA SyncPut ==
  ASSUME TypeInv, Inv, Next, Syncs, NEW p \in Files, Put(p)
  PROVE  Reconciling'
<1>0. /\ p \in Paths /\ Applying("Put", p) /\ pc = "apply"
      /\ tree \in [Sides -> Trees] /\ "local" \in Sides /\ "remote" \in Sides
  BY DEF Put, Applying, Files, TypeInv, TypeOK, Sides
<1>1. SyncPlan /\ \A q \in Files : SyncFile(q) BY <1>0 DEF Inv, Reconciling
<1>2. /\ tree'["local"] = tree["local"]
      /\ \A q \in Files : tree'["remote"][q] = IF q = p THEN Uploaded(p) ELSE tree["remote"][q]
  BY <1>0, FileEffects DEF Put
<1>3. ASSUME NEW q \in Files PROVE SyncFile(q)'
  <2>1. CASE q # p BY <1>0, <1>1, <1>2, <2>1, SyncFileKept
  <2>2. CASE q = p
    <3>1. ~Pending(p)' /\ Decided(p)' # "Skip" BY <1>0, <1>1, SyncApplying
    <3>2. Uploaded(p).data = tree["local"][p].data BY CopiedType
    <3>3. Agree(p)' BY <1>2, <3>2 DEF Agree
    <3>4. tree["local"][p].data \in seen["local"][p]
      BY <1>0 DEF Put, TypeInv, Shapes, IsTree, Inv, Held
    <3>5. tree'["remote"][p].data \in Known("local", p)'
      BY <1>0, <1>2, <3>2, <3>4, KnownGrows
    <3>6. HeldLocally(p, tree["remote"][p])' BY <3>5 DEF HeldLocally
    <3>7. QED BY <2>2, <3>1, <3>3, <3>6 DEF SyncFile
  <2>3. QED BY <2>1, <2>2
<1>4. SyncPlan' BY <1>0, <1>1, SyncApplying
<1>5. QED BY <1>3, <1>4 DEF Reconciling

\* Get brings the local file to the remote version.
LEMMA SyncGet ==
  ASSUME TypeInv, Inv, Next, Syncs, NEW p \in Files, Get(p)
  PROVE  Reconciling'
<1>0. /\ p \in Paths /\ Applying("Get", p) /\ pc = "apply"
      /\ tree \in [Sides -> Trees] /\ "local" \in Sides /\ "remote" \in Sides
      /\ seen \in [Sides -> [Files -> SUBSET Versions]]
  BY DEF Get, Applying, Files, TypeInv, TypeOK, Sides
<1>1. SyncPlan /\ \A q \in Files : SyncFile(q) BY <1>0 DEF Inv, Reconciling
<1>2. /\ tree'["remote"] = tree["remote"]
      /\ \A q \in Files : tree'["local"][q] = IF q = p THEN Downloaded(p) ELSE tree["local"][q]
  BY <1>0, FileEffects DEF Get
<1>3. ASSUME NEW q \in Files PROVE SyncFile(q)'
  <2>1. CASE q # p BY <1>0, <1>1, <1>2, <2>1, SyncFileKept
  <2>2. CASE q = p
    <3>1. ~Pending(p)' /\ Decided(p)' # "Skip" BY <1>0, <1>1, SyncApplying
    <3>2. Downloaded(p).data = tree["remote"][p].data BY CopiedType
    <3>3. Agree(p)' BY <1>2, <3>2 DEF Agree
    <3>4. tree["remote"][p].data \in seen'["local"][p] BY <1>0 DEF Get, Saw
    <3>7. tree["remote"][p].data \in Known("local", p)' BY <1>0, <3>4, KnownGrows
    <3>5. HeldLocally(p, tree["remote"][p])' BY <1>2, <3>7 DEF HeldLocally
    <3>6. QED BY <2>2, <3>1, <3>3, <3>5 DEF SyncFile
  <2>3. QED BY <2>1, <2>2
<1>4. SyncPlan' BY <1>0, <1>1, SyncApplying
<1>5. QED BY <1>3, <1>4 DEF Reconciling

\* A deletion leaves neither side with the file; a directory that is deleted
\* takes files with it that the other side does not have.
LEMMA SyncDelete ==
  ASSUME TypeInv, Inv, Next, Syncs, NEW p \in Paths,
         NEW kind, NEW s \in Sides, DeleteItem(kind, s, p),
         \/ kind = "DeleteLocal" /\ s = "local"
         \/ kind = "DeleteRemote" /\ s = "remote"
  PROVE  Reconciling'
<1> DEFINE o == Other(s)
           snap(side) == IF side = "local" THEN lsnap ELSE rsnap
<1>0. /\ Applying(kind, p) /\ pc = "apply"
      /\ tree \in [Sides -> Trees] /\ o \in Sides /\ o # s /\ Sides = {s, o}
      /\ None.kind = "none" /\ DirMeta # None
  BY DEF DeleteItem, Applying, TypeInv, TypeOK, Sides, Other, None, DirMeta, Meta
<1>1. SyncPlan /\ \A q \in Files : SyncFile(q) BY <1>0 DEF Inv, Reconciling
<1>2. /\ tree'[o] = tree[o]
      /\ \A q \in Files : tree'[s][q] = IF q = p \/ DirOf[q] = p THEN None ELSE tree[s][q]
  BY <1>0, FileEffects DEF DeleteItem
<1>3. Decided(p) = kind /\ snap(o)[p] = None
  <2>1. Decided(p) = kind BY <1>0, <1>1, SyncApplying
  <2>2. QED BY <2>1, DecideCases DEF Decided, Other
<1>4. IsTree(snap(o)) /\ UNCHANGED <<lsnap, rsnap>> BY <1>0, ApplyingFacts DEF TypeInv, Shapes
<1>5. \A q \in Files : Untouched(q) = (tree[s][q] \in {snap(s)[q], None} /\ tree[o][q] \in {snap(o)[q], None})
  BY <1>0 DEF Untouched, Other, Sides
<1>6. \A q \in Files : Untouched(q)' = (tree'[s][q] \in {snap(s)[q], None} /\ tree'[o][q] \in {snap(o)[q], None})
  BY <1>0, <1>4 DEF Untouched, Other, Sides
<1>7. ASSUME NEW q \in Files, tree'[o][q] = None, tree'[s][q] = None
      PROVE  Agree(q)' /\ HeldLocally(q, tree["remote"][q])'
  <2>1. tree'["local"][q] = None /\ tree'["remote"][q] = None BY <1>0, <1>7 DEF Sides
  <2>2. QED BY <1>0, <2>1 DEF Agree, HeldLocally
<1> HIDE DEF o, snap
<1>8. ASSUME NEW q \in Files PROVE SyncFile(q)'
  <2>1. CASE q = p
    <3>1. ~Pending(p)' /\ Pending(p) /\ Decided(p)' # "Skip" BY <1>0, <1>1, <1>3, SyncApplying
    <3>2. Untouched(p) BY <1>1, <2>1, <3>1 DEF SyncFile
    <3>3. tree'[o][p] = None BY <1>2, <1>3, <1>5, <2>1, <3>2
    <3>4. tree'[s][p] = None BY <1>2, <2>1
    <3>5. QED BY <1>7, <2>1, <3>1, <3>3, <3>4 DEF SyncFile
  <2>2. CASE q # p /\ DirOf[q] # p BY <1>0, <1>1, <1>2, <2>2, SyncFileKept DEF Sides
  <2>3. CASE q # p /\ DirOf[q] = p
    <3>1. Pending(q)' = Pending(q) /\ Decided(q)' = Decided(q) /\ Pending(p)
      BY <1>0, <1>1, <2>3, SyncApplying DEF Files
    <3>2. DirOf[q] # Top BY <2>3
    <3>3. Pending(q) \/ Decided(q) = "Skip" BY <1>1, <2>3, <3>1, <3>2 DEF SyncPlan
    <3>4. Untouched(q) BY <1>1, <3>3 DEF SyncFile
    <3>5. snap(o)[q] = None BY <1>0, <1>3, <1>4, <2>3, <3>2 DEF IsTree
    <3>6. tree'[o][q] = None /\ tree'[s][q] = None BY <1>2, <1>5, <2>3, <3>4, <3>5
    <3>7. Untouched(q)' BY <1>6, <3>6
    <3>8. QED BY <1>7, <3>6, <3>7 DEF SyncFile
  <2>4. QED BY <2>1, <2>2, <2>3
<1>9. SyncPlan' BY <1>0, <1>1, SyncApplying
<1>10. QED BY <1>8, <1>9 DEF Reconciling

\* The plan of sync or serve, made from two snapshots that are still exact.
LEMMA SyncPlanned ==
  ASSUME TypeInv, Inv, MakePlan, Syncs, pc' = "apply"
  PROVE  Reconciling'
<1> DEFINE local == tree["local"]
           remote == tree["remote"]
           items == sync_items(base, local, remote, cmd.delete)
<1>0. /\ cmd.op # "pull" /\ cmd.op # "push" /\ "local" \in Sides /\ "remote" \in Sides
      /\ IsTree(local) /\ IsTree(remote) /\ UNCHANGED <<base, seen, passed>>
  BY DEF Syncs, Sides, TypeInv, Shapes, MakePlan, saved, world
<1>1. lsnap = local BY <1>0 DEF MakePlan, Inv, Scanned
<1>2. /\ tree' = tree /\ lsnap' = local /\ rsnap' = remote /\ cmd' = cmd
      /\ plan' = items /\ \A i \in items : i.kind # "Conflict"
  BY <1>0, <1>1 DEF MakePlan, Return, Plan, LocalScan, RemoteScan, IsConflict
<1>3. \A p : Decided(p)' = Decide(base[p], local[p], remote[p], cmd.delete)
  BY <1>0, <1>2 DEF Decided
<1>4. /\ \A p \in Paths : Decided(p)' # "Skip" => Item(Decided(p)', p) \in items
      /\ \A i \in items : i.path \in Paths /\ i.kind = Decided(i.path)'
      /\ \A k, p : Item(k, p).kind = k /\ Item(k, p).path = p
  BY <1>3 DEF sync_items, Item
<1> HIDE DEF items
<1>5. \A p \in Paths : Pending(p)' \/ Decided(p)' = "Skip"
  BY <1>2, <1>4 DEF Pending
<1>6. SyncPlan'
  <2>1. \A i \in plan' : i.kind = Decided(i.path)' BY <1>2, <1>4
  <2>2. \A p \in Paths : Decided(p)' # "Conflict" BY <1>2, <1>4
  <2>3. \A p \in Files : Pending(p)' \/ Decided(p)' = "Skip" BY <1>5 DEF Files
  <2>4. QED BY <2>1, <2>2, <2>3 DEF SyncPlan
<1>7. ASSUME NEW p \in Files PROVE SyncFile(p)'
  <2>0. p \in Paths /\ (local[p] # None => local[p].kind = "file") /\ (remote[p] # None => remote[p].kind = "file")
    BY <1>0 DEF Files, IsTree
  <2>1. Untouched(p)' BY <1>2 DEF Untouched
  <2>2. ASSUME Decided(p)' = "Skip"
        PROVE  /\ Agree(p)'
               /\ remote[p].kind = "file" => remote[p].data \in Known("local", p)
    <3>1. \/ local[p] = remote[p]
          \/ remote[p] = base[p] /\ local[p].kind # "file" /\ ~(cmd.delete /\ local[p] = None)
          \/ local[p] = base[p] /\ remote[p].kind # "file" /\ ~(cmd.delete /\ remote[p] = None)
      BY <1>3, <2>2, DecideCases
    <3>2. Agree(p)' BY <1>2, <2>0, <3>1 DEF Agree
    <3>3. remote[p].kind = "file" => remote[p].data \in Known("local", p)
      BY <1>0, <3>1 DEF Inv, Held, Known
    <3>4. QED BY <3>2, <3>3
  <2>3. HeldLocally(p, tree["remote"][p])'
    <3>1. CASE Decided(p)' = "Skip" BY <1>0, <1>2, <2>2, <3>1 DEF HeldLocally, Known
    <3>2. CASE Decided(p)' # "Skip"
      <4>1. Item(Decided(p)', p) \in plan' /\ Item(Decided(p)', p).path = p BY <1>2, <1>4, <2>0, <3>2
      <4>2. QED BY <4>1 DEF HeldLocally
    <3>3. QED BY <3>1, <3>2
  <2>4. Pending(p)' \/ Agree(p)' BY <1>5, <2>0, <2>2
  <2>5. QED BY <2>1, <2>3, <2>4 DEF SyncFile
<1>8. QED BY <1>6, <1>7 DEF Reconciling

\* pull: the remote side does not change, and the local one gets what it has not had.
LEMMA PullNext ==
  ASSUME TypeInv, Inv, Next, pc' = "apply", cmd'.op = "pull",
         \/ MakePlan
         \/ \E p \in Files : Put(p) \/ Get(p)
         \/ \E p \in Paths : DeleteItem("DeleteLocal", "local", p)
         \/ \E p \in Paths : DeleteItem("DeleteRemote", "remote", p)
  PROVE  Pulling'
<1>0. /\ tree \in [Sides -> Trees] /\ "local" \in Sides /\ "remote" \in Sides
      /\ IsTree(tree["local"]) /\ IsTree(tree["remote"]) /\ IsTree(rsnap)
      /\ \A k, p : Item(k, p).kind = k /\ Item(k, p).path = p
      /\ seen \in [Sides -> [Files -> SUBSET Versions]]
  BY DEF TypeInv, TypeOK, Sides, Shapes, Item
<1>1. CASE MakePlan
  <2> DEFINE local == tree["local"]
             items == pull_items(local, rsnap, cmd.delete)
  <2>1. cmd' = cmd /\ cmd.op = "pull" /\ pc = "plan" /\ UNCHANGED <<seen, passed>> BY <1>1 DEF MakePlan, Return, world
  <2>2. rsnap = tree["remote"] BY <2>1 DEF Inv, Scanned
  <2>3. rsnap' = rsnap /\ tree'["remote"] = tree["remote"] /\ plan' \subseteq items
        /\ (plan' # items => pc' = "conflict")
    BY <1>0, <1>1, <2>1 DEF MakePlan, Return, Plan, LocalScan
  <2>4. plan' = items BY <2>3
  <2>5. /\ \A i \in items : i.kind \in {"Get", "DeleteLocal"}
        /\ \A i \in items : i.kind = "DeleteLocal" => rsnap[i.path] = None
        /\ \A p \in Paths : rsnap[p].kind = "file" /\ local[p] # rsnap[p] => Item("Get", p) \in items
    BY DEF pull_items, Items, Item
  <2> HIDE DEF items
  <2>6. ASSUME NEW p \in Files PROVE HeldLocally(p, rsnap[p])'
    <3>1. CASE rsnap[p].kind = "file" /\ local[p] # rsnap[p]
      BY <1>0, <2>4, <2>5, <3>1 DEF HeldLocally, Files
    <3>2. CASE rsnap[p].kind = "file" /\ local[p] = rsnap[p]
      <4>1. local[p].data \in seen["local"][p] BY <1>0, <3>2 DEF Inv, Held
      <4>2. QED BY <2>1, <2>3, <3>2, <4>1 DEF HeldLocally, Known
    <3>3. CASE rsnap[p].kind # "file" BY <2>3, <3>3 DEF HeldLocally
    <3>4. QED BY <3>1, <3>2, <3>3
  <2>7. QED BY <2>2, <2>3, <2>4, <2>5, <2>6 DEF Pulling
<1>2. ASSUME NEW kind, NEW p \in Paths, Applying(kind, p),
             UNCHANGED tree["remote"],
             p \in Files => kind = "DeleteLocal" \/ tree["remote"][p].data \in Known("local", p)'
      PROVE  Pulling'
  <2>1. pc = "apply" /\ cmd.op = "pull" BY <1>2, ApplyingFacts
  <2>2. /\ rsnap = tree["remote"] /\ rsnap' = rsnap /\ plan' \subseteq plan
        /\ \A item \in plan : item.kind \in {"Get", "DeleteLocal"}
        /\ \A item \in plan : item.kind = "DeleteLocal" => rsnap[item.path] = None
        /\ \A q \in Files : HeldLocally(q, rsnap[q])
    BY <1>2, <2>1, ApplyingFacts DEF Inv, Pulling
  <2>3. ASSUME NEW q \in Files PROVE HeldLocally(q, rsnap[q])'
    <3>1. CASE q # p BY <1>0, <1>2, <2>2, <3>1, ApplyingFacts, KnownGrows DEF HeldLocally
    <3>2. CASE q = p /\ kind = "DeleteLocal"
      <4>1. rsnap[p] = None BY <1>2, <2>2, <3>2, ApplyingFacts
      <4>2. QED BY <2>2, <3>2, <4>1 DEF HeldLocally, None, Meta
    <3>3. CASE q = p /\ kind # "DeleteLocal" BY <1>2, <2>2, <3>3 DEF HeldLocally
    <3>4. QED BY <3>1, <3>2, <3>3
  <2>4. QED BY <1>2, <2>2, <2>3 DEF Pulling
<1>3. ASSUME NEW kind, NEW p \in Paths, Applying(kind, p)
      PROVE  kind \in {"Get", "DeleteLocal"}
  <2>1. pc = "apply" /\ cmd.op = "pull" BY <1>3, ApplyingFacts
  <2>2. QED BY <1>3, <2>1, ApplyingFacts DEF Inv, Pulling
<1>4. ASSUME NEW p \in Files, Put(p) PROVE FALSE
  BY <1>3, <1>4 DEF Put, Files
<1>5. ASSUME NEW p \in Files, Get(p) PROVE Pulling'
  <2>1. Applying("Get", p) /\ p \in Paths BY <1>5 DEF Get, Files
  <2>2. tree'["remote"] = tree["remote"] BY <1>0, <1>5 DEF Get
  <2>3. tree["remote"][p].data \in seen'["local"][p] BY <1>0, <1>5 DEF Get, Saw
  <2>4. tree["remote"][p].data \in Known("local", p)' BY <1>0, <2>3, KnownGrows
  <2>5. QED BY <1>2, <2>1, <2>2, <2>4
<1>6. ASSUME NEW p \in Paths, DeleteItem("DeleteLocal", "local", p) PROVE Pulling'
  <2>1. Applying("DeleteLocal", p) BY <1>6 DEF DeleteItem
  <2>2. tree'["remote"] = tree["remote"] BY <1>0, <1>6 DEF DeleteItem
  <2>3. QED BY <1>2, <2>1, <2>2
<1>7. ASSUME NEW p \in Paths, DeleteItem("DeleteRemote", "remote", p) PROVE FALSE
  BY <1>3, <1>7 DEF DeleteItem
<1>8. QED BY <1>1, <1>4, <1>5, <1>6, <1>7

\* push: a remote file becomes the local version, goes, or is passed over.
LEMMA PushNext ==
  ASSUME TypeInv, Inv, Next, pc' = "apply", cmd'.op = "push",
         \/ MakePlan
         \/ \E p \in Files : Put(p) \/ Get(p)
         \/ \E p \in Paths : DeleteItem("DeleteLocal", "local", p)
         \/ \E p \in Paths : DeleteItem("DeleteRemote", "remote", p)
  PROVE  Pushing'
<1>0. /\ tree \in [Sides -> Trees] /\ "local" \in Sides /\ "remote" \in Sides
      /\ IsTree(tree["local"]) /\ IsTree(tree["remote"]) /\ IsTree(lsnap)
      /\ \A k, p : Item(k, p).kind = k /\ Item(k, p).path = p
      /\ None.kind = "none"
  BY DEF TypeInv, TypeOK, Sides, Shapes, Item, None, Meta
<1>1. CASE MakePlan
  <2> DEFINE remote == tree["remote"]
             items == push_items(lsnap, remote, cmd.delete)
  <2>1. cmd' = cmd /\ cmd.op = "push" /\ pc = "plan" /\ UNCHANGED <<seen, passed>>
    BY <1>1 DEF MakePlan, Return, world
  <2>2. lsnap = tree["local"] BY <2>1 DEF Inv, Scanned
  <2>3. /\ \A i \in items : i.kind \in {"Put", "DeleteRemote"}
        /\ \A p \in Paths : lsnap[p].kind = "file" /\ remote[p] # lsnap[p] => Item("Put", p) \in items
        /\ \A p \in Paths : cmd.delete /\ remote[p] # None /\ lsnap[p] = None => Item("DeleteRemote", p) \in items
    <3> DEFINE extra == {p \in Paths : cmd.delete /\ remote[p] # None /\ lsnap[p] = None}
    <3>1. items = Items("Put", {p \in Paths : lsnap[p].kind = "file" /\ remote[p] # lsnap[p]})
                    \cup Items("DeleteRemote", extra)
      BY DEF push_items
    <3>2. \A p \in Paths : cmd.delete /\ remote[p] # None /\ lsnap[p] = None => p \in extra
      BY Zenon
    <3> HIDE DEF items, extra
    <3>4. \A i \in items : i.kind \in {"Put", "DeleteRemote"} BY <3>1 DEF Items, Item
    <3>5. \A p \in Paths : lsnap[p].kind = "file" /\ remote[p] # lsnap[p] => Item("Put", p) \in items
      BY <3>1 DEF Items
    <3>6. \A p \in extra : Item("DeleteRemote", p) \in items
      BY <3>1 DEF Items
    <3>7. QED BY <3>2, <3>4, <3>5, <3>6, Zenon
  <2>4. /\ plan' = IF cmd.dry THEN {} ELSE items
        /\ tree'["remote"] = EnsureDirs(remote, lsnap) /\ lsnap' = lsnap
    <3> DEFINE its == Plan(lsnap, RemoteScan)
    <3>1. its = items BY <2>1 DEF Plan, RemoteScan
    <3>2. {i \in its : IsConflict(i)} = {}
      <4> HIDE DEF items, its
      <4>1. QED BY <2>3, <3>1 DEF IsConflict
    <3> HIDE DEF its
    <3>3. lsnap' = lsnap /\ plan' = IF cmd.dry THEN {} ELSE its
      BY <1>1, <2>1, <3>2 DEF MakePlan, Return, its
    <3>4. tree' = [tree EXCEPT !["remote"] = EnsureDirs(@, lsnap)]
      BY <1>1, <2>1 DEF MakePlan
    <3>5. QED BY <1>0, <3>1, <3>3, <3>4
  <2> HIDE DEF items
  <2>7. ASSUME NEW p \in Files PROVE PassedOver(p)' \/ HeldLocally(p, tree["remote"][p])'
    <3>1. tree'["remote"][p] = remote[p] /\ p \in Paths BY <1>0, <2>4, FileEffects DEF Files
    <3>0. PassedOver(p)' = (/\ remote[p].kind = "file"
                            /\ IF cmd.dry THEN remote[p] # lsnap[p] ELSE ~cmd.delete /\ lsnap[p] = None)
      BY <2>1, <2>4, <3>1 DEF PassedOver, RemoteScan
    <3>2. CASE remote[p].kind # "file" BY <3>1, <3>2 DEF HeldLocally
    <3>3. CASE remote[p].kind = "file" /\ remote[p] = lsnap[p]
      <4>1. remote[p].data \in seen["local"][p] BY <1>0, <2>2, <3>3 DEF Inv, Held
      <4>2. QED BY <2>1, <3>1, <4>1 DEF HeldLocally, Known
    <3>4. CASE remote[p].kind = "file" /\ remote[p] # lsnap[p] /\ cmd.dry
      BY <3>0, <3>4, Zenon
    <3>5. CASE remote[p].kind = "file" /\ remote[p] # lsnap[p] /\ ~cmd.dry
      <4>0. plan' = items BY <2>4, <3>5
      <4>1. CASE lsnap[p] # None
        <5>1. lsnap[p].kind = "file" BY <1>0, <4>1 DEF IsTree
        <5>2. Item("Put", p) \in plan' BY <2>3, <3>1, <3>5, <4>0, <5>1
        <5>3. QED BY <1>0, <5>2 DEF HeldLocally
      <4>2. CASE lsnap[p] = None /\ cmd.delete
        <5>1. remote[p] # None BY <1>0, <3>5
        <5>2. Item("DeleteRemote", p) \in plan' BY <2>3, <3>1, <4>0, <4>2, <5>1
        <5>3. QED BY <1>0, <5>2 DEF HeldLocally
      <4>3. CASE lsnap[p] = None /\ ~cmd.delete BY <3>0, <3>5, <4>3, Zenon
      <4>4. QED BY <4>1, <4>2, <4>3
    <3>6. QED BY <3>2, <3>3, <3>4, <3>5
  <2>8. \A i \in plan' : i.kind \in {"Put", "DeleteRemote"} /\ ~cmd'.dry
    <3>1. CASE cmd.dry BY <2>4, <3>1
    <3>2. CASE ~cmd.dry BY <2>1, <2>3, <2>4, <3>2
    <3>3. QED BY <3>1, <3>2
  <2>9. QED BY <2>7, <2>8 DEF Pushing
<1>2. ASSUME NEW kind, NEW p \in Paths, Applying(kind, p)
      PROVE  /\ kind \in {"Put", "DeleteRemote"} /\ plan' \subseteq plan /\ ~cmd.dry
             /\ cmd.op = "push" /\ UNCHANGED <<cmd, lsnap>>
             /\ \A item \in plan : item.kind \in {"Put", "DeleteRemote"} /\ ~cmd.dry
             /\ \A q \in Files : PassedOver(q) \/ HeldLocally(q, tree["remote"][q])
  <2>1. pc = "apply" /\ cmd.op = "push" BY <1>2, ApplyingFacts
  <2>2. QED BY <1>2, <2>1, ApplyingFacts DEF Inv, Pushing
<1>3. ASSUME NEW kind, NEW p \in Paths, Applying(kind, p),
             NEW q \in Files, q # p, tree'["remote"][q] \in {tree["remote"][q], None}
      PROVE  PassedOver(q)' \/ HeldLocally(q, tree["remote"][q])'
  <2>1. CASE tree'["remote"][q] = None BY <1>0, <2>1 DEF HeldLocally
  <2>2. CASE tree'["remote"][q] = tree["remote"][q]
    <3>1. PassedOver(q)' = PassedOver(q) BY <1>2, <1>3, <2>2 DEF PassedOver, RemoteScan
    <3>2. HeldLocally(q, tree["remote"][q]) => HeldLocally(q, tree["remote"][q])'
      BY <1>0, <1>2, <1>3, <2>2, ApplyingFacts, KnownGrows DEF HeldLocally
    <3>3. PassedOver(q) \/ HeldLocally(q, tree["remote"][q]) BY <1>2, <1>3
    <3>4. QED BY <3>1, <3>2, <3>3
  <2>3. QED BY <1>3, <2>1, <2>2
<1>4. ASSUME NEW p \in Files, Put(p) PROVE Pushing'
  <2>1. Applying("Put", p) /\ p \in Paths BY <1>4 DEF Put, Files
  <2>2. \A q \in Files : tree'["remote"][q] = IF q = p THEN Uploaded(p) ELSE tree["remote"][q]
    BY <1>0, <1>4, FileEffects DEF Put
  <2>3. tree["local"][p].data \in seen["local"][p]
    BY <1>0, <1>4 DEF Put, IsTree, Inv, Held
  <2>4. tree'["remote"][p].data \in Known("local", p)' BY <1>0, <2>2, <2>3, CopiedType, KnownGrows
  <2>5. \A q \in Files : PassedOver(q)' \/ HeldLocally(q, tree["remote"][q])'
    <3>1. HeldLocally(p, tree["remote"][p])' BY <2>4 DEF HeldLocally
    <3>2. QED BY <1>3, <2>1, <2>2, <3>1
  <2>6. QED BY <1>2, <2>1, <2>5 DEF Pushing
<1>5. ASSUME NEW p \in Paths, DeleteItem("DeleteRemote", "remote", p) PROVE Pushing'
  <2>1. Applying("DeleteRemote", p) BY <1>5 DEF DeleteItem
  <2>2. \A q \in Files : tree'["remote"][q] = IF q = p \/ DirOf[q] = p THEN None ELSE tree["remote"][q]
    BY <1>0, <1>5, FileEffects DEF DeleteItem
  <2>3. ASSUME NEW q \in Files PROVE PassedOver(q)' \/ HeldLocally(q, tree["remote"][q])'
    <3>1. CASE q = p
      <4>1. tree'["remote"][q] = None BY <2>2, <3>1
      <4>2. QED BY <1>0, <4>1 DEF HeldLocally
    <3>2. CASE q # p BY <1>3, <2>1, <2>2, <3>2
    <3>3. QED BY <3>1, <3>2
  <2>4. QED BY <1>2, <2>1, <2>3 DEF Pushing
<1>6. ASSUME NEW p \in Files, Get(p) PROVE FALSE
  BY <1>2, <1>6 DEF Get, Files
<1>7. ASSUME NEW p \in Paths, DeleteItem("DeleteLocal", "local", p) PROVE FALSE
  BY <1>2, <1>7 DEF DeleteItem
<1>8. QED BY <1>1, <1>4, <1>5, <1>6, <1>7

\* The phases of a command that is applying its plan.
LEMMA ApplyNext ==
  ASSUME Quiet, TypeInv, Inv, Next
  PROVE  Pulling' /\ Pushing' /\ Reconciling'
<1>0. /\ pc' # "idle" => cmd' \in Commands
      /\ "local" \in Sides /\ "remote" \in Sides
  BY CommandNext DEF CommandType, Sides
<1>1. ASSUME pc' # "apply" PROVE Pulling' /\ Pushing' /\ Reconciling'
  BY <1>1 DEF Pulling, Pushing, Reconciling
<1>2. ASSUME pc' = "apply"
      PROVE  \/ MakePlan
             \/ \E p \in Files : Put(p) \/ Get(p)
             \/ \E p \in Paths : DeleteItem("DeleteLocal", "local", p)
             \/ \E p \in Paths : DeleteItem("DeleteRemote", "remote", p)
             \/ Tick
  BY <1>2 DEF Next, Edit, Delete, Merge, ChooseRemote, MayEdit, Start, FirstScan,
              WriteCopies, KilledInSwap, StopOnConflict, Fail, Applied, Save, SaveTorn, Return, command
<1>3. CASE Tick
  BY <1>3 DEF Tick, Inv, Pulling, Pushing, Reconciling, SyncPlan, SyncFile, Syncs, Pending, Decided,
              Untouched, Agree, HeldLocally, Known, PassedOver, RemoteScan, command, saved
<1>4. CASE pc' = "apply" /\ ~Tick
  <2>1. Pulling' BY <1>2, <1>4, PullNext DEF Pulling
  <2>2. Pushing' BY <1>2, <1>4, PushNext DEF Pushing
  <2>3. ASSUME Syncs' PROVE Reconciling'
    <3>1. Syncs
      BY <1>2, <1>4, <2>3 DEF Syncs, MakePlan, Return, Put, Get, DeleteItem, Applying
    <3>2. QED BY <1>0, <1>2, <1>4, <3>1, SyncPlanned, SyncPut, SyncGet, SyncDelete
  <2>4. Reconciling' BY <2>3 DEF Reconciling
  <2>5. QED BY <2>1, <2>2, <2>4
<1>5. QED BY <1>1, <1>3, <1>4

\* What a command scans first is still there when it scans the other side.
LEMMA ScannedNext ==
  ASSUME Quiet, TypeInv, Inv, Next
  PROVE  Scanned'
<1>1. ASSUME pc' = "plan" PROVE FirstScan \/ Tick
  BY <1>1 DEF Next, Edit, Delete, Merge, ChooseRemote, MayEdit, Start, MakePlan, Put, Get,
              DeleteItem, Applying, WriteCopies, KilledInSwap, StopOnConflict, Fail, Applied, Save,
              SaveTorn, Return, command
<1>2. CASE FirstScan
  BY <1>2 DEF FirstScan, Scanned, LocalScan, RemoteScan
<1>3. CASE Tick BY <1>3 DEF Tick, Inv, Scanned, command
<1>4. QED BY <1>1, <1>2, <1>3 DEF Scanned

\* What a command is about to save both sides have held; after a sync they agree.
LEMMA SavingNext ==
  ASSUME Quiet, TypeInv, Inv, Next
  PROVE  Saving'
<1>1. ASSUME pc' = "save" PROVE Applied \/ Tick
  BY <1>1 DEF Next, Edit, Delete, Merge, ChooseRemote, MayEdit, Start, FirstScan, MakePlan, Put, Get,
              DeleteItem, Applying, WriteCopies, KilledInSwap, StopOnConflict, Fail, Save,
              SaveTorn, Return, command
<1>2. CASE Applied
  <2>1. /\ pc = "apply" /\ plan = {} /\ UNCHANGED <<tree, base, cmd, lsnap, plan, seen>>
        /\ rsnap' = IF cmd.op = "pull" THEN rsnap ELSE tree["remote"]
    BY <1>2 DEF Applied, RemoteScan, saved, world
  <2>2. cmd.op \in {"pull", "push", "sync", "serve"} BY <2>1 DEF TypeInv, Shapes
  <2>3. \A p \in Files : \/ HeldLocally(p, rsnap'[p])
                         \/ PassedOver(p) /\ rsnap'[p] = tree["remote"][p]
    <3>1. CASE cmd.op = "pull" BY <2>1, <3>1 DEF Inv, Pulling
    <3>2. CASE cmd.op = "push" BY <2>1, <3>2 DEF Inv, Pushing
    <3>3. CASE Syncs BY <2>1, <3>3 DEF Inv, Reconciling, SyncFile, Syncs
    <3>4. QED BY <2>2, <3>1, <3>2, <3>3 DEF Syncs
  <2>4. ASSUME NEW p \in Files, rsnap'[p].kind = "file" PROVE rsnap'[p].data \in Known("local", p)'
    <3>1. CASE HeldLocally(p, rsnap'[p])
      <4>1. rsnap'[p].data \in Known("local", p) BY <2>1, <2>4, <3>1 DEF HeldLocally
      <4>2. QED BY <4>1, KnownGrows DEF Sides
    <3>2. CASE PassedOver(p) /\ rsnap'[p] = tree["remote"][p]
      <4>1. tree["remote"][p].data \in passed'[p] BY <1>2, <3>2 DEF Applied, RemoteScan
      <4>2. QED BY <3>2, <4>1 DEF Known
    <3>3. QED BY <2>3, <3>1, <3>2
  <2>5. \A p \in Files : rsnap'[p].kind = "file" => rsnap'[p].data \in Known("remote", p)'
    <3>1. rsnap' = tree["remote"] BY <2>1 DEF Inv, Pulling
    <3>2. \A p \in Files : rsnap'[p].kind = "file" => rsnap'[p].data \in seen["remote"][p]
      BY <3>1 DEF Inv, Held, Sides
    <3>3. QED BY <2>1, <3>2 DEF Known
  <2>6. ASSUME Syncs', NEW p \in Files PROVE Agree(p)'
    <3>1. Syncs /\ ~Pending(p) BY <2>1, <2>6 DEF Syncs, Pending
    <3>2. Agree(p) BY <2>1, <3>1 DEF Inv, Reconciling, SyncFile
    <3>3. QED BY <2>1, <3>2 DEF Agree
  <2>7. QED BY <2>1, <2>4, <2>5, <2>6 DEF Saving, Sides
<1>3. CASE Tick BY <1>3 DEF Tick, Inv, Saving, Syncs, Agree, Known, command
<1>4. QED BY <1>1, <1>2, <1>3 DEF Saving

\* The invariant is inductive if nobody edits while a command runs,
LEMMA InvNext ==
  ASSUME Quiet, TypeInv, Inv, [Next]_vars
  PROVE  Inv'
<1>1. CASE Next
  BY <1>1, HeldNext, ApplyNext, ScannedNext, SavingNext DEF Inv
<1>2. CASE UNCHANGED vars
  BY <1>2 DEF vars, saved, command, world, Inv, Held, Scanned, Pulling, Pushing, Reconciling, Saving,
              SyncPlan, SyncFile, Syncs, Pending, Decided, Untouched, Agree, HeldLocally, Known, PassedOver, RemoteScan
<1>3. QED BY <1>1, <1>2

\* holds at the start, when nothing has been saved,
LEMMA InvInit == Init => Inv
<1> SUFFICES ASSUME Init PROVE Inv OBVIOUS
<1>1. \A s \in Sides, p \in Files : tree[s][p].kind = "none" /\ base[p].kind = "none"
  BY DEF Init, NoTree, None, Meta, Files
<1>2. QED BY <1>1 DEF Init, Inv, Held, Scanned, Pulling, Pushing, Reconciling, Saving

\* and always.
LEMMA InvAlways ==
  ASSUME Quiet
  PROVE  Spec => [](TypeInv /\ Inv)
<1>1. TypeInv /\ Inv /\ [Next]_vars => Inv' BY Quiet, InvNext
<1>2. QED BY <1>1, TypeInvAlways, InvInit, PTL DEF Spec

\* The base means what sync takes it for: a version in it has been on the
\* local side or a push has passed over it, whatever commands fail, are killed,
\* run dry or tear the snapshot while saving it, for any commands, any tree and
\* any number of edits between them.
THEOREM MirrorBaseHonest ==
  ASSUME Quiet
  PROVE  Spec => []BaseHonest
<1>1. Inv => BaseHonest BY DEF Inv, Held, BaseHonest, Sides
<1>2. QED BY <1>1, InvAlways, PTL

\* An item of a sync replaces or deletes a version only if the other side has
\* had it.
LEMMA NoClobberStep ==
  ASSUME TypeInv, Inv, Next, NEW s \in Sides, NEW p \in Files,
         Syncing, AtWork(p), Replaced(s, p), Quiet
  PROVE  tree[s][p].data \in Known(Other(s), p)
<1>0. /\ pc = "apply" /\ Syncs /\ tree'[s][p] # tree[s][p] /\ tree[s][p].kind = "file"
      /\ "local" \in Sides /\ "remote" \in Sides /\ p \in Paths
      /\ tree \in [Sides -> Trees] /\ None.kind = "none"
  BY DEF Syncing, Syncs, Replaced, Sides, Files, TypeInv, TypeOK, None, Meta
<1>1. PICK item \in plan \ plan' : item.path = p BY DEF AtWork
<1>2. SyncPlan /\ SyncFile(p) BY <1>0 DEF Inv, Reconciling
<1>3. item.kind = Decided(p) BY <1>1, <1>2 DEF SyncPlan
<1>4. Pending(p)
  <2>1. item \in PlanItems BY <1>1 DEF TypeInv, TypeOK
  <2>2. item = Item(Decided(p), p) BY <1>1, <1>3, <2>1 DEF PlanItems, Item
  <2>3. QED BY <1>1, <2>2 DEF Pending
<1>5. tree["local"][p] \in {lsnap[p], None} /\ tree["remote"][p] \in {rsnap[p], None}
  BY <1>2, <1>4 DEF SyncFile, Untouched
<1>6. base[p].kind = "file" => base[p].data \in Known("local", p) /\ base[p].data \in Known("remote", p)
  BY <1>0 DEF Inv, Held
<1>7. ASSUME NEW kind, NEW q \in Paths, Applying(kind, q) PROVE q = p /\ kind = Decided(p)
  <2>1. plan \ plan' = {Item(kind, q)} /\ Item(kind, q).path = q /\ Item(kind, q).kind = kind
    BY <1>7, ApplyingFacts
  <2>2. QED BY <1>1, <1>3, <2>1
<1>8. ASSUME NEW q \in Files, Put(q) PROVE tree[s][p].data \in Known(Other(s), p)
  <2>1. q = p /\ Decided(p) = "Put" BY <1>7, <1>8 DEF Put, Files
  <2>2. s = "remote" BY <1>0, <1>8 DEF Put, Sides
  <2>3. rsnap[p] = base[p] BY <2>1, DecideCases DEF Decided
  <2>4. QED BY <1>0, <1>5, <1>6, <2>2, <2>3 DEF Other
<1>9. ASSUME NEW q \in Files, Get(q) PROVE tree[s][p].data \in Known(Other(s), p)
  <2>1. q = p /\ Decided(p) = "Get" BY <1>7, <1>9 DEF Get, Files
  <2>2. s = "local" BY <1>0, <1>9 DEF Get, Sides
  <2>3. lsnap[p] = base[p] BY <2>1, DecideCases DEF Decided
  <2>4. QED BY <1>0, <1>5, <1>6, <2>2, <2>3 DEF Other
<1>10. ASSUME NEW q \in Paths, DeleteItem("DeleteLocal", "local", q)
       PROVE tree[s][p].data \in Known(Other(s), p)
  <2>1. q = p /\ Decided(p) = "DeleteLocal" BY <1>7, <1>10 DEF DeleteItem
  <2>2. s = "local" BY <1>0, <1>10 DEF DeleteItem, Sides
  <2>3. lsnap[p] = base[p] BY <2>1, DecideCases DEF Decided
  <2>4. QED BY <1>0, <1>5, <1>6, <2>2, <2>3 DEF Other
<1>11. ASSUME NEW q \in Paths, DeleteItem("DeleteRemote", "remote", q)
       PROVE tree[s][p].data \in Known(Other(s), p)
  <2>1. q = p /\ Decided(p) = "DeleteRemote" BY <1>7, <1>11 DEF DeleteItem
  <2>2. s = "remote" BY <1>0, <1>11 DEF DeleteItem, Sides
  <2>3. rsnap[p] = base[p] BY <2>1, DecideCases DEF Decided
  <2>4. QED BY <1>0, <1>5, <1>6, <2>2, <2>3 DEF Other
<1>12. QED
  BY <1>0, <1>8, <1>9, <1>10, <1>11
  DEF Next, Edit, Delete, Merge, ChooseRemote, MayEdit, Tick, Start, FirstScan, MakePlan,
      WriteCopies, KilledInSwap, StopOnConflict, Fail, Applied, Save, SaveTorn

\* sync never replaces or deletes a file whose version the other side has not
\* had and no push has passed over, for any commands, any tree, any edits
\* between commands, any failures and torn saves.
THEOREM MirrorNoClobber ==
  ASSUME Quiet
  PROVE  Spec => NoClobber
<1> DEFINE A == \A s \in Sides, p \in Files :
                  Syncing /\ AtWork(p) /\ Replaced(s, p) => tree[s][p].data \in Known(Other(s), p)
<1>1. TypeInv /\ Inv /\ [Next]_vars => [A]_vars
  <2> SUFFICES ASSUME TypeInv, Inv, Next PROVE A OBVIOUS
  <2>1. QED BY Quiet, NoClobberStep
<1>2. QED BY <1>1, InvAlways, PTL DEF Spec, NoClobber

\* After a sync or serve that ends well both sides hold the same version of
\* every file they both have, and with --delete of every file.
THEOREM MirrorSyncAgrees ==
  ASSUME Quiet
  PROVE  Spec => SyncAgrees
<1> DEFINE A == pc = "save" /\ cmd.op \in {"sync", "serve"} /\ base' = rsnap /\ pc' = "idle" =>
                  \A p \in Files :
                    \/ tree["local"][p].data = tree["remote"][p].data
                    \/ ~cmd.delete /\ None \in {tree["local"][p], tree["remote"][p]}
<1>1. TypeInv /\ Inv /\ [Next]_vars => [A]_vars
  BY DEF Inv, Saving, Syncs, Agree
<1>2. QED BY <1>1, InvAlways, PTL DEF Spec, SyncAgrees
=============================================================================
