------------------------------- MODULE Inodes -------------------------------
(***************************************************************************)
(* The inode table of the mount core (struct Inodes, vfs.rs).  The kernel  *)
(* (FUSE) or the NFS client names files by inode number; the server only   *)
(* knows paths.  The table maps one to the other in both directions and is *)
(* kept under a lock of its own, so every table operation is atomic, but a *)
(* request resolves its paths under one acquisition of the lock and        *)
(* applies its change under a later one: other requests run in between.    *)
(*                                                                         *)
(* A path is a sequence of names; the empty string of the code is <<>>.    *)
(***************************************************************************)
EXTENDS Naturals, Sequences

CONSTANTS Names,      \* directory entry names
          Threads,    \* request handlers running at the same time
          MaxDepth,   \* bound: longest path the model builds
          MaxIno      \* bound: inode numbers the model hands out

ASSUME BoundsAssumption == MaxDepth \in Nat /\ MaxIno \in Nat

VARIABLES by_path,    \* path -> inode number
          by_ino,     \* inode number -> path
          next,       \* the next number to hand out
          call        \* what each handler has resolved so far

tableVars == <<by_path, by_ino, next, call>>

ROOT_INO == 1

AllPaths == Seq(Names)

NoCall == [op |-> "idle"]

-----------------------------------------------------------------------------
(* Paths. *)

\* key starts with path (as a whole number of components).
StartsWith(path, key) ==
  /\ Len(path) <= Len(key)
  /\ \A i \in 1..Len(path) : key[i] = path[i]

\* format!("{path}/") never matches below the root: keys have no leading '/'.
subtree_keys(path) ==
  {key \in DOMAIN by_path : key = path \/ (path # <<>> /\ StartsWith(path, key))}

\* format!("{to}{}", &key[from.len()..])
Rebased(from, to, key) == to \o SubSeq(key, Len(from) + 1, Len(key))

-----------------------------------------------------------------------------
(* Table operations: what one acquisition of the lock does. *)

RestrictTo(f, S) == [x \in S |-> f[x]]

\* A mutant: hand out the lowest free number instead of a fresh one.
InoReusing(path) ==
  LET fresh == CHOOSE n \in 1..next :
                 /\ n \notin DOMAIN by_ino
                 /\ \A m \in 1..next : m \notin DOMAIN by_ino => n <= m
  IN IF path \in DOMAIN by_path
     THEN UNCHANGED <<by_path, by_ino, next>>
     ELSE /\ by_path' = [p \in DOMAIN by_path \cup {path} |->
                           IF p = path THEN fresh ELSE by_path[p]]
          /\ by_ino' = [i \in DOMAIN by_ino \cup {fresh} |->
                          IF i = fresh THEN path ELSE by_ino[i]]
          /\ next' = next + 1

\* A mutant: a number is handed out but the counter is not advanced.
InoNotCounted(path) ==
  IF path \in DOMAIN by_path
  THEN UNCHANGED <<by_path, by_ino, next>>
  ELSE /\ by_path' = [p \in DOMAIN by_path \cup {path} |->
                        IF p = path THEN next ELSE by_path[p]]
       /\ by_ino' = [i \in DOMAIN by_ino \cup {next} |->
                       IF i = next THEN path ELSE by_ino[i]]
       /\ next' = next

\* Inodes::ino
Ino(path) ==
  IF path \in DOMAIN by_path
  THEN UNCHANGED <<by_path, by_ino, next>>
  ELSE /\ by_path' = [p \in DOMAIN by_path \cup {path} |->
                        IF p = path THEN next ELSE by_path[p]]
       /\ by_ino' = [i \in DOMAIN by_ino \cup {next} |->
                       IF i = next THEN path ELSE by_ino[i]]
       /\ next' = next + 1

\* Inodes::remove_tree
RemoveTree(path) ==
  LET doomed == subtree_keys(path)
      inos == {by_path[key] : key \in doomed}
  IN /\ by_path' = RestrictTo(by_path, DOMAIN by_path \ doomed)
     /\ by_ino' = RestrictTo(by_ino, DOMAIN by_ino \ inos)
     /\ next' = next

\* A mutant: rename without remove_tree(to) first.
RenameOver(from, to) ==
  LET moving == subtree_keys(from)
      movingInos == {by_path[key] : key \in moving}
      landed == {Rebased(from, to, key) : key \in moving}
  IN /\ by_path' = [p \in (DOMAIN by_path \ moving) \cup landed |->
                      IF p \in landed THEN by_path[Rebased(to, from, p)]
                                      ELSE by_path[p]]
     /\ by_ino' = [i \in DOMAIN by_ino |->
                     IF i \in movingInos THEN Rebased(from, to, by_ino[i])
                                         ELSE by_ino[i]]
     /\ next' = next

\* Inodes::rename: remove_tree(to), then move every key below from.  After the
\* removal no key is below to, so the moves of the loop cannot collide and the
\* loop is written as one simultaneous move.
RenameTree(from, to) ==
  LET gone == subtree_keys(to)
      goneInos == {by_path[key] : key \in gone}
      moving == subtree_keys(from) \ gone
      movingInos == {by_path[key] : key \in moving}
      landed == {Rebased(from, to, key) : key \in moving}
  IN /\ by_path' = [p \in ((DOMAIN by_path \ gone) \ moving) \cup landed |->
                      IF p \in landed THEN by_path[Rebased(to, from, p)]
                                      ELSE by_path[p]]
     /\ by_ino' = [i \in DOMAIN by_ino \ goneInos |->
                     IF i \in movingInos THEN Rebased(from, to, by_ino[i])
                                         ELSE by_ino[i]]
     /\ next' = next

-----------------------------------------------------------------------------
(* Requests. *)

\* Inodes::new
TableInit ==
  /\ by_path = [p \in {<<>>} |-> ROOT_INO]
  /\ by_ino = [i \in {ROOT_INO} |-> <<>>]
  /\ next = ROOT_INO + 1
  /\ call = [t \in Threads |-> NoCall]

\* A mutant: child_path without the test for an empty name.
ChildPathEmptyName(t, parent, name) ==
  /\ call[t].op = "idle"
  /\ parent \in DOMAIN by_ino
  /\ Len(by_ino[parent]) < MaxDepth
  /\ \E op \in {"ino", "remove", "rename_from"}, n \in {<<>>, <<name>>} :
       call' = [call EXCEPT ![t] = [op |-> op, path |-> by_ino[parent] \o n]]
  /\ UNCHANGED <<by_path, by_ino, next>>

\* Vfs::child_path for a request that names one entry (lookup, create, mkdir,
\* symlink, remove).  An unknown parent is ESTALE and changes nothing.
ChildPath(t, parent, name) ==
  /\ call[t].op = "idle"
  /\ parent \in DOMAIN by_ino
  /\ Len(by_ino[parent]) < MaxDepth
  /\ \E op \in {"ino", "remove", "rename_from"} :
       call' = [call EXCEPT ![t] = [op |-> op, path |-> Append(by_ino[parent], name)]]
  /\ UNCHANGED <<by_path, by_ino, next>>

\* Vfs::parent_of: the path of an inode, then (a second lock) the number of its
\* parent path, which may have to be handed out afresh.
ParentOf(t, ino) ==
  /\ call[t].op = "idle"
  /\ ino \in DOMAIN by_ino /\ ino # ROOT_INO
  /\ call' = [call EXCEPT ![t] =
                [op |-> "ino", path |-> SubSeq(by_ino[ino], 1, Len(by_ino[ino]) - 1)]]
  /\ UNCHANGED <<by_path, by_ino, next>>

\* The second child_path of Vfs::rename, under a lock acquisition of its own.
RenameTarget(t, parent, name) ==
  /\ call[t].op = "rename_from"
  /\ parent \in DOMAIN by_ino
  /\ Len(by_ino[parent]) < MaxDepth
  /\ call' = [call EXCEPT ![t] = [op |-> "rename", path |-> call[t].path,
                                  to |-> Append(by_ino[parent], name)]]
  /\ UNCHANGED <<by_path, by_ino, next>>

\* The server answered; the request takes the lock again and updates the table
\* with the path it resolved earlier.
FinishIno(t) ==
  /\ call[t].op = "ino"
  /\ call[t].path \in DOMAIN by_path \/ next <= MaxIno
  /\ Ino(call[t].path)
  /\ call' = [call EXCEPT ![t] = NoCall]

FinishRemove(t) ==
  /\ call[t].op = "remove"
  /\ RemoveTree(call[t].path)
  /\ call' = [call EXCEPT ![t] = NoCall]

FinishRename(t) ==
  /\ call[t].op = "rename"
  /\ \A key \in subtree_keys(call[t].path) :
       Len(call[t].to) + Len(key) - Len(call[t].path) <= MaxDepth
  /\ RenameTree(call[t].path, call[t].to)
  /\ call' = [call EXCEPT ![t] = NoCall]

\* The request fails (ESTALE, EEXIST, ENOTEMPTY, a server error): the table is
\* left as it was.
Fail(t) ==
  /\ call[t].op # "idle"
  /\ call' = [call EXCEPT ![t] = NoCall]
  /\ UNCHANGED <<by_path, by_ino, next>>

TableNext ==
  \E t \in Threads :
    \/ \E parent \in DOMAIN by_ino, name \in Names : ChildPath(t, parent, name)
    \/ \E ino \in DOMAIN by_ino : ParentOf(t, ino)
    \/ \E parent \in DOMAIN by_ino, name \in Names : RenameTarget(t, parent, name)
    \/ FinishIno(t)
    \/ FinishRemove(t)
    \/ FinishRename(t)
    \/ Fail(t)

TableSpec == TableInit /\ [][TableNext]_tableVars

-----------------------------------------------------------------------------
(* Properties. *)

CallOK(c) ==
  \/ c = NoCall
  \/ c.op \in {"ino", "remove", "rename_from"} /\ c.path \in AllPaths
  \/ c.op = "rename" /\ c.path \in AllPaths /\ c.to \in AllPaths

\* Types: the two maps of struct Inodes are partial functions between paths and
\* numbers below next, and a handler holds only paths.
TableTypeOK ==
  /\ DOMAIN by_path \subseteq AllPaths
  /\ \A p \in DOMAIN by_path : by_path[p] \in Nat
  /\ \A i \in DOMAIN by_ino : i \in Nat /\ i < next /\ by_ino[i] \in AllPaths
  /\ next \in Nat
  /\ DOMAIN call = Threads
  /\ \A t \in Threads : CallOK(call[t])

\* by_path and by_ino stay inverse to each other, whatever renames land on
\* whatever subtrees: no number ever names two files, no file two numbers, and
\* no entry of one map outlives its entry in the other.
MapsInverse ==
  /\ \A p \in DOMAIN by_path : by_path[p] \in DOMAIN by_ino /\ by_ino[by_path[p]] = p
  /\ \A i \in DOMAIN by_ino : by_ino[i] \in DOMAIN by_path /\ by_path[by_ino[i]] = i

\* The root keeps its number and its place: no sequence of requests with stale
\* paths removes or renames it (getattr, lookup and readdir all start there).
RootPinned ==
  /\ <<>> \in DOMAIN by_path /\ by_path[<<>>] = ROOT_INO
  /\ ROOT_INO \in DOMAIN by_ino /\ by_ino[ROOT_INO] = <<>>

\* A number that was removed never comes back: a handle the kernel or an NFS
\* client still holds turns into ESTALE, never into another file.
NoReuse ==
  [][\A i \in DOMAIN by_ino' \ DOMAIN by_ino : i >= next /\ i < next']_tableVars
=============================================================================
