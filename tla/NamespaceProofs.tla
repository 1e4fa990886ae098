-------------------------- MODULE NamespaceProofs ---------------------------
(***************************************************************************)
(* What the mount believes about names: its attribute and directory caches *)
(* (Namespace), and at the end its inode table (Inodes).                   *)
(*                                                                         *)
(* The caches, for any tree of paths, any number of workers, any trees to  *)
(* start from and any bounds.  Typed is the inductive type invariant.      *)
(* Coherent is not inductive: it says nothing of the answers under way,    *)
(* and while a mutation is between its request and its last lock it        *)
(* excuses all keys the mutation is about.  Holds(b, a) says both, with    *)
(* two witnesses: b, the tree just before the mutation under way, and a,   *)
(* the tree it left.  An entry of a cache, or an answer on its way to one, *)
(* is right when it is what the server has, an event of the feed will drop *)
(* it, or it is what b had and the mutation will still write that key.     *)
(* Every entry is right, absent, tainted, or the mount's own pending       *)
(* write; every answer is right or overtaken.  When the mutation comes to  *)
(* a cache, what it writes follows from b, a and the entry it finds, and a *)
(* is what the server still has, unless an event or an overtaking says so. *)
(***************************************************************************)
EXTENDS Inodes, Namespace, TLAPS

\* The two kinds of cache keys.
MetaKey(p) == <<"meta", p>>
DirKey(d) == <<"dir", d>>
\* What a mutation may be, and how a listing shows an entry.
Ops == {"create", "mkdir", "chmod", "truncate", "unlink", "rmdir", "rename"}
Kinds == {"none", "file", "dir"}

-----------------------------------------------------------------------------
(* Types. *)

\* What the caches, the answers of the workers and the mutation range over.
Listings == {NoListing} \cup UNION {[Children(d) -> Kinds] : d \in DirPaths}
Lefts == UNION {[S -> Entries] : S \in SUBSET Paths}
Answers ==
  [pc : {"idle", "stat", "list", "entries"}, path : Paths \cup {Root}, stat : Entries,
   list : Listings, left : Lefts,
   dirty : SUBSET Keys, reads : Nat]
Mutations ==
  [pc : {"idle", "check", "drop", "server", "metas", "dirs"}, op : Ops \cup {"none"},
   path : Paths \cup {Root}, to : Paths \cup {Root}, old : Entries, new : Entries,
   keys : SUBSET Keys, dirty : SUBSET Keys]

AreListings(f) ==
  /\ DOMAIN f = DirPaths
  /\ \A d \in DirPaths : f[d] = NoListing \/ f[d] \in [Children(d) -> Kinds]

CachesTyped == metas \in [Paths -> Entries] /\ AreListings(dirs) /\ tainted \subseteq Keys

ServerTyped ==
  /\ IsTree(server) /\ clock \in 1..MaxVersion
  /\ pending \in [Paths -> Entries]
  /\ \A p \in Paths : ~pending[p].dir

FeedTyped ==
  /\ feed \in Seq([kind : {"changed", "replaced", "reset"}, path : Paths \cup {Root}])
  /\ \A i \in 1..Len(feed) : feed[i].kind # "reset" => feed[i].path \in Paths

MainTyped ==
  /\ main \in Mutations
  /\ main.pc # "idle" => main.op \in Ops /\ main.path \in Paths
  /\ main.pc = "dirs" => main.op \notin {"chmod", "truncate"}
  /\ main.pc # "idle" /\ main.op = "mkdir" => main.path \in DirPaths
  /\ main.pc # "idle" /\ main.op = "rename" => main.to \in Paths /\ Apart(main.path, main.to)
  /\ main.pc # "idle" /\ main.op # "rename" => main.to = Root
  /\ main.pc \in {"metas", "dirs"} => main.keys = OpKeys(main)

\* A request to the server.
Asked(m) ==
  /\ m.op \in Ops /\ m.path \in Paths
  /\ m.op = "mkdir" => m.path \in DirPaths
  /\ m.op = "rename" => m.to \in Paths /\ Apart(m.path, m.to)
  /\ m.op # "rename" => m.to = Root

LateTyped == \A m \in late : Asked(m)

ReadersTyped ==
  /\ reader \in [Readers -> Answers]
  /\ \A r \in Readers :
       /\ reader[r].pc = "stat" => reader[r].path \in Paths
       /\ reader[r].pc = "list" => reader[r].path \in DirPaths
       /\ reader[r].pc = "list" => reader[r].list \in [Children(reader[r].path) -> Kinds]

Typed == CachesTyped /\ ServerTyped /\ FeedTyped /\ MainTyped /\ ReadersTyped

\* l is the listing of directory d of the tree.
Lists(tree, d, l) == l = Listing(tree, d) /\ d \in DirsOf(tree)
\* Directory d is the same in both trees.
SameDir(t, u, d) == Listing(t, d) = Listing(u, d) /\ (d \in DirsOf(t) <=> d \in DirsOf(u))

\* The mutation under way has still to write the key.
MetaOpen(p) == main.pc = "metas" /\ MetaKey(p) \in main.keys
DirOpen(d) == main.pc \in {"metas", "dirs"} /\ DirKey(d) \in main.keys

\* e is right for path p, l for directory d; b is the tree before the mutation.
MetaRight(b, p, e) == e = server[p] \/ Covered(MetaKey(p)) \/ (MetaOpen(p) /\ e = b[p])
DirRight(b, d, l) == Lists(server, d, l) \/ Covered(DirKey(d)) \/ (DirOpen(d) /\ Lists(b, d, l))

\* rename is about to list p.
Landing(p) == main.pc = "dirs" /\ main.op = "rename" /\ main.to = p

\* What the caches hold.
MetaGood(b, p) ==
  \/ metas[p] = None
  \/ MetaKey(p) \in tainted
  \/ Covered(MetaKey(p))
  \/ IF pending[p] = None THEN MetaRight(b, p, metas[p]) ELSE metas[p] = pending[p] /\ ~Landing(p)
DirGood(b, d) ==
  \/ dirs[d] = NoListing
  \/ DirKey(d) \in tainted
  \/ DirRight(b, d, dirs[d])

\* What a worker has been answered and not stored yet.
StatGood(b, a) ==
  a.pc = "stat" => a.stat = None \/ MetaKey(a.path) \in a.dirty \/ MetaRight(b, a.path, a.stat)
ListGood(b, a) ==
  a.pc = "list" => DirKey(a.path) \in a.dirty \/ DirRight(b, a.path, a.list)
LeftGood(b, a) ==
  a.pc \in {"list", "entries"} =>
    \A p \in DOMAIN a.left : MetaKey(p) \in a.dirty \/ MetaRight(b, p, a.left[p])

\* The server has carried out the mutation, the caches are still to follow.
Working == main.pc \in {"metas", "dirs"}

\* What the mutation left on the server, a, is still there.
StillThere(a) ==
  Working =>
    /\ \A p \in Paths : MetaKey(p) \in main.keys =>
         server[p] = a[p] \/ MetaKey(p) \in main.dirty \/ Covered(MetaKey(p))
    /\ \A d \in DirPaths : DirKey(d) \in main.keys =>
         SameDir(server, a, d) \/ DirKey(d) \in main.dirty \/ Covered(DirKey(d))

\* How the mutation changed the tree b into a.
Siblings(m, b, a, p) ==
  /\ \A q \in Children(Front(p)) : q \notin {m.path, m.to} => a[q] = b[q]
  /\ Front(p) \in DirsOf(b) => Front(p) \in DirsOf(a)

\* What each operation did; dirty are the keys it brought into doubt.
Deed(m, b, a, dirty) ==
  /\ Siblings(m, b, a, m.path)
  /\ m.op = "create" => Kind(a[m.path]) = "file"
  /\ m.op = "mkdir" =>
       /\ Kind(a[m.path]) = "dir"
       /\ DirKey(m.path) \in dirty \/ \A q \in Children(m.path) : a[q] = None
  /\ m.op \in {"unlink", "rmdir", "rename"} => \A q \in Under(m.path) : a[q] = None
  /\ m.op = "rename" =>
       /\ Siblings(m, b, a, m.to)
       /\ \/ TreeKeys(m.to) \subseteq dirty
          \/ \A q \in Under(m.to) : a[q] = b[Moved(m.to, m.path, q)]

\* What the session thread remembers of it is true, or all of it is in doubt.
Doubted == main.keys \subseteq main.dirty
Did(b, a) ==
  Working =>
    Doubted \/ (main.old = b[main.path] /\ main.new = a[main.path] /\ Deed(main, b, a, main.dirty))

\* Written before the mutation, or known to be written to after it.
Settled(p) == pending[p] = None \/ MetaKey(p) \in main.dirty
Flushed ==
  main.pc = "metas" =>
    /\ main.op \in {"create", "mkdir", "chmod", "truncate"} => Settled(main.path)
    /\ main.op = "rename" => \A q \in Under(main.path) \cup Under(main.to) : Settled(q)

\* The inductive invariant, with its witnesses.
Holds(b, a) ==
  /\ IsTree(b) /\ IsTree(a)
  /\ \A p \in Paths : MetaGood(b, p)
  /\ \A d \in DirPaths : DirGood(b, d)
  /\ \A r \in Readers : StatGood(b, reader[r]) /\ ListGood(b, reader[r]) /\ LeftGood(b, reader[r])
  /\ StillThere(a) /\ Did(b, a) /\ Flushed

Inv == \E b, a \in [Paths -> Entries] : Holds(b, a)

-----------------------------------------------------------------------------
(* Paths. *)

\* IsPrefix, element by element.
LEMMA PrefixIs ==
  ASSUME NEW p \in Seq(Labels), NEW q \in Seq(Labels)
  PROVE  IsPrefix(p, q) <=> Len(p) <= Len(q) /\ \A i \in 1..Len(p) : p[i] = q[i]
<1>1. CASE Len(p) > Len(q)
  BY <1>1 DEF IsPrefix
<1>2. CASE Len(p) <= Len(q)
  <2> DEFINE u == SubSeq(p, 1, Len(p))
             w == SubSeq(q, 1, Len(p))
  <2>1. u \in Seq(Labels) /\ Len(u) = Len(p) /\ \A i \in 1..Len(p) : u[i] = p[i]
    OBVIOUS
  <2>2. w \in Seq(Labels) /\ Len(w) = Len(p) /\ \A i \in 1..Len(p) : w[i] = q[i]
    BY <1>2
  <2> HIDE DEF u, w
  <2>3. u = w <=> \A i \in 1..Len(p) : u[i] = w[i]
    BY <2>1, <2>2
  <2> QED
    BY <1>2, <2>1, <2>2, <2>3 DEF IsPrefix, u, w
<1> QED
  BY <1>1, <1>2

\* Two sequences are equal when they agree.
LEMMA SameSeq ==
  ASSUME NEW p \in Seq(Labels), NEW q \in Seq(Labels), Len(p) = Len(q),
         \A i \in 1..Len(p) : p[i] = q[i]
  PROVE  p = q
  OBVIOUS

\* A path has a length, and a front.
LEMMA FrontIs ==
  ASSUME NEW p \in Paths
  PROVE  /\ p \in Seq(Labels) /\ Len(p) >= 1 /\ Len(p) \in Nat
         /\ Front(p) \in Seq(Labels) /\ Len(Front(p)) = Len(p) - 1
         /\ \A i \in 1..(Len(p) - 1) : Front(p)[i] = p[i]
         /\ Front(p) \in Paths \/ (Front(p) = Root /\ Len(p) = 1)
<1>1. p \in Seq(Labels) /\ p # <<>>
  BY PathsAssumption DEF Root
<1>2. Len(p) >= 1 /\ Len(p) \in Nat
  BY <1>1
<1>3. /\ Front(p) \in Seq(Labels) /\ Len(Front(p)) = Len(p) - 1
      /\ \A i \in 1..(Len(p) - 1) : Front(p)[i] = p[i]
  <2> DEFINE n == Len(p) - 1
             f == SubSeq(p, 1, n)
  <2>1. n \in Nat /\ n <= Len(p)
    BY <1>2
  <2> HIDE DEF n
  <2>2. f \in Seq(Labels)
    BY <1>1, <2>1
  <2>3. Len(f) = n
    BY <1>1, <2>1
  <2>4. \A i \in 1..n : f[i] = p[i]
    BY <1>1, <2>1
  <2> QED
    BY <2>2, <2>3, <2>4 DEF Front, n
<1> QED
  BY <1>1, <1>2, <1>3, PathsAssumption DEF Root

\* What is below a path.
LEMMA UnderIs ==
  ASSUME NEW p \in Paths, NEW q \in Paths
  PROVE  q \in Under(p) <=> Len(p) <= Len(q) /\ \A i \in 1..Len(p) : p[i] = q[i]
  BY FrontIs, PrefixIs DEF Under

\* The subtree of a path: closed downwards, and upwards as far as the path.
LEMMA UnderFacts ==
  ASSUME NEW p \in Paths
  PROVE  /\ p \in Under(p) /\ Under(p) \subseteq Paths
         /\ \A q \in Under(p) : Under(q) \subseteq Under(p)
         /\ \A q \in Under(p) : q = p \/ Front(q) \in Under(p)
         /\ \A q \in Paths : Front(q) \in Under(p) => q \in Under(p) /\ q # p
         /\ Front(p) \notin Under(p)
         /\ \A q \in Under(p) : p \in Under(q) => p = q
<1>0. p \in Seq(Labels) /\ Len(p) >= 1 /\ Len(p) \in Nat
  BY FrontIs
<1>1. p \in Under(p) /\ Under(p) \subseteq Paths
  BY <1>0, UnderIs DEF Under
<1>2. ASSUME NEW q \in Under(p), NEW r \in Under(q)
      PROVE  r \in Under(p)
  <2>1. q \in Paths /\ r \in Paths
    BY DEF Under
  <2>2. Len(q) \in Nat /\ Len(r) \in Nat
    BY <2>1, FrontIs
  <2> QED
    BY <1>0, <2>1, <2>2, UnderIs
<1>3. ASSUME NEW q \in Under(p), q # p
      PROVE  Front(q) \in Under(p)
  <2>1. q \in Paths /\ q \in Seq(Labels) /\ Len(q) \in Nat
    BY FrontIs DEF Under
  <2>2. Len(p) < Len(q)
    BY <1>0, <2>1, <1>3, UnderIs, SameSeq
  <2>3. Front(q) \in Paths /\ Len(Front(q)) = Len(q) - 1 /\ \A i \in 1..Len(p) : Front(q)[i] = q[i]
    BY <1>0, <2>1, <2>2, FrontIs
  <2> QED
    BY <1>0, <2>1, <2>2, <2>3, UnderIs
<1>4. ASSUME NEW q \in Paths, Front(q) \in Under(p)
      PROVE  q \in Under(p) /\ q # p
  <2>1. Front(q) \in Paths
    BY <1>4 DEF Under
  <2>2. /\ q \in Seq(Labels) /\ Len(q) \in Nat /\ Len(Front(q)) = Len(q) - 1
        /\ \A i \in 1..(Len(q) - 1) : Front(q)[i] = q[i]
    BY FrontIs
  <2>3. Len(p) <= Len(Front(q)) /\ \A i \in 1..Len(p) : p[i] = Front(q)[i]
    BY <1>4, <2>1, UnderIs
  <2>4. Len(p) < Len(q) /\ \A i \in 1..Len(p) : p[i] = q[i]
    BY <1>0, <2>2, <2>3
  <2> QED
    BY <1>0, <2>2, <2>4, UnderIs
<1>5. Front(p) \notin Under(p)
  BY <1>4
<1>6. ASSUME NEW q \in Under(p), p \in Under(q)
      PROVE  p = q
  <2>1. q \in Paths /\ q \in Seq(Labels) /\ Len(q) \in Nat
    BY FrontIs DEF Under
  <2> QED
    BY <1>0, <1>6, <2>1, UnderIs, SameSeq
<1> QED
  BY <1>1, <1>2, <1>3, <1>4, <1>5, <1>6

\* Ancestors, seen from above and from below.
LEMMA AncestorFacts ==
  ASSUME NEW p \in Paths
  PROVE  /\ Ancestors(p) \subseteq Paths
         /\ \A q \in Paths : q \in Ancestors(p) <=> p \in Under(q) /\ q # p
         /\ \A q \in Ancestors(p) : q = Front(p) \/ (Front(p) \in Paths /\ q \in Ancestors(Front(p)))
         /\ Front(p) \in Paths => Front(p) \in Ancestors(p)
         /\ \A q \in Ancestors(p) : Ancestors(q) \subseteq Ancestors(p)
<1>1. \A q, r \in Paths : r \in Ancestors(q) <=> q \in Under(r) /\ r # q
  BY DEF Ancestors, Under, IsStrictPrefix
<1>2. \A q \in Paths : Ancestors(q) \subseteq Paths
  BY DEF Ancestors
<1>3. ASSUME NEW q \in Ancestors(p), q # Front(p)
      PROVE  Front(p) \in Paths /\ q \in Ancestors(Front(p))
  <2>1. q \in Paths /\ p \in Under(q) /\ q # p
    BY <1>1, <1>2
  <2>2. Front(p) \in Under(q)
    BY <2>1, UnderFacts
  <2>3. Front(p) \in Paths
    BY <2>1, <2>2, UnderFacts
  <2> QED
    BY <1>1, <1>3, <2>1, <2>2, <2>3
<1>4. ASSUME Front(p) \in Paths PROVE Front(p) \in Ancestors(p)
  <2>1. p \in Under(Front(p)) /\ p # Front(p)
    BY <1>4, UnderFacts
  <2> QED
    BY <1>1, <1>4, <2>1
<1>5. ASSUME NEW q \in Ancestors(p), NEW r \in Ancestors(q)
      PROVE  r \in Ancestors(p)
  <2>1. q \in Paths /\ r \in Paths
    BY <1>2
  <2>2. p \in Under(q) /\ q \in Under(r) /\ r # q
    BY <1>1, <2>1
  <2>3. p \in Under(r) /\ r # p
    BY <2>1, <2>2, UnderFacts
  <2> QED
    BY <1>1, <2>1, <2>3
<1> QED
  BY <1>1, <1>2, <1>3, <1>4, <1>5

\* Two paths of the same depth have nothing in common below them.
LEMMA ApartFacts ==
  ASSUME NEW p \in Paths, NEW q \in Paths, Apart(p, q)
  PROVE  /\ Apart(q, p) /\ p # q
         /\ Under(p) \cap Under(q) = {}
         /\ Front(p) \notin Under(q) /\ Front(q) \notin Under(p)
         /\ p \notin Under(q) /\ q \notin Under(p)
<1>1. p \in Seq(Labels) /\ q \in Seq(Labels) /\ Len(p) = Len(q) /\ Len(p) \in Nat
  BY FrontIs DEF Apart
<1>2. p \notin Under(q) /\ q \notin Under(p) /\ Apart(q, p)
  BY <1>1 DEF Apart, Under
<1>3. p # q
  BY <1>2, UnderFacts
<1>4. ASSUME NEW r \in Under(p), r \in Under(q) PROVE FALSE
  <2>1. r \in Paths
    BY DEF Under
  <2>2. Len(r) \in Nat /\ Len(p) <= Len(r)
    BY <2>1, FrontIs, UnderIs
  <2>3. \A i \in 1..Len(p) : p[i] = q[i]
    BY <1>1, <1>4, <2>1, <2>2, UnderIs
  <2> QED
    BY <1>1, <1>3, <2>3, SameSeq
<1>5. Front(p) \notin Under(q) /\ Front(q) \notin Under(p)
  BY <1>2, UnderFacts
<1> QED
  BY <1>2, <1>3, <1>4, <1>5

\* The suffix arithmetic of rename: Under(p) goes to Under(q), parents to parents.
LEMMA MovedFacts ==
  ASSUME NEW p \in Paths, NEW q \in Paths, Apart(p, q), NEW s \in Under(p)
  PROVE  /\ Moved(p, q, s) \in Under(q)
         /\ s = p => Moved(p, q, s) = q
         /\ s # p => Front(s) \in Under(p) /\ Front(Moved(p, q, s)) = Moved(p, q, Front(s))
         /\ \A r \in Under(s) : Moved(p, q, r) \in Under(Moved(p, q, s))
         /\ \A r \in Under(s) : r # s => Moved(p, q, r) # Moved(p, q, s)
<1>0. /\ p \in Seq(Labels) /\ q \in Seq(Labels) /\ Len(p) = Len(q) /\ Len(p) \in Nat /\ Len(p) >= 1
  BY FrontIs DEF Apart
<1>1. ASSUME NEW r \in Under(p)
      PROVE  /\ r \in Paths /\ r \in Seq(Labels) /\ Len(r) \in Nat /\ Len(p) <= Len(r)
             /\ Moved(p, q, r) \in Paths /\ Moved(p, q, r) \in Seq(Labels)
             /\ Len(Moved(p, q, r)) = Len(r)
             /\ \A i \in 1..Len(p) : Moved(p, q, r)[i] = q[i]
             /\ \A i \in (Len(p) + 1)..Len(r) : Moved(p, q, r)[i] = r[i]
  <2>1. r \in Paths /\ r \in Seq(Labels) /\ Len(r) \in Nat
    BY FrontIs DEF Under
  <2>2. Len(p) <= Len(r)
    BY <2>1, UnderIs
  <2> DEFINE rest == SubSeq(r, Len(p) + 1, Len(r))
  <2>3. /\ rest \in Seq(Labels) /\ Len(rest) = Len(r) - Len(p)
        /\ \A i \in 1..Len(rest) : rest[i] = r[Len(p) + i]
    BY <1>0, <2>1, <2>2
  <2>4. Moved(p, q, r) = q \o rest
    BY DEF Moved
  <2> HIDE DEF rest
  <2> DEFINE m == q \o rest
  <2>5. /\ m \in Seq(Labels) /\ Len(m) = Len(r)
        /\ \A i \in 1..Len(q) : m[i] = q[i]
        /\ \A i \in (Len(q) + 1)..Len(r) : m[i] = rest[i - Len(q)]
    BY <1>0, <2>1, <2>2, <2>3
  <2>6. \A i \in (Len(p) + 1)..Len(r) : m[i] = r[i]
    <3> SUFFICES ASSUME NEW i \in (Len(p) + 1)..Len(r) PROVE m[i] = r[i]
      OBVIOUS
    <3>1. i - Len(q) \in 1..Len(rest) /\ Len(p) + (i - Len(q)) = i
      BY <1>0, <2>1, <2>2, <2>3
    <3> QED
      BY <1>0, <2>3, <2>5, <3>1
  <2>7. m \in Paths
    BY <2>4, PathsAssumption
  <2> QED
    BY <1>0, <2>1, <2>2, <2>4, <2>5, <2>6, <2>7
<1> DEFINE m == Moved(p, q, s)
<1>2. m \in Under(q)
  BY <1>0, <1>1, UnderIs
<1>3. ASSUME s = p PROVE m = q
  BY <1>0, <1>1, <1>3, SameSeq
<1>4. ASSUME s # p
      PROVE  Front(s) \in Under(p) /\ Front(m) = Moved(p, q, Front(s))
  <2>1. Front(s) \in Under(p)
    BY <1>4, UnderFacts
  <2> DEFINE f == Front(s)
             g == Moved(p, q, f)
  <2>2. f \in Paths /\ Len(f) = Len(s) - 1 /\ \A i \in 1..(Len(s) - 1) : f[i] = s[i]
    BY <1>1, <2>1, FrontIs
  <2>3. /\ g \in Seq(Labels) /\ Len(g) = Len(s) - 1 /\ Len(p) <= Len(s) - 1
        /\ \A i \in 1..Len(p) : g[i] = q[i]
        /\ \A i \in (Len(p) + 1)..(Len(s) - 1) : g[i] = s[i]
    BY <1>0, <1>1, <2>1, <2>2
  <2>4. /\ Front(m) \in Seq(Labels) /\ Len(Front(m)) = Len(s) - 1
        /\ \A i \in 1..(Len(s) - 1) : Front(m)[i] = m[i]
    BY <1>1, FrontIs
  <2>5. /\ \A i \in 1..Len(p) : m[i] = q[i]
        /\ \A i \in (Len(p) + 1)..Len(s) : m[i] = s[i]
        /\ Len(s) \in Nat
    BY <1>1
  <2> HIDE DEF f, g, m
  <2>6. \A i \in 1..(Len(s) - 1) : Front(m)[i] = g[i]
    BY <1>0, <2>3, <2>4, <2>5
  <2>7. Front(m) = g
    BY <2>3, <2>4, <2>5, <2>6, SameSeq
  <2> QED
    BY <2>1, <2>7 DEF f, g
<1>5. ASSUME NEW r \in Under(s)
      PROVE  Moved(p, q, r) \in Under(m) /\ (r # s => Moved(p, q, r) # m)
  <2>0. r \in Under(p)
    BY UnderFacts
  <2> DEFINE w == Moved(p, q, r)
  <2>1. /\ w \in Paths /\ Len(w) = Len(r) /\ Len(r) \in Nat /\ r \in Seq(Labels) /\ r \in Paths
        /\ \A i \in 1..Len(p) : w[i] = q[i]
        /\ \A i \in (Len(p) + 1)..Len(r) : w[i] = r[i]
    BY <1>1, <2>0
  <2>2. /\ m \in Paths /\ Len(m) = Len(s) /\ Len(s) \in Nat /\ s \in Seq(Labels) /\ s \in Paths
        /\ \A i \in 1..Len(p) : m[i] = q[i] /\ Len(p) <= Len(s)
        /\ \A i \in (Len(p) + 1)..Len(s) : m[i] = s[i]
    BY <1>1
  <2>3. Len(s) <= Len(r) /\ \A i \in 1..Len(s) : s[i] = r[i]
    BY <2>1, <2>2, UnderIs
  <2> HIDE DEF w, m
  <2>4. \A i \in 1..Len(m) : m[i] = w[i]
    BY <1>0, <2>1, <2>2, <2>3
  <2>5. w \in Under(m)
    BY <2>1, <2>2, <2>3, <2>4, UnderIs
  <2>6. ASSUME r # s PROVE w # m
    <3>1. Len(s) # Len(r)
      BY <2>1, <2>2, <2>3, <2>6, SameSeq
    <3> QED
      BY <2>1, <2>2, <3>1
  <2> QED
    BY <2>5, <2>6 DEF w
<1> QED
  BY <1>2, <1>3, <1>4, <1>5

-----------------------------------------------------------------------------
(* Keys and entries. *)

\* A key says what it is about.
LEMMA KeyFacts ==
  /\ \A p, q : MetaKey(p) # DirKey(q)
  /\ \A p, q : MetaKey(p) = MetaKey(q) => p = q
  /\ \A p, q : DirKey(p) = DirKey(q) => p = q
  /\ \A S, p : MetaKey(p) \in MetaKeys(S) <=> p \in S
  /\ \A S, p : DirKey(p) \notin MetaKeys(S)
  /\ \A S, d : DirKey(d) \in DirKeys(S) <=> d \in S /\ d \in DirPaths
  /\ \A S, d : MetaKey(d) \notin DirKeys(S)
  BY DEF MetaKey, DirKey, MetaKeys, DirKeys

\* The parent of a path is a directory of the cache.
LEMMA ParentInDirPaths ==
  ASSUME NEW p \in Paths
  PROVE  Front(p) \in DirPaths /\ p \in Children(Front(p))
  BY FrontIs DEF DirPaths, Children

\* The keys of a subtree: attributes in it, listings in it and of its parent.
LEMMA TreeKeyFacts ==
  ASSUME NEW x \in Paths
  PROVE  /\ \A p : MetaKey(p) \in TreeKeys(x) <=> p \in Under(x)
         /\ \A d : DirKey(d) \in TreeKeys(x) <=> d \in DirPaths /\ (d \in Under(x) \/ d = Front(x))
         /\ TreeKeys(x) \subseteq Keys
<1>1. \A p : MetaKey(p) \in TreeKeys(x) <=> p \in Under(x)
  BY KeyFacts DEF TreeKeys
<1>2. \A d : DirKey(d) \in TreeKeys(x) <=> d \in DirPaths /\ (d \in Under(x) \/ d = Front(x))
  BY KeyFacts DEF TreeKeys
<1>3. TreeKeys(x) \subseteq Keys
  BY UnderFacts DEF TreeKeys, Keys, MetaKeys, DirKeys
<1> QED
  BY <1>1, <1>2, <1>3

\* Every key is of one kind, of a path or of a directory.
LEMMA KeysAre ==
  /\ \A p : MetaKey(p) \in Keys <=> p \in Paths
  /\ \A d : DirKey(d) \in Keys <=> d \in DirPaths
  /\ \A k \in Keys : (\E p \in Paths : k = MetaKey(p)) \/ (\E d \in DirPaths : k = DirKey(d))
<1>1. \A p : MetaKey(p) \in Keys <=> p \in Paths
  BY KeyFacts DEF Keys
<1>2. \A d : DirKey(d) \in Keys <=> d \in DirPaths
  BY KeyFacts DEF Keys
<1>3. \A k \in Keys : (\E p \in Paths : k = MetaKey(p)) \/ (\E d \in DirPaths : k = DirKey(d))
  BY DEF Keys, MetaKeys, DirKeys, MetaKey, DirKey
<1> QED
  BY <1>1, <1>2, <1>3

\* Whatever covers the attributes of a path covers the listing it is in.
LEMMA EventKeyFacts ==
  ASSUME NEW e, e.kind \in {"changed", "replaced", "reset"}, e.kind # "reset" => e.path \in Paths
  PROVE  /\ EventKeys(e) \subseteq Keys
         /\ e.kind = "reset" => EventKeys(e) = Keys
         /\ e.kind = "replaced" => EventKeys(e) = TreeKeys(e.path)
         /\ e.kind = "changed" => EventKeys(e) = {MetaKey(e.path), DirKey(Front(e.path))}
         /\ \A p \in Paths : MetaKey(p) \in EventKeys(e) => DirKey(Front(p)) \in EventKeys(e)
<1>1. CASE e.kind = "reset"
  <2>1. EventKeys(e) = Keys
    BY <1>1 DEF EventKeys
  <2> QED
    BY <1>1, <2>1, KeysAre, ParentInDirPaths
<1>2. CASE e.kind = "replaced"
  <2>1. EventKeys(e) = TreeKeys(e.path) /\ e.path \in Paths
    BY <1>2 DEF EventKeys
  <2>2. ASSUME NEW p \in Paths, MetaKey(p) \in EventKeys(e)
        PROVE  DirKey(Front(p)) \in EventKeys(e)
    BY <2>1, <2>2, TreeKeyFacts, ParentInDirPaths, UnderFacts
  <2>3. TreeKeys(e.path) \subseteq Keys
    BY <2>1, TreeKeyFacts
  <2>4. EventKeys(e) \subseteq Keys /\ e.kind # "reset" /\ e.kind # "changed"
    BY <1>2, <2>1, <2>3
  <2> QED
    BY <1>2, <2>2, <2>4, <2>1, Zenon
<1>3. CASE e.kind = "changed"
  <2>1. EventKeys(e) = {MetaKey(e.path)} \cup DirKeys({Front(e.path)}) /\ e.path \in Paths
    BY <1>3 DEF EventKeys, MetaKey
  <2>2. DirKeys({Front(e.path)}) = {DirKey(Front(e.path))}
    BY <2>1, ParentInDirPaths DEF DirKeys, DirKey
  <2>3. EventKeys(e) = {MetaKey(e.path), DirKey(Front(e.path))}
    BY <2>1, <2>2
  <2>4. EventKeys(e) \subseteq Keys /\ e.kind # "reset" /\ e.kind # "replaced"
    BY <1>3, <2>1, <2>3, KeysAre, ParentInDirPaths
  <2>5. ASSUME NEW p \in Paths, MetaKey(p) \in EventKeys(e)
        PROVE  DirKey(Front(p)) \in EventKeys(e)
    BY <2>3, <2>5, KeyFacts
  <2> QED
    BY <2>3, <2>4, <2>5
<1> QED
  BY <1>1, <1>2, <1>3

\* Entries and their kinds.
LEMMA EntryFacts ==
  /\ None \in Entries /\ ~None.dir /\ Kind(None) = "none"
  /\ \A e \in Entries : Kind(e) \in {"none", "file", "dir"}
  /\ \A e \in Entries : Kind(e) = "none" <=> e = None
  /\ \A e \in Entries : Kind(e) = "dir" <=> e.dir
  /\ \A v \in 1..MaxVersion : File(v) \in Entries /\ File(v) # None /\ ~File(v).dir /\ Kind(File(v)) = "file"
  /\ \A v \in 1..MaxVersion : Dir(v) \in Entries /\ Dir(v) # None /\ Dir(v).dir /\ Kind(Dir(v)) = "dir"
  /\ \A e \in Entries, v \in 1..MaxVersion : e # None =>
       /\ [e EXCEPT !.ver = v] \in Entries
       /\ [e EXCEPT !.ver = v] # None
       /\ Kind([e EXCEPT !.ver = v]) = Kind(e)
<1>1. None \in Entries /\ ~None.dir /\ Kind(None) = "none"
  BY TreesAssumption DEF None, Entries, Kind
<1>2. \A e \in Entries : Kind(e) \in {"none", "file", "dir"}
  BY DEF Kind
<1>3. \A e \in Entries : Kind(e) = "none" <=> e = None
  BY DEF Kind
<1>4. \A e \in Entries : Kind(e) = "dir" <=> e.dir
  BY <1>1, Zenon DEF Kind
<1>5. ASSUME NEW v \in 1..MaxVersion
      PROVE  File(v) \in Entries /\ File(v) # None /\ ~File(v).dir /\ Kind(File(v)) = "file"
  BY TreesAssumption DEF File, Entries, None, Kind
<1>6. ASSUME NEW v \in 1..MaxVersion
      PROVE  Dir(v) \in Entries /\ Dir(v) # None /\ Dir(v).dir /\ Kind(Dir(v)) = "dir"
  BY TreesAssumption DEF Dir, Entries, None, Kind
<1>7. ASSUME NEW e \in Entries, NEW v \in 1..MaxVersion, e # None
      PROVE  /\ [e EXCEPT !.ver = v] \in Entries
             /\ [e EXCEPT !.ver = v] # None
             /\ Kind([e EXCEPT !.ver = v]) = Kind(e)
  <2> DEFINE w == [e EXCEPT !.ver = v]
  <2>1. w \in Entries
    BY TreesAssumption DEF Entries
  <2>2. w.ver = v /\ w.dir = e.dir
    BY DEF Entries
  <2>3. w # None
    BY <2>2, TreesAssumption DEF None
  <2> QED
    BY <1>7, <2>1, <2>2, <2>3 DEF Kind
<1> QED
  BY <1>1, <1>2, <1>3, <1>4, <1>5, <1>6, <1>7

-----------------------------------------------------------------------------
(* Changes of the tree. *)

\* The trees t and u differ at most in what the keys of K are about.
Only(t, u, K) ==
  /\ \A p \in Paths : t[p] = u[p] \/ MetaKey(p) \in K
  /\ \A d \in DirPaths : SameDir(t, u, d) \/ DirKey(d) \in K

\* Where neither a directory nor its children changed, its listing has not.
LEMMA SameDirFrom ==
  ASSUME NEW t \in [Paths -> Entries], NEW u \in [Paths -> Entries], NEW d \in DirPaths,
         \A q \in Children(d) : Kind(u[q]) = Kind(t[q]),
         d \in Paths => (Kind(u[d]) = "dir" <=> Kind(t[d]) = "dir")
  PROVE  SameDir(t, u, d)
<1>1. Listing(t, d) = Listing(u, d)
  BY DEF Listing
<1>2. d \in DirsOf(t) <=> d \in DirsOf(u)
  BY EntryFacts DEF DirsOf
<1> QED
  BY <1>1, <1>2 DEF SameDir

\* The keys of changed entries, their listings and those of their parents.
LEMMA OnlyFrom ==
  ASSUME NEW t \in [Paths -> Entries], NEW u \in [Paths -> Entries], NEW K,
         \A q \in Paths : t[q] = u[q] \/ MetaKey(q) \in K,
         \A q \in Paths : Kind(t[q]) = Kind(u[q]) \/ DirKey(Front(q)) \in K,
         \A q \in Paths \cap DirPaths :
           (Kind(u[q]) = "dir" <=> Kind(t[q]) = "dir") \/ DirKey(q) \in K
  PROVE  Only(t, u, K)
<1>1. ASSUME NEW d \in DirPaths, DirKey(d) \notin K
      PROVE  SameDir(t, u, d)
  <2>1. \A q \in Children(d) : q \in Paths /\ Front(q) = d
    BY DEF Children
  <2>2. \A q \in Children(d) : Kind(u[q]) = Kind(t[q])
    BY <1>1, <2>1
  <2>3. d \in Paths => (Kind(u[d]) = "dir" <=> Kind(t[d]) = "dir")
    BY <1>1
  <2> QED
    BY <2>2, <2>3, SameDirFrom
<1> QED
  BY <1>1 DEF Only

\* A subtree that changes.
LEMMA OnlyUnder ==
  ASSUME NEW t \in [Paths -> Entries], NEW u \in [Paths -> Entries], NEW x \in Paths, NEW K,
         TreeKeys(x) \subseteq K,
         \A q \in Paths : q \notin Under(x) => t[q] = u[q]
  PROVE  Only(t, u, K)
<1>1. \A q \in Paths : q \in Under(x) => MetaKey(q) \in K
  BY TreeKeyFacts
<1>2. \A q \in Paths : q \in Under(x) => DirKey(Front(q)) \in K
  BY TreeKeyFacts, UnderFacts, ParentInDirPaths
<1>3. \A q \in Paths \cap DirPaths : q \in Under(x) => DirKey(q) \in K
  BY TreeKeyFacts
<1>4. \A q \in Paths : t[q] = u[q] \/ MetaKey(q) \in K
  BY <1>1
<1>5. \A q \in Paths : Kind(t[q]) = Kind(u[q]) \/ DirKey(Front(q)) \in K
  BY <1>2
<1>6. \A q \in Paths \cap DirPaths :
        (Kind(u[q]) = "dir" <=> Kind(t[q]) = "dir") \/ DirKey(q) \in K
  BY <1>3
<1> QED
  BY <1>4, <1>5, <1>6, OnlyFrom

\* Only is an equivalence for given keys.
LEMMA OnlyTrans ==
  ASSUME NEW t, NEW u, NEW w, NEW K, Only(t, u, K), Only(u, w, K)
  PROVE  Only(t, w, K)
  BY DEF Only, SameDir

\* Attributes change: the tree keeps its shape.
LEMMA TouchTree ==
  ASSUME IsTree(server), NEW p \in Paths, server[p] # None, NEW v \in 1..MaxVersion
  PROVE  /\ IsTree([server EXCEPT ![p].ver = v])
         /\ Only(server, [server EXCEPT ![p].ver = v], {MetaKey(p)})
<1> DEFINE e == [server[p] EXCEPT !.ver = v]
           u == [server EXCEPT ![p] = e]
<1>1. server \in [Paths -> Entries] /\ server[p] \in Entries
  BY DEF IsTree
<1>2. e \in Entries /\ e # None /\ Kind(e) = Kind(server[p])
  BY <1>1, EntryFacts
<1>3. [server EXCEPT ![p].ver = v] = u
  OBVIOUS
<1> HIDE DEF e
<1>4. u \in [Paths -> Entries] /\ \A q \in Paths : Kind(u[q]) = Kind(server[q])
  BY <1>1, <1>2
<1>5. \A q \in Paths : q # p => u[q] = server[q]
  BY <1>1
<1> HIDE DEF u
<1>6. \A q \in Paths : (u[q] # None => server[q] # None) /\ (server[q].dir => u[q].dir)
  <2> SUFFICES ASSUME NEW q \in Paths PROVE (u[q] # None => server[q] # None) /\ (server[q].dir => u[q].dir)
    OBVIOUS
  <2>1. server[q] \in Entries /\ u[q] \in Entries
    BY <1>1, <1>4
  <2> QED
    BY <1>4, <2>1, EntryFacts
<1>7. IsTree(u)
  BY <1>4, <1>6, AncestorFacts DEF IsTree
<1>8. Only(server, u, {MetaKey(p)})
  BY <1>1, <1>4, <1>5, OnlyFrom
<1> QED
  BY <1>3, <1>7, <1>8

\* Remove: the entry goes with what is below it.
LEMMA CutTree ==
  ASSUME IsTree(server), NEW p \in Paths
  PROVE  /\ IsTree(Cut(p)) /\ Only(server, Cut(p), TreeKeys(p))
         /\ \A q \in Under(p) : Cut(p)[q] = None
         /\ \A q \in Paths : q \notin Under(p) => Cut(p)[q] = server[q]
<1> DEFINE u == Cut(p)
<1>1. server \in [Paths -> Entries]
  BY DEF IsTree
<1>2. u \in [Paths -> Entries] /\ \A q \in Paths : u[q] = IF q \in Under(p) THEN None ELSE server[q]
  BY <1>1, EntryFacts DEF Cut
<1> HIDE DEF u
<1>3. ASSUME NEW q \in Paths, u[q] # None, NEW r \in Ancestors(q)
      PROVE  u[r].dir
  <2>1. r \in Paths /\ q \in Under(r)
    BY AncestorFacts
  <2>2. q \notin Under(p) /\ u[q] = server[q]
    BY <1>2, <1>3
  <2>3. r \notin Under(p)
    BY <2>1, <2>2, UnderFacts
  <2>4. server[r].dir
    BY <1>3, <2>2 DEF IsTree
  <2> QED
    BY <1>2, <2>1, <2>3, <2>4
<1>4. IsTree(u)
  BY <1>2, <1>3 DEF IsTree
<1>5. Only(server, u, TreeKeys(p))
  BY <1>1, <1>2, OnlyUnder
<1>6. Under(p) \subseteq Paths
  BY UnderFacts
<1> QED
  BY <1>2, <1>4, <1>5, <1>6 DEF u

\* Of two paths above a third one is above the other.
LEMMA Comparable ==
  ASSUME NEW p \in Paths, NEW q \in Paths, NEW r \in Paths, r \in Under(p), r \in Under(q)
  PROVE  p \in Under(q) \/ q \in Under(p)
<1>1. Len(p) \in Nat /\ Len(q) \in Nat /\ Len(r) \in Nat
  BY FrontIs
<1>2. /\ Len(p) <= Len(r) /\ \A i \in 1..Len(p) : p[i] = r[i]
      /\ Len(q) <= Len(r) /\ \A i \in 1..Len(q) : q[i] = r[i]
  BY UnderIs
<1>3. CASE Len(p) <= Len(q)
  BY <1>1, <1>2, <1>3, UnderIs
<1>4. CASE Len(q) <= Len(p)
  BY <1>1, <1>2, <1>4, UnderIs
<1> QED
  BY <1>1, <1>3, <1>4

\* create_dir_all: missing directories come into being, the rest is as it was.
LEMMA ParentsTree ==
  ASSUME IsTree(server), NEW p \in Paths, clock' \in 1..MaxVersion, ~Blocked(p)
  PROVE  /\ IsTree(MakeParents(p))
         /\ \A q \in Ancestors(p) : MakeParents(p)[q].dir
         /\ \A q \in Paths : q \notin Ancestors(p) \/ server[q] # None => MakeParents(p)[q] = server[q]
         /\ Only(server, MakeParents(p), Revived(p))
         /\ Revived(p) \subseteq Keys
         /\ server[p] # None => Revived(p) = {}
<1> DEFINE u == MakeParents(p)
           made(q) == q \in Ancestors(p) /\ server[q] = None
<1>0. server \in [Paths -> Entries] /\ Ancestors(p) \subseteq Paths
  BY AncestorFacts DEF IsTree
<1>1. \A q \in Paths : u[q] = IF made(q) THEN Dir(clock') ELSE server[q]
  BY DEF MakeParents
<1>2. u \in [Paths -> Entries]
  BY <1>0, EntryFacts DEF MakeParents
<1>3. Dir(clock').dir /\ Dir(clock') # None
  BY EntryFacts
<1> HIDE DEF u
<1>4. ASSUME NEW q \in Ancestors(p) PROVE u[q].dir
  <2>1. server[q] # None => server[q].dir
    BY DEF Blocked
  <2> QED
    BY <1>0, <1>1, <1>3, <2>1
<1>5. ASSUME NEW q \in Paths, u[q] # None, NEW r \in Ancestors(q)
      PROVE  u[r].dir
  <2>0. r \in Paths
    BY AncestorFacts
  <2>1. CASE r \in Ancestors(p)
    BY <1>4, <2>1
  <2>2. CASE r \notin Ancestors(p)
    <3>1. q \notin Ancestors(p)
      BY <2>2, AncestorFacts
    <3>2. server[q] # None
      BY <1>1, <1>5, <3>1
    <3>3. server[r].dir
      BY <3>2 DEF IsTree
    <3> QED
      BY <1>1, <2>0, <2>2, <3>3
  <2> QED
    BY <2>1, <2>2
<1>6. IsTree(u)
  BY <1>2, <1>5 DEF IsTree
<1>7. \A q \in Paths : made(q) => TreeKeys(q) \subseteq Revived(p)
  BY <1>0 DEF Revived
<1>8. Only(server, u, Revived(p))
  <2>1. \A q \in Paths : made(q) => MetaKey(q) \in Revived(p)
    BY <1>7, TreeKeyFacts, UnderFacts
  <2>2. \A q \in Paths : made(q) => DirKey(Front(q)) \in Revived(p)
    BY <1>7, TreeKeyFacts, ParentInDirPaths
  <2>3. \A q \in Paths \cap DirPaths : made(q) => DirKey(q) \in Revived(p)
    BY <1>7, TreeKeyFacts, UnderFacts
  <2>4. \A q \in Paths : made(q) \/ u[q] = server[q]
    BY <1>1
  <2> HIDE DEF made
  <2>5. \A q \in Paths : server[q] = u[q] \/ MetaKey(q) \in Revived(p)
    BY <2>1, <2>4
  <2>6. \A q \in Paths : Kind(server[q]) = Kind(u[q]) \/ DirKey(Front(q)) \in Revived(p)
    BY <2>2, <2>4
  <2>7. \A q \in Paths \cap DirPaths :
          (Kind(u[q]) = "dir" <=> Kind(server[q]) = "dir") \/ DirKey(q) \in Revived(p)
    BY <2>3, <2>4
  <2> QED
    BY <1>0, <1>2, <2>5, <2>6, <2>7, OnlyFrom
<1>9. Revived(p) \subseteq Keys
  BY <1>0, TreeKeyFacts DEF Revived
<1>10. ASSUME server[p] # None PROVE Revived(p) = {}
  <2>1. \A q \in Ancestors(p) : server[q].dir
    BY <1>10 DEF IsTree
  <2>2. \A q \in Ancestors(p) : server[q] # None
    BY <2>1, EntryFacts
  <2> QED
    BY <2>2 DEF Revived
<1>11. \A q \in Paths : q \notin Ancestors(p) \/ server[q] # None => u[q] = server[q]
  BY <1>1
<1> QED
  BY <1>4, <1>6, <1>8, <1>9, <1>10, <1>11 DEF u

\* An entry is put in its place.
LEMMA PutTree ==
  ASSUME IsTree(server), NEW p \in Paths, clock' \in 1..MaxVersion, ~Blocked(p),
         NEW e \in Entries, e # None, e.dir \/ ~server[p].dir
  PROVE  /\ IsTree(Put(p, e)) /\ Put(p, e)[p] = e
         /\ \A q \in Paths : q # p /\ (q \notin Ancestors(p) \/ server[q] # None) => Put(p, e)[q] = server[q]
         /\ \A q \in Paths : server[q].dir => Put(p, e)[q].dir
         /\ \A K : /\ Revived(p) \cup {MetaKey(p)} \subseteq K
                   /\ Kind(e) = Kind(server[p]) \/ DirKey(Front(p)) \in K
                   /\ (e.dir <=> server[p].dir) \/ DirKey(p) \in K
                   => Only(server, Put(p, e), K)
<1> DEFINE t == MakeParents(p)
           u == Put(p, e)
<1>0. server \in [Paths -> Entries] /\ p \notin Ancestors(p)
  BY AncestorFacts DEF IsTree
<1>1. /\ IsTree(t) /\ \A q \in Ancestors(p) : t[q].dir
      /\ \A q \in Paths : q \notin Ancestors(p) \/ server[q] # None => t[q] = server[q]
      /\ Only(server, t, Revived(p))
  BY ParentsTree
<1>2. t \in [Paths -> Entries] /\ t[p] = server[p]
  BY <1>0, <1>1 DEF IsTree
<1>3. u = [t EXCEPT ![p] = e]
  BY DEF Put
<1> HIDE DEF t, u
<1>4. u \in [Paths -> Entries] /\ u[p] = e /\ \A q \in Paths : q # p => u[q] = t[q]
  BY <1>2, <1>3
<1>5. ASSUME NEW q \in Paths, u[q] # None, NEW r \in Ancestors(q)
      PROVE  u[r].dir
  <2>0. r \in Paths /\ q \in Under(r) /\ r # q
    BY AncestorFacts
  <2>1. CASE q = p
    BY <1>1, <1>4, <2>0, <2>1
  <2>2. CASE q # p
    <3>1. t[q] # None
      BY <1>4, <1>5, <2>2
    <3>2. t[r].dir
      BY <1>1, <3>1 DEF IsTree
    <3>3. CASE r = p
      <4>1. e.dir
        BY <1>2, <3>2, <3>3
      <4> QED
        BY <1>4, <3>3, <4>1
    <3>4. CASE r # p
      BY <1>4, <2>0, <3>2, <3>4
    <3> QED
      BY <3>3, <3>4
  <2> QED
    BY <2>1, <2>2
<1>6. IsTree(u)
  BY <1>4, <1>5 DEF IsTree
<1>7. ASSUME NEW q \in Paths, q # p, q \notin Ancestors(p) \/ server[q] # None
      PROVE  u[q] = server[q]
  BY <1>1, <1>4, <1>7
<1>8. ASSUME NEW q \in Paths, server[q].dir
      PROVE  u[q].dir
  <2>1. server[q] # None
    BY <1>8, EntryFacts
  <2>2. CASE q = p
    BY <1>4, <1>8, <2>2
  <2>3. CASE q # p
    BY <1>7, <1>8, <2>1, <2>3
  <2> QED
    BY <2>2, <2>3
<1>9. ASSUME NEW K, Revived(p) \cup {MetaKey(p)} \subseteq K,
             Kind(e) = Kind(server[p]) \/ DirKey(Front(p)) \in K,
             (e.dir <=> server[p].dir) \/ DirKey(p) \in K
      PROVE  Only(server, u, K)
  <2>1. Only(server, t, K)
    BY <1>1, <1>9 DEF Only
  <2>2. Only(t, u, K)
    <3>1. \A q \in Paths : t[q] = u[q] \/ MetaKey(q) \in K
      BY <1>4, <1>9
    <3>2. \A q \in Paths : Kind(t[q]) = Kind(u[q]) \/ DirKey(Front(q)) \in K
      BY <1>2, <1>4, <1>9
    <3>3. e.dir <=> Kind(e) = "dir"
      BY EntryFacts
    <3>4. server[p].dir <=> Kind(server[p]) = "dir"
      BY <1>0, EntryFacts
    <3>5. \A q \in Paths \cap DirPaths : (Kind(u[q]) = "dir" <=> Kind(t[q]) = "dir") \/ DirKey(q) \in K
      BY <1>2, <1>4, <1>9, <3>3, <3>4
    <3> QED
      BY <1>2, <1>4, <3>1, <3>2, <3>5, OnlyFrom
  <2> QED
    BY <2>1, <2>2, OnlyTrans
<1> QED
  BY <1>4, <1>6, <1>7, <1>8, <1>9 DEF u

\* A subtree is moved over another place.
LEMMA MoveTreeTree ==
  ASSUME NEW t, IsTree(t), NEW from \in Paths, NEW to \in Paths, Apart(from, to),
         \A q \in Ancestors(to) : t[q].dir
  PROVE  /\ IsTree(MoveTree(t, from, to, None))
         /\ \A q \in Under(to) : MoveTree(t, from, to, None)[q] = t[Moved(to, from, q)]
         /\ \A q \in Under(from) : MoveTree(t, from, to, None)[q] = None
         /\ \A q \in Paths : q \notin Under(from) \cup Under(to) => MoveTree(t, from, to, None)[q] = t[q]
         /\ Only(t, MoveTree(t, from, to, None), TreeKeys(from) \cup TreeKeys(to))
<1> DEFINE u == MoveTree(t, from, to, None)
<1>0. t \in [Paths -> Entries] /\ DOMAIN t = Paths
  BY DEF IsTree
<1>1. /\ Apart(to, from) /\ Under(from) \cap Under(to) = {}
      /\ Under(from) \subseteq Paths /\ Under(to) \subseteq Paths
  BY ApartFacts, UnderFacts
<1>2. \A q \in Under(to) : Moved(to, from, q) \in Under(from)
  BY <1>1, MovedFacts
<1>3. /\ \A q \in Under(to) : u[q] = t[Moved(to, from, q)]
      /\ \A q \in Under(from) : u[q] = None
      /\ \A q \in Paths : q \notin Under(from) \cup Under(to) => u[q] = t[q]
  BY <1>0, <1>1, <1>2 DEF MoveTree
<1>4. DOMAIN u = Paths /\ u = [q \in Paths |-> u[q]]
  BY <1>0 DEF MoveTree
<1> HIDE DEF u
<1>5. u \in [Paths -> Entries]
  <2>1. \A q \in Paths : u[q] \in Entries
    BY <1>0, <1>1, <1>2, <1>3, EntryFacts
  <2> QED
    BY <1>4, <2>1
<1>6. ASSUME NEW q \in Paths, u[q] # None, NEW r \in Ancestors(q)
      PROVE  u[r].dir
  <2>0. r \in Paths /\ q \in Under(r) /\ r # q
    BY AncestorFacts
  <2>1. q \notin Under(from)
    BY <1>3, <1>6
  <2>2. r \notin Under(from)
    BY <2>0, <2>1, UnderFacts
  <2>3. CASE r \in Under(to)
    <3>1. q \in Under(to)
      BY <2>0, <2>3, UnderFacts
    <3>2. /\ Moved(to, from, q) \in Under(Moved(to, from, r))
          /\ Moved(to, from, q) # Moved(to, from, r)
      BY <1>1, <2>0, <2>3, MovedFacts
    <3>3. Moved(to, from, q) \in Paths /\ Moved(to, from, r) \in Paths
      BY <1>1, <1>2, <2>3, <3>1
    <3>4. Moved(to, from, r) \in Ancestors(Moved(to, from, q))
      BY <3>2, <3>3, AncestorFacts
    <3>5. t[Moved(to, from, q)] # None
      BY <1>3, <1>6, <3>1
    <3>6. t[Moved(to, from, r)].dir
      BY <3>3, <3>4, <3>5 DEF IsTree
    <3> QED
      BY <1>3, <2>3, <3>6
  <2>4. CASE r \notin Under(to)
    <3>1. u[r] = t[r]
      BY <1>3, <2>0, <2>2, <2>4
    <3>2. CASE q \in Under(to)
      <4>1. to \in Under(r)
        BY <2>0, <2>4, <3>2, Comparable
      <4>2. r # to
        BY <2>4, UnderFacts
      <4>3. r \in Ancestors(to)
        BY <2>0, <4>1, <4>2, AncestorFacts
      <4> QED
        BY <3>1, <4>3
    <3>3. CASE q \notin Under(to)
      <4>1. t[q] # None
        BY <1>3, <1>6, <2>1, <3>3
      <4> QED
        BY <3>1, <4>1 DEF IsTree
    <3> QED
      BY <3>2, <3>3
  <2> QED
    BY <2>3, <2>4
<1>7. IsTree(u)
  BY <1>5, <1>6 DEF IsTree
<1>8. Only(t, u, TreeKeys(from) \cup TreeKeys(to))
  <2> DEFINE K == TreeKeys(from) \cup TreeKeys(to)
             w == [q \in Paths |-> IF q \in Under(from) THEN u[q] ELSE t[q]]
  <2>1. w \in [Paths -> Entries]
    BY <1>0, <1>5
  <2>2. Only(t, w, K)
    BY <1>0, <2>1, OnlyUnder
  <2>3. \A q \in Paths : q \notin Under(to) => w[q] = u[q]
    BY <1>3
  <2> HIDE DEF w
  <2>4. Only(w, u, K)
    BY <1>5, <2>1, <2>3, OnlyUnder
  <2> QED
    BY <2>2, <2>4, OnlyTrans
<1> QED
  BY <1>3, <1>7, <1>8 DEF u

-----------------------------------------------------------------------------
(* What a mutation does to the tree. *)

\* A mutation under way is a request.
LEMMA MainAsked ==
  ASSUME MainTyped, main.pc # "idle"
  PROVE  Asked(main)
  BY DEF MainTyped, Asked

\* Writes that a mutation does not wait for bring attributes into doubt.
LEMMA UnwrittenFacts ==
  ASSUME NEW S \in SUBSET Paths
  PROVE  /\ Unwritten(S) \subseteq Keys
         /\ \A q \in S : pending[q] # None => MetaKey(q) \in Unwritten(S)
<1>1. Unwritten(S) \subseteq Keys
  BY DEF Unwritten, MetaKeys, Keys
<1>2. \A q \in S : pending[q] # None => MetaKey(q) \in Unwritten(S)
  BY KeyFacts DEF Unwritten
<1> QED
  BY <1>1, <1>2

\* The keys a mutation is about, operation by operation.
LEMMA OpKeysAre ==
  ASSUME NEW m, Asked(m)
  PROVE  /\ m.op \in {"chmod", "truncate"} => OpKeys(m) = {MetaKey(m.path)}
         /\ m.op = "create" => OpKeys(m) = {MetaKey(m.path), DirKey(Front(m.path))}
         /\ m.op = "mkdir" =>
              OpKeys(m) = {MetaKey(m.path), DirKey(m.path), DirKey(Front(m.path))}
         /\ m.op \in {"unlink", "rmdir"} => OpKeys(m) = TreeKeys(m.path)
         /\ m.op = "rename" => OpKeys(m) = TreeKeys(m.path) \cup TreeKeys(m.to)
         /\ OpKeys(m) \subseteq Keys
<1> DEFINE p == m.path
<1>0. m.op \in Ops /\ p \in Paths /\ Front(p) \in DirPaths
  BY ParentInDirPaths DEF Asked
<1>1. CASE m.op \in {"chmod", "truncate"}
  <2>1. OpKeys(m) = {MetaKey(p)}
    BY <1>1 DEF OpKeys, MetaKey
  <2> QED
    BY <1>0, <1>1, <2>1, KeysAre
<1>2. CASE m.op = "create"
  <2>1. OpKeys(m) = {MetaKey(p)} \cup DirKeys({Front(p)})
    BY <1>2 DEF OpKeys, MetaKey
  <2>2. DirKeys({Front(p)}) = {DirKey(Front(p))}
    BY <1>0 DEF DirKeys, DirKey
  <2>3. OpKeys(m) = {MetaKey(p), DirKey(Front(p))}
    BY <2>1, <2>2
  <2> QED
    BY <1>0, <1>2, <2>3, KeysAre
<1>3. CASE m.op = "mkdir"
  <2>0. p \in DirPaths
    BY <1>3 DEF Asked
  <2>1. OpKeys(m) = {MetaKey(p)} \cup DirKeys({p, Front(p)})
    BY <1>3 DEF OpKeys, MetaKey
  <2>2. DirKeys({p, Front(p)}) = {DirKey(p), DirKey(Front(p))}
    BY <1>0, <2>0 DEF DirKeys, DirKey
  <2>3. OpKeys(m) = {MetaKey(p), DirKey(p), DirKey(Front(p))}
    BY <2>1, <2>2
  <2> QED
    BY <1>0, <1>3, <2>0, <2>3, KeysAre
<1>4. CASE m.op \in {"unlink", "rmdir"}
  <2>1. OpKeys(m) = TreeKeys(p)
    BY <1>4 DEF OpKeys
  <2> QED
    BY <1>0, <1>4, <2>1, TreeKeyFacts
<1>5. CASE m.op = "rename"
  <2>1. OpKeys(m) = TreeKeys(p) \cup TreeKeys(m.to) /\ m.to \in Paths
    BY <1>5 DEF OpKeys, Asked
  <2> QED
    BY <1>0, <1>5, <2>1, TreeKeyFacts
<1> QED
  BY <1>0, <1>1, <1>2, <1>3, <1>4, <1>5 DEF Ops

\* An ancestor is shorter.
LEMMA ShorterAncestor ==
  ASSUME NEW p \in Paths, NEW q \in Ancestors(p)
  PROVE  Len(q) < Len(p) /\ Len(q) \in Nat /\ Len(p) \in Nat
<1>1. q \in Paths /\ p \in Under(q) /\ q # p
  BY AncestorFacts
<1>2. p \in Seq(Labels) /\ q \in Seq(Labels) /\ Len(q) \in Nat /\ Len(p) \in Nat
  BY <1>1, FrontIs
<1> QED
  BY <1>1, <1>2, UnderIs, SameSeq

\* Entries of one directory are not above each other, nor above paths of the same depth.
LEMMA SiblingFacts ==
  ASSUME NEW p \in Paths, NEW q \in Children(Front(p)), NEW x \in Paths, Len(x) = Len(p)
  PROVE  q \in Paths /\ q \notin Ancestors(x) /\ (q \in Under(x) => q = x)
<1>1. q \in Paths /\ Front(q) = Front(p)
  BY DEF Children
<1>2. Len(q) = Len(p) /\ Len(q) \in Nat
  <2>1. Len(Front(q)) = Len(q) - 1 /\ Len(Front(p)) = Len(p) - 1 /\ Len(q) \in Nat /\ Len(p) \in Nat
    BY <1>1, FrontIs
  <2> QED
    BY <1>1, <2>1
<1>3. q \notin Ancestors(x)
  BY <1>2, ShorterAncestor
<1>4. q \in Under(x) => q = x
  <2>1. x \in Seq(Labels) /\ q \in Seq(Labels)
    BY <1>1, FrontIs
  <2> QED
    BY <1>1, <1>2, <2>1, UnderIs, SameSeq
<1> QED
  BY <1>1, <1>3, <1>4

\* The parent of a path is there after the change if it was before and the
\* change keeps it.
LEMMA ParentKept ==
  ASSUME NEW p \in Paths, NEW b, NEW a, \A q \in Paths : b[q].dir /\ q = Front(p) => a[q].dir
  PROVE  Front(p) \in DirsOf(b) => Front(p) \in DirsOf(a)
  BY DEF DirsOf

\* create, mkdir and truncate.
LEMMA PutDeed ==
  ASSUME ServerTyped, NEW m, Asked(m), m.op \in {"create", "mkdir", "truncate"},
         clock' \in 1..MaxVersion, ~Refuses(m)
  PROVE  /\ IsTree(Effect(m)) /\ Only(server, Effect(m), OpKeys(m) \cup Doubts(m)) /\ Doubts(m) \subseteq Keys
         /\ Deed(m, server, Effect(m), Doubts(m))
<1> DEFINE p == m.path
           e == IF m.op = "mkdir" THEN Dir(clock') ELSE File(clock')
           unwritten == Unwritten({p})
           found == IF server[p] # None THEN DirKeys({p}) ELSE {}
<1>0. p \in Paths /\ IsTree(server) /\ server \in [Paths -> Entries]
  BY DEF Asked, ServerTyped, IsTree
<1>1. e \in Entries /\ e # None /\ (m.op = "mkdir" => e.dir /\ Kind(e) = "dir")
      /\ (m.op # "mkdir" => ~e.dir /\ Kind(e) = "file")
  BY EntryFacts
<1>2. ~Blocked(p) /\ (m.op # "mkdir" => ~server[p].dir)
  BY DEF Refuses
<1>3. Effect(m) = Put(p, e)
  BY DEF Effect
<1> HIDE DEF e
<1>4. /\ IsTree(Effect(m)) /\ Effect(m)[p] = e
      /\ \A q \in Paths : q # p /\ (q \notin Ancestors(p) \/ server[q] # None) => Effect(m)[q] = server[q]
      /\ \A q \in Paths : server[q].dir => Effect(m)[q].dir
      /\ \A K : /\ Revived(p) \cup {MetaKey(p)} \subseteq K
                /\ Kind(e) = Kind(server[p]) \/ DirKey(Front(p)) \in K
                /\ (e.dir <=> server[p].dir) \/ DirKey(p) \in K
                => Only(server, Effect(m), K)
  BY <1>0, <1>1, <1>2, <1>3, PutTree
<1>5. Revived(p) \subseteq Keys /\ TreeKeys(p) \subseteq Keys
  BY <1>0, <1>2, ParentsTree, TreeKeyFacts
<1>6. unwritten \subseteq Keys /\ found \subseteq Keys
  <2>1. unwritten \subseteq Keys
    BY <1>0, UnwrittenFacts
  <2>2. found \subseteq Keys
    BY DEF DirKeys, Keys
  <2> QED
    BY <2>1, <2>2
<1>7. Siblings(m, server, Effect(m), p)
  <2>1. \A q \in Children(Front(p)) : q \in Paths /\ q \notin Ancestors(p)
    BY <1>0, SiblingFacts
  <2>2. \A q \in Children(Front(p)) : q \notin {m.path, m.to} => Effect(m)[q] = server[q]
    BY <1>4, <2>1
  <2>3. Front(p) \in DirsOf(server) => Front(p) \in DirsOf(Effect(m))
    BY <1>0, <1>4, ParentKept
  <2> QED
    BY <2>2, <2>3 DEF Siblings
<1>8. CASE m.op = "truncate"
  <2>1. Doubts(m) = unwritten \cup (IF server[p] = None THEN TreeKeys(p) \cup Revived(p) ELSE {})
    BY <1>8 DEF Doubts
  <2> HIDE DEF unwritten
  <2>2. OpKeys(m) = {MetaKey(p)}
    BY <1>8, OpKeysAre
  <2>3. Only(server, Effect(m), OpKeys(m) \cup Doubts(m))
    <3>1. e.dir <=> server[p].dir
      BY <1>1, <1>2, <1>8
    <3>2. CASE server[p] = None
      <4>1. DirKey(Front(p)) \in TreeKeys(p)
        BY <1>0, TreeKeyFacts, ParentInDirPaths
      <4> QED
        BY <1>4, <2>1, <2>2, <3>1, <3>2, <4>1
    <3>3. CASE server[p] # None
      <4>1. Kind(server[p]) = "file"
        BY <1>0, <1>2, <1>8, <3>3, EntryFacts
      <4>2. Kind(e) = "file"
        BY <1>1, <1>8
      <4>3. Revived(p) = {}
        BY <1>0, <1>2, <3>3, ParentsTree
      <4> QED
        BY <1>4, <2>2, <3>1, <4>1, <4>2, <4>3
    <3> QED
      BY <3>2, <3>3
  <2> QED
    BY <1>4, <1>5, <1>6, <1>7, <1>8, <2>1, <2>3 DEF Deed
<1>9. CASE m.op = "create"
  <2>1. Doubts(m) = Revived(p) \cup unwritten
    BY <1>9 DEF Doubts
  <2>2. OpKeys(m) = {MetaKey(p), DirKey(Front(p))}
    BY <1>9, OpKeysAre
  <2>3. e.dir <=> server[p].dir
    BY <1>1, <1>2, <1>9
  <2> HIDE DEF unwritten
  <2>4. Only(server, Effect(m), OpKeys(m) \cup Doubts(m))
    BY <1>4, <2>1, <2>2, <2>3
  <2>5. Kind(Effect(m)[p]) = "file"
    BY <1>1, <1>4, <1>9
  <2> QED
    BY <1>4, <1>5, <1>6, <1>7, <1>9, <2>1, <2>4, <2>5 DEF Deed
<1>10. CASE m.op = "mkdir"
  <2>1. Doubts(m) = Revived(p) \cup unwritten \cup found
    BY <1>10 DEF Doubts
  <2>2. OpKeys(m) = {MetaKey(p), DirKey(p), DirKey(Front(p))} /\ p \in DirPaths
    BY <1>10, OpKeysAre DEF Asked
  <2>3. Kind(Effect(m)[p]) = "dir"
    BY <1>1, <1>4, <1>10
  <2>4. DirKey(p) \in Doubts(m) \/ \A q \in Children(p) : Effect(m)[q] = None
    <3>1. CASE server[p] # None
      BY <2>1, <2>2, <3>1, KeyFacts
    <3>2. CASE server[p] = None
      <4> SUFFICES ASSUME NEW q \in Children(p) PROVE Effect(m)[q] = None
        OBVIOUS
      <4>1. q \in Paths /\ Front(q) = p
        BY DEF Children
      <4>2. p \in Ancestors(q) /\ q # p
        BY <1>0, <4>1, AncestorFacts
      <4>3. server[q] = None
        <5>1. ~server[p].dir
          BY <3>2, EntryFacts
        <5> QED
          BY <1>0, <4>1, <4>2, <5>1 DEF IsTree
      <4>4. q \notin Ancestors(p)
        <5>1. Len(p) < Len(q) /\ Len(p) \in Nat /\ Len(q) \in Nat
          BY <4>1, <4>2, ShorterAncestor
        <5> QED
          BY <1>0, <5>1, ShorterAncestor
      <4> QED
        BY <1>4, <4>1, <4>2, <4>3, <4>4
    <3> QED
      BY <3>1, <3>2
  <2> HIDE DEF unwritten, found
  <2>5. Only(server, Effect(m), OpKeys(m) \cup Doubts(m))
    BY <1>4, <2>1, <2>2
  <2> QED
    BY <1>4, <1>5, <1>6, <1>7, <1>10, <2>1, <2>3, <2>4, <2>5 DEF Deed
<1> QED
  BY <1>8, <1>9, <1>10

\* chmod, unlink and rmdir.
LEMMA CutDeed ==
  ASSUME ServerTyped, NEW m, Asked(m), m.op \in {"chmod", "unlink", "rmdir"},
         clock' \in 1..MaxVersion, ~Refuses(m)
  PROVE  /\ IsTree(Effect(m)) /\ Only(server, Effect(m), OpKeys(m) \cup Doubts(m)) /\ Doubts(m) \subseteq Keys
         /\ Deed(m, server, Effect(m), Doubts(m))
<1> DEFINE p == m.path
<1>0. p \in Paths /\ IsTree(server) /\ server \in [Paths -> Entries]
  BY DEF Asked, ServerTyped, IsTree
<1>1. /\ m.op = "chmod" => Doubts(m) = Unwritten({p})
      /\ m.op \in {"unlink", "rmdir"} => Doubts(m) = {}
      /\ Unwritten({p}) \subseteq Keys
  BY <1>0, UnwrittenFacts DEF Doubts
<1>2. \A q \in Children(Front(p)) : q \in Paths /\ (q \in Under(p) => q = p)
  BY <1>0, SiblingFacts
<1>3. CASE m.op = "chmod"
  <2>1. Effect(m) = [server EXCEPT ![p].ver = clock'] /\ server[p] # None
    BY <1>3 DEF Effect, Refuses
  <2>2. IsTree(Effect(m)) /\ Only(server, Effect(m), {MetaKey(p)})
    BY <1>0, <2>1, TouchTree
  <2>3. OpKeys(m) = {MetaKey(p)}
    BY <1>3, OpKeysAre
  <2>4. \A q \in Paths : q # p => Effect(m)[q] = server[q]
    BY <1>0, <2>1
  <2>5. Front(p) # p
    BY <1>0, UnderFacts
  <2>6. Front(p) \in DirsOf(server) => Front(p) \in DirsOf(Effect(m))
    BY <1>0, <2>4, <2>5, ParentKept
  <2>7. Siblings(m, server, Effect(m), p)
    BY <1>2, <2>4, <2>6 DEF Siblings
  <2>8. Only(server, Effect(m), OpKeys(m) \cup Doubts(m))
    BY <2>2, <2>3 DEF Only
  <2> QED
    BY <1>1, <1>3, <2>2, <2>7, <2>8 DEF Deed
<1>4. CASE m.op \in {"unlink", "rmdir"}
  <2>1. Effect(m) = Cut(p)
    BY <1>4 DEF Effect
  <2>2. /\ IsTree(Effect(m)) /\ Only(server, Effect(m), TreeKeys(p))
        /\ \A q \in Under(p) : Effect(m)[q] = None
        /\ \A q \in Paths : q \notin Under(p) => Effect(m)[q] = server[q]
    BY <1>0, <2>1, CutTree
  <2>3. OpKeys(m) = TreeKeys(p)
    BY <1>4, OpKeysAre
  <2>4. Front(p) \notin Under(p)
    BY <1>0, UnderFacts
  <2>5. Front(p) \in DirsOf(server) => Front(p) \in DirsOf(Effect(m))
    BY <1>0, <2>2, <2>4, ParentKept
  <2>6. Siblings(m, server, Effect(m), p)
    BY <1>2, <2>2, <2>5 DEF Siblings
  <2> QED
    BY <1>1, <1>4, <2>2, <2>3, <2>6 DEF Deed
<1> QED
  BY <1>3, <1>4

\* rename.
LEMMA MoveDeed ==
  ASSUME ServerTyped, NEW m, Asked(m), m.op = "rename",
         clock' \in 1..MaxVersion, ~Refuses(m)
  PROVE  /\ IsTree(Effect(m)) /\ Only(server, Effect(m), OpKeys(m) \cup Doubts(m)) /\ Doubts(m) \subseteq Keys
         /\ Deed(m, server, Effect(m), Doubts(m))
<1> DEFINE p == m.path
           to == m.to
           t == MakeParents(to)
<1>0. p \in Paths /\ to \in Paths /\ Apart(p, to) /\ IsTree(server) /\ server \in [Paths -> Entries]
  BY DEF Asked, ServerTyped, IsTree
<1>1. ~Blocked(to)
  BY DEF Refuses
<1>2. /\ IsTree(t) /\ \A q \in Ancestors(to) : t[q].dir
      /\ \A q \in Paths : q \notin Ancestors(to) \/ server[q] # None => t[q] = server[q]
      /\ Only(server, t, Revived(to)) /\ Revived(to) \subseteq Keys
  BY <1>0, <1>1, ParentsTree
<1>3. OpKeys(m) = TreeKeys(p) \cup TreeKeys(to)
  BY OpKeysAre
<1> DEFINE unwritten == Unwritten(Under(p) \cup Under(to))
<1>4. Doubts(m) = Revived(to) \cup unwritten \cup (IF server[p] = None THEN TreeKeys(to) ELSE {})
  BY DEF Doubts
<1>5. Effect(m) = IF server[p] = None THEN t ELSE MoveTree(t, p, to, None)
  BY DEF Effect
<1>6. Doubts(m) \subseteq Keys
  <2>1. Under(p) \cup Under(to) \in SUBSET Paths
    BY DEF Under
  <2>2. unwritten \subseteq Keys
    BY <2>1, UnwrittenFacts
  <2> HIDE DEF unwritten
  <2> QED
    BY <1>0, <1>2, <1>4, <2>2, TreeKeyFacts
<1> HIDE DEF t, unwritten
<1>7. Len(p) = Len(to)
  BY <1>0 DEF Apart
<1>8. ASSUME NEW x \in {p, to}
      PROVE  /\ \A q \in Children(Front(x)) : q \in Paths /\ q \notin Ancestors(to)
             /\ \A q \in Children(Front(x)) : q \in Under(p) => q = p
             /\ \A q \in Children(Front(x)) : q \in Under(to) => q = to
             /\ x \in Paths /\ Front(x) \notin Under(p) /\ Front(x) \notin Under(to)
  BY <1>0, <1>7, SiblingFacts, ApartFacts, UnderFacts
<1>9. \A q \in Paths : server[q].dir => t[q].dir
  <2> SUFFICES ASSUME NEW q \in Paths, server[q].dir PROVE t[q].dir
    OBVIOUS
  <2>1. server[q] # None
    BY EntryFacts
  <2> QED
    BY <1>2, <2>1
<1>10. \A q \in Under(p) : q \in Paths /\ q \notin Ancestors(to)
  <2> SUFFICES ASSUME NEW q \in Under(p) PROVE q \in Paths /\ q \notin Ancestors(to)
    OBVIOUS
  <2>1. q \in Paths
    BY <1>0, UnderFacts
  <2>2. q \in Ancestors(to) => to \in Under(p)
    BY <1>0, <2>1, AncestorFacts, UnderFacts
  <2> QED
    BY <1>0, <2>1, <2>2, ApartFacts
<1>11. CASE server[p] = None
  <2>1. Effect(m) = t
    BY <1>5, <1>11
  <2>2. \A x \in {p, to} : Siblings(m, server, Effect(m), x)
    <3> SUFFICES ASSUME NEW x \in {p, to} PROVE Siblings(m, server, Effect(m), x)
      OBVIOUS
    <3>1. Front(x) \in DirsOf(server) => Front(x) \in DirsOf(Effect(m))
      BY <1>8, <1>9, <2>1, ParentKept
    <3> QED
      BY <1>2, <1>8, <2>1, <3>1 DEF Siblings
  <2>3. \A q \in Under(p) : Effect(m)[q] = None
    <3> SUFFICES ASSUME NEW q \in Under(p) PROVE Effect(m)[q] = None
      OBVIOUS
    <3>1. q \in Paths /\ t[q] = server[q]
      BY <1>2, <1>10
    <3>2. q # p => p \in Ancestors(q)
      BY <1>0, <3>1, AncestorFacts
    <3>3. ~server[p].dir
      BY <1>11, EntryFacts
    <3>4. server[q] = None
      BY <1>0, <1>11, <3>1, <3>2, <3>3 DEF IsTree
    <3> QED
      BY <2>1, <3>1, <3>4
  <2>4. Only(server, Effect(m), OpKeys(m) \cup Doubts(m))
    BY <1>2, <1>4, <2>1 DEF Only
  <2>5. TreeKeys(to) \subseteq Doubts(m)
    BY <1>4, <1>11
  <2> QED
    BY <1>2, <1>6, <2>1, <2>2, <2>3, <2>4, <2>5 DEF Deed
<1>12. CASE server[p] # None
  <2>1. Effect(m) = MoveTree(t, p, to, None)
    BY <1>5, <1>12
  <2>2. /\ IsTree(Effect(m))
        /\ \A q \in Under(to) : Effect(m)[q] = t[Moved(to, p, q)]
        /\ \A q \in Under(p) : Effect(m)[q] = None
        /\ \A q \in Paths : q \notin Under(p) \cup Under(to) => Effect(m)[q] = t[q]
        /\ Only(t, Effect(m), TreeKeys(p) \cup TreeKeys(to))
    <3>1. PICK x, y, z : x = p /\ y = to /\ z = t
      OBVIOUS
    <3>2. x \in Paths /\ y \in Paths /\ Apart(x, y) /\ IsTree(z) /\ \A q \in Ancestors(y) : z[q].dir
      BY <1>0, <1>2, <3>1
    <3>3. /\ IsTree(MoveTree(z, x, y, None))
          /\ \A q \in Under(y) : MoveTree(z, x, y, None)[q] = z[Moved(y, x, q)]
          /\ \A q \in Under(x) : MoveTree(z, x, y, None)[q] = None
          /\ \A q \in Paths : q \notin Under(x) \cup Under(y) => MoveTree(z, x, y, None)[q] = z[q]
          /\ Only(z, MoveTree(z, x, y, None), TreeKeys(x) \cup TreeKeys(y))
      BY <3>2, MoveTreeTree
    <3>4. Effect(m) = MoveTree(z, x, y, None)
      BY <2>1, <3>1
    <3> QED
      BY <3>1, <3>3, <3>4
  <2>3. \A q \in Under(to) : Effect(m)[q] = server[Moved(to, p, q)]
    <3> SUFFICES ASSUME NEW q \in Under(to) PROVE t[Moved(to, p, q)] = server[Moved(to, p, q)]
      BY <2>2
    <3>1. Moved(to, p, q) \in Under(p)
      BY <1>0, ApartFacts, MovedFacts
    <3> QED
      BY <1>2, <1>10, <3>1
  <2>4. \A x \in {p, to} : Siblings(m, server, Effect(m), x)
    <3> SUFFICES ASSUME NEW x \in {p, to} PROVE Siblings(m, server, Effect(m), x)
      OBVIOUS
    <3>1. \A q \in Paths : q = Front(x) => q \notin Under(p) \cup Under(to)
      BY <1>8
    <3>2. Front(x) \in DirsOf(server) => Front(x) \in DirsOf(Effect(m))
      BY <1>8, <1>9, <2>2, <3>1, ParentKept
    <3>3. \A q \in Children(Front(x)) : q \notin {p, to} => Effect(m)[q] = server[q]
      BY <1>2, <1>8, <2>2
    <3> QED
      BY <3>2, <3>3 DEF Siblings
  <2>5. Only(server, Effect(m), OpKeys(m) \cup Doubts(m))
    <3> DEFINE K == OpKeys(m) \cup Doubts(m)
    <3>1. Only(server, t, K)
      BY <1>2, <1>4 DEF Only
    <3>2. Only(t, Effect(m), K)
      BY <1>3, <2>2 DEF Only
    <3> QED
      BY <3>1, <3>2, OnlyTrans
  <2> QED
    BY <1>6, <2>2, <2>3, <2>4, <2>5 DEF Deed
<1> QED
  BY <1>11, <1>12

\* Every mutation.
LEMMA EffectDeed ==
  ASSUME ServerTyped, NEW m, Asked(m), clock' \in 1..MaxVersion, ~Refuses(m)
  PROVE  /\ IsTree(Effect(m)) /\ Only(server, Effect(m), OpKeys(m) \cup Doubts(m)) /\ Doubts(m) \subseteq Keys
         /\ Deed(m, server, Effect(m), Doubts(m))
<1>1. m.op \in Ops
  BY DEF Asked
<1> QED
  BY <1>1, PutDeed, CutDeed, MoveDeed DEF Ops

-----------------------------------------------------------------------------
(* Operations on the caches. *)

\* What the server has in a directory is a listing.
LEMMA ListingTyped ==
  ASSUME NEW t \in [Paths -> Entries], NEW d
  PROVE  Listing(t, d) \in [Children(d) -> Kinds] /\ Listing(t, d) \in [Children(d) -> {"none", "file", "dir"}]
<1>1. \A p \in Children(d) : p \in Paths /\ Kind(t[p]) \in Kinds
  BY EntryFacts DEF Children, Kinds
<1> QED
  BY <1>1 DEF Listing, Kinds

\* Dropping keys.
LEMMA DropFacts ==
  ASSUME CachesTyped, NEW K
  PROVE  /\ DropMetas(K) \in [Paths -> Entries] /\ AreListings(DropDirs(K))
         /\ \A p \in Paths : DropMetas(K)[p] = IF MetaKey(p) \in K THEN None ELSE metas[p]
         /\ \A d \in DirPaths : DropDirs(K)[d] = IF DirKey(d) \in K THEN NoListing ELSE dirs[d]
<1>1. DropMetas(K) \in [Paths -> Entries]
  BY EntryFacts DEF CachesTyped, DropMetas
<1>2. \A d \in DirPaths : DropDirs(K)[d] = IF DirKey(d) \in K THEN NoListing ELSE dirs[d]
  BY DEF DropDirs, DirKey
<1>3. DOMAIN DropDirs(K) = DirPaths
  BY DEF DropDirs
<1>4. AreListings(DropDirs(K))
  BY <1>2, <1>3 DEF CachesTyped, AreListings
<1>5. \A p \in Paths : DropMetas(K)[p] = IF MetaKey(p) \in K THEN None ELSE metas[p]
  BY DEF DropMetas, MetaKey
<1> QED
  BY <1>1, <1>2, <1>4, <1>5

\* dir_upsert and dir_remove.
LEMMA RelistFacts ==
  ASSUME NEW f, AreListings(f), NEW p \in Paths, NEW k \in Kinds
  PROVE  /\ AreListings(Relist(f, p, k))
         /\ \A d \in DirPaths : d # Front(p) => Relist(f, p, k)[d] = f[d]
         /\ f[Front(p)] = NoListing => Relist(f, p, k)[Front(p)] = NoListing
         /\ f[Front(p)] # NoListing => Relist(f, p, k)[Front(p)] = [f[Front(p)] EXCEPT ![p] = k]
<1>0. Front(p) \in DirPaths /\ p \in Children(Front(p))
  BY ParentInDirPaths
<1>1. CASE f[Front(p)] = NoListing
  BY <1>1 DEF Relist
<1>2. CASE f[Front(p)] # NoListing
  <2> DEFINE l == [f[Front(p)] EXCEPT ![p] = k]
             g == [f EXCEPT ![Front(p)] = l]
  <2>1. Relist(f, p, k) = g
    BY <1>2 DEF Relist
  <2>2. l \in [Children(Front(p)) -> Kinds]
    BY <1>0, <1>2 DEF AreListings
  <2>3. DOMAIN f = DirPaths
    BY DEF AreListings
  <2> HIDE DEF l
  <2>4. DOMAIN g = DirPaths /\ g[Front(p)] = l /\ \A d \in DirPaths : d # Front(p) => g[d] = f[d]
    BY <1>0, <2>3
  <2> HIDE DEF g
  <2>5. AreListings(g)
    BY <2>2, <2>4 DEF AreListings
  <2> QED
    BY <1>2, <2>1, <2>4, <2>5 DEF l
<1> QED
  BY <1>1, <1>2

\* A directory of the place to is one of the place from.
LEMMA MovedDirPath ==
  ASSUME NEW from \in Paths, NEW to \in Paths, Apart(from, to), NEW d \in Under(to), d \in DirPaths
  PROVE  /\ Moved(to, from, d) \in Under(from) /\ Moved(to, from, d) \in DirPaths
         /\ \A p \in Children(d) : p \in Under(to) /\ Moved(to, from, p) \in Children(Moved(to, from, d))
<1>0. Apart(to, from)
  BY ApartFacts
<1>1. Moved(to, from, d) \in Under(from) /\ Under(from) \subseteq Paths
  BY <1>0, MovedFacts, UnderFacts
<1>2. ASSUME NEW p \in Children(d)
      PROVE  p \in Under(to) /\ Moved(to, from, p) \in Children(Moved(to, from, d))
  <2>1. p \in Paths /\ Front(p) = d
    BY DEF Children
  <2>2. p \in Under(to) /\ p # to
    BY <2>1, UnderFacts
  <2>3. Moved(to, from, p) \in Under(from) /\ Front(Moved(to, from, p)) = Moved(to, from, d)
    BY <1>0, <2>1, <2>2, MovedFacts
  <2> QED
    BY <1>1, <2>2, <2>3 DEF Children
<1>3. Moved(to, from, d) \in DirPaths
  <2>1. PICK p \in Children(d) : TRUE
    BY DEF DirPaths
  <2> QED
    BY <1>1, <1>2, <2>1 DEF DirPaths
<1> QED
  BY <1>1, <1>2, <1>3

\* The listings after the move of a subtree.
LEMMA MovedDirsFacts ==
  ASSUME AreListings(dirs), NEW from \in Paths, NEW to \in Paths, Apart(from, to)
  PROVE  /\ AreListings(MovedDirs(from, to))
         /\ \A d \in DirPaths : d \in Under(from) => MovedDirs(from, to)[d] = NoListing
         /\ \A d \in DirPaths : d \notin Under(from) \cup Under(to) => MovedDirs(from, to)[d] = dirs[d]
         /\ \A d \in DirPaths : d \in Under(to) =>
              \/ MovedDirs(from, to)[d] = NoListing
              \/ /\ dirs[Moved(to, from, d)] # NoListing
                 /\ MovedDirs(from, to)[d] =
                      [p \in Children(d) |-> dirs[Moved(to, from, d)][Moved(to, from, p)]]
<1> DEFINE g == MoveTree(dirs, from, to, NoListing)
           f == MovedDirs(from, to)
<1>0. DOMAIN dirs = DirPaths /\ Under(from) \cap Under(to) = {}
  BY ApartFacts DEF AreListings
<1>1. \A d \in DirPaths :
        /\ d \in Under(to) => g[d] = dirs[Moved(to, from, d)]
        /\ d \in Under(from) => g[d] = NoListing
        /\ d \notin Under(from) \cup Under(to) => g[d] = dirs[d]
  BY <1>0, MovedDirPath DEF MoveTree
<1>2. /\ DOMAIN f = DirPaths
      /\ \A d \in DirPaths : f[d] = IF d \in Under(to) /\ g[d] # NoListing
                                    THEN [p \in Children(d) |-> g[d][Moved(to, from, p)]]
                                    ELSE g[d]
  BY DEF MovedDirs
<1> HIDE DEF g, f
<1>3. ASSUME NEW d \in DirPaths, d \in Under(from)
      PROVE  f[d] = NoListing
  BY <1>0, <1>1, <1>2, <1>3
<1>4. ASSUME NEW d \in DirPaths, d \notin Under(from) \cup Under(to)
      PROVE  f[d] = dirs[d]
  BY <1>1, <1>2, <1>4
<1>5. ASSUME NEW d \in DirPaths, d \in Under(to)
      PROVE  /\ \/ f[d] = NoListing
                \/ /\ dirs[Moved(to, from, d)] # NoListing
                   /\ f[d] = [p \in Children(d) |-> dirs[Moved(to, from, d)][Moved(to, from, p)]]
             /\ f[d] = NoListing \/ f[d] \in [Children(d) -> Kinds]
  <2> DEFINE s == Moved(to, from, d)
  <2>1. g[d] = dirs[s] /\ s \in DirPaths
    BY <1>1, <1>5, MovedDirPath
  <2>2. CASE dirs[s] = NoListing
    BY <1>2, <2>1, <2>2
  <2>3. CASE dirs[s] # NoListing
    <3>1. f[d] = [p \in Children(d) |-> dirs[s][Moved(to, from, p)]]
      BY <1>2, <1>5, <2>1, <2>3
    <3>2. dirs[s] \in [Children(s) -> Kinds]
      BY <2>1, <2>3 DEF AreListings
    <3>3. \A p \in Children(d) : Moved(to, from, p) \in Children(s)
      BY <1>5, MovedDirPath
    <3>4. \A p \in Children(d) : dirs[s][Moved(to, from, p)] \in Kinds
      BY <3>2, <3>3
    <3> QED
      BY <2>3, <3>1, <3>4
  <2> QED
    BY <2>2, <2>3
<1>6. AreListings(f)
  <2> SUFFICES ASSUME NEW d \in DirPaths PROVE f[d] = NoListing \/ f[d] \in [Children(d) -> Kinds]
    BY <1>2 DEF AreListings
  <2> QED
    BY <1>3, <1>4, <1>5 DEF AreListings
<1> QED
  BY <1>3, <1>4, <1>5, <1>6 DEF f

\* The listings a mutation leaves.
LEMMA NewDirsTyped ==
  ASSUME CachesTyped, MainTyped, main.pc = "dirs"
  PROVE  AreListings(NewDirs)
<1> DEFINE p == main.path
           to == main.to
<1>0. /\ p \in Paths /\ main.op \in {"create", "mkdir", "unlink", "rmdir", "rename"}
      /\ AreListings(dirs) /\ metas \in [Paths -> Entries]
  BY DEF MainTyped, CachesTyped, Ops
<1>1. CASE main.op = "create"
  BY <1>0, <1>1, RelistFacts DEF NewDirs, Kinds
<1>2. CASE main.op = "mkdir"
  <2> DEFINE f == Relist(dirs, p, "dir")
             none == [q \in Children(p) |-> "none"]
  <2>1. AreListings(f) /\ p \in DirPaths
    BY <1>0, <1>2, RelistFacts DEF Kinds, MainTyped
  <2>2. none \in [Children(p) -> Kinds]
    BY DEF Kinds
  <2> HIDE DEF f, none
  <2>3. AreListings([f EXCEPT ![p] = none])
    BY <2>1, <2>2 DEF AreListings
  <2>4. NewDirs = [f EXCEPT ![p] = none]
    BY <1>2 DEF NewDirs, f, none
  <2> QED
    BY <2>3, <2>4
<1>3. CASE main.op \in {"unlink", "rmdir"}
  <2> DEFINE f == DropDirs(DirKeys(Under(p)))
  <2>1. AreListings(f)
    BY DropFacts
  <2>2. NewDirs = Relist(f, p, "none")
    BY <1>3 DEF NewDirs
  <2> HIDE DEF f
  <2> QED
    BY <1>0, <2>1, <2>2, RelistFacts DEF Kinds
<1>4. CASE main.op = "rename"
  <2> DEFINE f == Relist(MovedDirs(p, to), p, "none")
  <2>0. to \in Paths /\ Apart(p, to) /\ Front(to) \in DirPaths
    BY <1>4, ParentInDirPaths DEF MainTyped
  <2>1. AreListings(f)
    BY <1>0, <2>0, MovedDirsFacts, RelistFacts DEF Kinds
  <2>2. NewDirs = IF metas[to] # None THEN Relist(f, to, Kind(metas[to]))
                  ELSE [f EXCEPT ![Front(to)] = NoListing]
    BY <1>4 DEF NewDirs
  <2>3. Kind(metas[to]) \in Kinds
    BY <1>0, <2>0, EntryFacts DEF Kinds
  <2> HIDE DEF f
  <2>4. AreListings(Relist(f, to, Kind(metas[to])))
    BY <2>0, <2>1, <2>3, RelistFacts
  <2>5. AreListings([f EXCEPT ![Front(to)] = NoListing])
    BY <2>0, <2>1 DEF AreListings
  <2> QED
    BY <2>2, <2>4, <2>5
<1> QED
  BY <1>0, <1>1, <1>2, <1>3, <1>4

\* The attributes a mutation leaves.
LEMMA NewMetasTyped ==
  ASSUME CachesTyped, MainTyped, main.pc = "metas"
  PROVE  NewMetas \in [Paths -> Entries]
<1> DEFINE p == main.path
<1>0. p \in Paths /\ main.op \in Ops /\ metas \in [Paths -> Entries] /\ main.new \in Entries
  BY DEF MainTyped, CachesTyped, Mutations
<1>1. CASE main.op \in {"create", "mkdir"}
  BY <1>0, <1>1 DEF NewMetas
<1>2. CASE main.op \in {"chmod", "truncate"}
  BY <1>0, <1>2 DEF NewMetas
<1>3. CASE main.op \in {"unlink", "rmdir"}
  BY <1>3, DropFacts DEF NewMetas
<1>4. CASE main.op = "rename"
  <2> DEFINE f == MoveTree(metas, p, main.to, None)
  <2>1. DOMAIN metas = Paths
    BY <1>0
  <2>2. f \in [Paths -> Entries]
    BY <1>0, <2>1, EntryFacts DEF MoveTree
  <2> QED
    BY <1>4, <2>2 DEF NewMetas
<1> QED
  BY <1>0, <1>1, <1>2, <1>3, <1>4 DEF Ops
-----------------------------------------------------------------------------
(* Answers under way. *)

\* Answer a after the keys K were invalidated or written.
Overtaken(a, a2, K) ==
  /\ a2.pc = a.pc /\ a2.path = a.path /\ a2.stat = a.stat /\ a2.list = a.list /\ a2.left = a.left
  /\ a.dirty \subseteq a2.dirty
  /\ a.pc = "stat" /\ MetaKey(a.path) \in K => MetaKey(a.path) \in a2.dirty
  /\ a.pc = "list" /\ DirKey(a.path) \in K => DirKey(a.path) \in a2.dirty
  /\ a.pc \in {"list", "entries"} =>
       \A p \in DOMAIN a.left : MetaKey(p) \in K => MetaKey(p) \in a2.dirty

\* An answer that nothing overtook.
LEMMA NotOvertaken ==
  ASSUME NEW a
  PROVE  Overtaken(a, a, {})
  BY DEF Overtaken

\* Overtake marks every answer about one of the keys, and changes nothing else.
LEMMA OvertakeFacts ==
  ASSUME ReadersTyped, NEW K, Overtake(K)
  PROVE  /\ ReadersTyped'
         /\ \A r \in Readers : Overtaken(reader[r], reader'[r], K)
<1>1. ASSUME NEW r \in Readers
      PROVE  /\ Wanted(r) \subseteq Keys
             /\ reader[r].pc = "stat" => MetaKey(reader[r].path) \in Wanted(r)
             /\ reader[r].pc = "list" => DirKey(reader[r].path) \in Wanted(r)
             /\ reader[r].pc \in {"list", "entries"} =>
                  \A p \in DOMAIN reader[r].left : MetaKey(p) \in Wanted(r)
  <2> DEFINE a == reader[r]
  <2>0. a \in Answers
    BY DEF ReadersTyped
  <2>1. /\ a.pc \in {"idle", "stat", "list", "entries"}
        /\ a.left \in Lefts
    BY <2>0 DEF Answers
  <2>2. DOMAIN a.left \subseteq Paths
    BY <2>1 DEF Lefts
  <2>3. CASE a.pc = "idle"
    <3>1. Wanted(r) = {}
      BY <2>3 DEF Wanted
    <3> QED
      BY <2>3, <3>1
  <2>4. CASE a.pc = "stat"
    <3>1. Wanted(r) = {MetaKey(a.path)} /\ a.path \in Paths
      BY <2>4 DEF Wanted, MetaKey, ReadersTyped
    <3> QED
      BY <2>4, <3>1, KeysAre
  <2>5. CASE a.pc = "list"
    <3>1. Wanted(r) = DirKeys({a.path}) \cup MetaKeys(DOMAIN a.left) /\ a.path \in DirPaths
      BY <2>5 DEF Wanted, ReadersTyped
    <3>2. DirKey(a.path) \in Wanted(r) /\ \A p \in DOMAIN a.left : MetaKey(p) \in Wanted(r)
      BY <3>1, KeyFacts
    <3>3. Wanted(r) \subseteq Keys
      BY <2>2, <3>1 DEF Keys, MetaKeys, DirKeys
    <3> QED
      BY <2>5, <3>2, <3>3
  <2>6. CASE a.pc = "entries"
    <3>1. Wanted(r) = MetaKeys(DOMAIN a.left)
      BY <2>6 DEF Wanted
    <3>2. \A p \in DOMAIN a.left : MetaKey(p) \in Wanted(r)
      BY <3>1, KeyFacts
    <3>3. Wanted(r) \subseteq Keys
      BY <2>2, <3>1 DEF Keys, MetaKeys
    <3> QED
      BY <2>6, <3>2, <3>3
  <2> QED
    BY <2>1, <2>3, <2>4, <2>5, <2>6
<1>2. ASSUME NEW r \in Readers
      PROVE  /\ reader'[r] = [reader[r] EXCEPT !.dirty = @ \cup (K \cap Wanted(r))]
             /\ reader[r] \in Answers
  BY DEF Overtake, ReadersTyped
<1>3. ASSUME NEW r \in Readers
      PROVE  /\ reader'[r] \in Answers
             /\ reader'[r].pc = reader[r].pc /\ reader'[r].path = reader[r].path
             /\ reader'[r].stat = reader[r].stat /\ reader'[r].list = reader[r].list
             /\ reader'[r].left = reader[r].left
             /\ reader'[r].dirty = reader[r].dirty \cup (K \cap Wanted(r))
  <2> DEFINE D == K \cap Wanted(r)
  <2>1. D \subseteq Keys
    BY <1>1
  <2> HIDE DEF D
  <2>2. ASSUME NEW a \in Answers
        PROVE  [a EXCEPT !.dirty = @ \cup D] \in Answers
    BY <2>1 DEF Answers
  <2>3. reader'[r] \in Answers
    BY <1>2, <2>2 DEF D
  <2>4. ASSUME NEW a \in Answers
        PROVE  LET a2 == [a EXCEPT !.dirty = @ \cup D]
               IN /\ a2.pc = a.pc /\ a2.path = a.path /\ a2.stat = a.stat /\ a2.list = a.list
                  /\ a2.left = a.left /\ a2.dirty = a.dirty \cup D
    BY DEF Answers
  <2> QED
    BY <1>2, <2>3, <2>4 DEF D
<1>4. ReadersTyped'
  <2>1. reader' = [r \in Readers |-> reader'[r]]
    BY DEF Overtake
  <2>2. reader' \in [Readers -> Answers]
    BY <1>3, <2>1
  <2> QED
    BY <1>3, <2>2 DEF ReadersTyped
<1>5. ASSUME NEW r \in Readers
      PROVE  Overtaken(reader[r], reader'[r], K)
  BY <1>1, <1>3 DEF Overtaken
<1> QED
  BY <1>4, <1>5

\* The answers stay good: what was right is right or marked.
LEMMA AnswersKept ==
  ASSUME NEW b, NEW c, NEW K, NEW r \in Readers, ReadersTyped,
         Overtaken(reader[r], reader'[r], K),
         \A p \in Paths : \A e : MetaRight(b, p, e) => MetaRight(c, p, e)' \/ MetaKey(p) \in K,
         \A d \in DirPaths : \A l : DirRight(b, d, l) => DirRight(c, d, l)' \/ DirKey(d) \in K,
         StatGood(b, reader[r]), ListGood(b, reader[r]), LeftGood(b, reader[r])
  PROVE  (StatGood(c, reader[r]) /\ ListGood(c, reader[r]) /\ LeftGood(c, reader[r]))'
<1>1. /\ reader[r].pc = "stat" => reader[r].path \in Paths
      /\ reader[r].pc = "list" => reader[r].path \in DirPaths
  BY DEF ReadersTyped
<1>2. DOMAIN reader[r].left \subseteq Paths
  <2>1. reader[r].left \in Lefts
    BY DEF ReadersTyped, Answers
  <2> QED
    BY <2>1 DEF Lefts
<1>3. StatGood(c, reader[r])'
  BY <1>1 DEF StatGood, Overtaken
<1>4. ListGood(c, reader[r])'
  BY <1>1 DEF ListGood, Overtaken
<1>5. LeftGood(c, reader[r])'
  BY <1>2 DEF LeftGood, Overtaken
<1> QED
  BY <1>3, <1>4, <1>5
-----------------------------------------------------------------------------
(* The types are kept. *)

\* What a step leaves alone keeps its type.
LEMMA UnchangedTyped ==
  /\ CachesTyped /\ UNCHANGED <<metas, dirs, tainted>> => CachesTyped'
  /\ ServerTyped /\ UNCHANGED <<server, clock, pending>> => ServerTyped'
  /\ FeedTyped /\ UNCHANGED feed => FeedTyped'
  /\ MainTyped /\ UNCHANGED main => MainTyped'
  /\ ReadersTyped /\ UNCHANGED reader => ReadersTyped'
<1>1. CachesTyped /\ UNCHANGED <<metas, dirs, tainted>> => CachesTyped'
  BY DEF CachesTyped, AreListings
<1>2. ServerTyped /\ UNCHANGED <<server, clock, pending>> => ServerTyped'
  BY DEF ServerTyped, IsTree
<1>3. FeedTyped /\ UNCHANGED feed => FeedTyped'
  BY DEF FeedTyped
<1>4. MainTyped /\ UNCHANGED main => MainTyped'
  BY DEF MainTyped, OpKeys
<1>5. ReadersTyped /\ UNCHANGED reader => ReadersTyped'
  BY DEF ReadersTyped
<1> QED
  BY <1>1, <1>2, <1>3, <1>4, <1>5

\* Versions stay within their bound.
LEMMA TickFacts ==
  ASSUME ServerTyped, Tick
  PROVE  clock' \in 1..MaxVersion
  BY TreesAssumption DEF ServerTyped, Tick

\* A tree on the server, and the writes, make the server's part of the types.
LEMMA ServerTypedFrom ==
  ASSUME ServerTyped, IsTree(server'), clock' \in 1..MaxVersion, UNCHANGED pending
  PROVE  ServerTyped'
  BY DEF ServerTyped, IsTree

\* Above an entry of a directory there are directories only.
LEMMA ParentDirs ==
  ASSUME IsTree(server), NEW p \in Paths, Front(p) \in DirsOf(server)
  PROVE  \A q \in Ancestors(p) : server[q].dir
<1> SUFFICES ASSUME NEW q \in Ancestors(p), q # Front(p) PROVE server[q].dir
  <2>1. ASSUME NEW q \in Ancestors(p), q = Front(p) PROVE server[q].dir
    <3>1. q \in Paths
      BY AncestorFacts
    <3>2. q # Root
      BY <3>1, PathsAssumption
    <3> QED
      BY <2>1, <3>1, <3>2 DEF DirsOf
  <2> QED
    BY <2>1
<1>1. Front(p) \in Paths /\ q \in Ancestors(Front(p))
  BY AncestorFacts
<1>2. server[Front(p)].dir
  BY <1>1, PathsAssumption DEF DirsOf
<1>3. server[Front(p)] # None
  BY <1>2, EntryFacts
<1> QED
  BY <1>1, <1>3 DEF IsTree

\* A new entry in a directory.
LEMMA PlantTree ==
  ASSUME IsTree(server), NEW p \in Paths, server[p] = None, Front(p) \in DirsOf(server),
         NEW e \in Entries
  PROVE  /\ IsTree([server EXCEPT ![p] = e])
         /\ Only(server, [server EXCEPT ![p] = e], TreeKeys(p))
<1> DEFINE u == [server EXCEPT ![p] = e]
<1>0. server \in [Paths -> Entries]
  BY DEF IsTree
<1>1. u \in [Paths -> Entries] /\ u[p] = e /\ \A q \in Paths : q # p => u[q] = server[q]
  BY <1>0
<1> HIDE DEF u
<1>2. ASSUME NEW q \in Paths, u[q] # None, NEW r \in Ancestors(q)
      PROVE  u[r].dir
  <2>1. r \in Paths
    BY AncestorFacts
  <2>2. CASE q = p
    <3>1. server[r].dir
      BY <2>2, ParentDirs
    <3>2. r # p
      BY <2>1, <2>2, AncestorFacts
    <3> QED
      BY <1>1, <2>1, <3>1, <3>2
  <2>3. CASE q # p
    <3>1. server[q] # None
      BY <1>1, <1>2, <2>3
    <3>2. server[r].dir
      BY <3>1 DEF IsTree
    <3>3. r # p
      BY <3>2, EntryFacts
    <3> QED
      BY <1>1, <2>1, <3>2, <3>3
  <2> QED
    BY <2>2, <2>3
<1>3. IsTree(u)
  BY <1>1, <1>2 DEF IsTree
<1>4. Only(server, u, TreeKeys(p))
  <2>1. \A q \in Paths : q \notin Under(p) => server[q] = u[q]
    BY <1>1, UnderFacts
  <2> QED
    BY <1>0, <1>1, <2>1, OnlyUnder
<1> QED
  BY <1>3, <1>4 DEF u

\* What others do to the tree, the events they send, and what these cover.
LEMMA RemoteTyped ==
  ASSUME ServerTyped, FeedTyped, RemoteStep
  PROVE  /\ ServerTyped' /\ FeedTyped'
         /\ \E K : /\ Only(server, server', K) /\ IsTree(server')
                   /\ \A key \in K : Covered(key)'
         /\ \A key : Covered(key) => Covered(key)'
         /\ UNCHANGED <<metas, dirs, tainted, pending, main, reader>>
<1> DEFINE Events == [kind : {"changed", "replaced", "reset"}, path : Paths \cup {Root}]
<1>0. IsTree(server) /\ feed \in Seq(Events)
  BY DEF ServerTyped, FeedTyped
<1>1. ASSUME NEW K, IsTree(server'), Only(server, server', K), clock' \in 1..MaxVersion,
             UNCHANGED <<metas, dirs, tainted, pending, main, reader>>,
             NEW s \in Seq(Events), feed' = feed \o s,
             \A i \in 1..Len(s) : s[i].kind # "reset" /\ s[i].path \in Paths,
             \A key \in K : \E i \in 1..Len(s) : key \in EventKeys(s[i])
      PROVE  /\ ServerTyped' /\ FeedTyped'
             /\ \E L : /\ Only(server, server', L) /\ IsTree(server')
                       /\ \A key \in L : Covered(key)'
             /\ \A key : Covered(key) => Covered(key)'
             /\ UNCHANGED <<metas, dirs, tainted, pending, main, reader>>
  <2>1. ServerTyped'
    BY <1>1, ServerTypedFrom
  <2>2. /\ feed' \in Seq(Events) /\ Len(feed') = Len(feed) + Len(s)
        /\ \A i \in 1..Len(feed) : feed'[i] = feed[i]
        /\ \A i \in 1..Len(s) : feed'[Len(feed) + i] = s[i]
    BY <1>0, <1>1
  <2>3. Len(feed) \in Nat /\ Len(s) \in Nat
    BY <1>0, <1>1
  <2>4. ASSUME NEW i \in 1..Len(feed'), feed'[i].kind # "reset"
        PROVE  feed'[i].path \in Paths
    <3>1. CASE i \in 1..Len(feed)
      BY <2>2, <2>4, <3>1 DEF FeedTyped
    <3>2. CASE i \notin 1..Len(feed)
      <4>1. i - Len(feed) \in 1..Len(s) /\ i = Len(feed) + (i - Len(feed))
        BY <2>2, <2>3, <2>4, <3>2
      <4> QED
        BY <1>1, <2>2, <4>1
    <3> QED
      BY <3>1, <3>2
  <2>5. FeedTyped'
    BY <2>2, <2>4 DEF FeedTyped
  <2>6. ASSUME NEW key, Covered(key) PROVE Covered(key)'
    <3>1. PICK i \in 1..Len(feed) : key \in EventKeys(feed[i])
      BY <2>6 DEF Covered
    <3>2. i \in 1..Len(feed') /\ feed'[i] = feed[i]
      BY <2>2, <2>3
    <3> QED
      BY <3>1, <3>2 DEF Covered
  <2>7. ASSUME NEW key \in K PROVE Covered(key)'
    <3>1. PICK i \in 1..Len(s) : key \in EventKeys(s[i])
      BY <1>1
    <3>2. Len(feed) + i \in 1..Len(feed')
      BY <2>2, <2>3
    <3>3. key \in EventKeys(feed'[Len(feed) + i])
      BY <2>2, <3>1
    <3> QED
      BY <3>2, <3>3 DEF Covered
  <2> QED
    BY <1>1, <2>1, <2>5, <2>6, <2>7
<1>2. ASSUME NEW kind \in {"changed", "replaced"}, NEW p \in Paths
      PROVE  /\ Event(kind, p) \in Events /\ Event(kind, p).kind # "reset" /\ Event(kind, p).path = p
             /\ kind = "replaced" => EventKeys(Event(kind, p)) = TreeKeys(p)
             /\ kind = "changed" => MetaKey(p) \in EventKeys(Event(kind, p))
  <2>1. /\ Event(kind, p) \in Events /\ Event(kind, p).kind = kind /\ Event(kind, p).path = p
    BY DEF Event
  <2> QED
    BY <2>1, EventKeyFacts
<1>3. ASSUME NEW kind \in {"changed", "replaced"}, NEW p \in Paths, NEW K,
             kind = "replaced" => K = TreeKeys(p), kind = "changed" => K = {MetaKey(p)},
             Tick, IsTree(server'), Only(server, server', K), feed' = Append(feed, Event(kind, p)),
             UNCHANGED <<caches, pending, main, reader, tainted>>
      PROVE  /\ ServerTyped' /\ FeedTyped'
             /\ \E L : /\ Only(server, server', L) /\ IsTree(server')
                       /\ \A key \in L : Covered(key)'
             /\ \A key : Covered(key) => Covered(key)'
             /\ UNCHANGED <<metas, dirs, tainted, pending, main, reader>>
  <2> DEFINE s == <<Event(kind, p)>>
  <2>1. Event(kind, p) \in Events
    BY <1>2
  <2>2. s \in Seq(Events) /\ Len(s) = 1 /\ s[1] = Event(kind, p)
    BY <2>1
  <2>3. feed' = feed \o s
    BY <1>0, <1>3, <2>1
  <2> HIDE DEF s, Events
  <2>4. \A i \in 1..Len(s) : s[i].kind # "reset" /\ s[i].path \in Paths
    BY <1>2, <2>2
  <2>5. \A key \in K : \E i \in 1..Len(s) : key \in EventKeys(s[i])
    BY <1>2, <1>3, <2>2
  <2>6. clock' \in 1..MaxVersion
    BY <1>3, TickFacts
  <2>7. UNCHANGED <<metas, dirs, tainted, pending, main, reader>>
    BY <1>3 DEF caches
  <2> QED
    BY <1>1, <1>3, <2>2, <2>3, <2>4, <2>5, <2>6, <2>7
<1>4. ASSUME NEW p \in Paths, RemoteChange(p)
      PROVE  IsTree(server') /\ Only(server, server', {MetaKey(p)})
  <2>1. clock' \in 1..MaxVersion
    BY <1>4, TickFacts DEF RemoteChange
  <2> QED
    BY <1>0, <1>4, <2>1, TouchTree DEF RemoteChange
<1>5. ASSUME NEW p \in Paths, RemoteCreate(p)
      PROVE  IsTree(server') /\ Only(server, server', TreeKeys(p))
  <2>1. clock' \in 1..MaxVersion
    BY <1>5, TickFacts DEF RemoteCreate
  <2>2. PICK e : (e = File(clock') \/ e = Dir(clock')) /\ server' = [server EXCEPT ![p] = e]
    BY <1>5 DEF RemoteCreate
  <2>3. e \in Entries
    BY <2>1, <2>2, EntryFacts
  <2> QED
    BY <1>0, <1>5, <2>2, <2>3, PlantTree DEF RemoteCreate
<1>6. ASSUME NEW p \in Paths, RemoteRemove(p)
      PROVE  IsTree(server') /\ Only(server, server', TreeKeys(p))
  BY <1>0, <1>6, CutTree DEF RemoteRemove
<1>7. CASE \E p \in Paths : RemoteChange(p) \/ RemoteCreate(p) \/ RemoteRemove(p)
  <2>1. PICK p \in Paths : RemoteChange(p) \/ RemoteCreate(p) \/ RemoteRemove(p)
    BY <1>7
  <2>2. CASE RemoteChange(p)
    BY <1>3, <1>4, <2>2 DEF RemoteChange
  <2>3. CASE RemoteCreate(p)
    BY <1>3, <1>5, <2>3 DEF RemoteCreate
  <2>4. CASE RemoteRemove(p)
    BY <1>3, <1>6, <2>4 DEF RemoteRemove
  <2> QED
    BY <2>1, <2>2, <2>3, <2>4
<1>8. CASE \E p, q \in Paths : RemoteRename(p, q)
  <2>1. PICK p \in Paths, q \in Paths : RemoteRename(p, q)
    BY <1>8
  <2>2. \A r \in Ancestors(q) : server[r].dir
    BY <1>0, <2>1, ParentDirs DEF RemoteRename
  <2>3. IsTree(server') /\ Only(server, server', TreeKeys(p) \cup TreeKeys(q))
    BY <1>0, <2>1, <2>2, MoveTreeTree DEF RemoteRename
  <2> DEFINE K == TreeKeys(p) \cup TreeKeys(q)
             s == <<Event("replaced", p), Event("replaced", q)>>
  <2>4. Event("replaced", p) \in Events /\ Event("replaced", q) \in Events
    BY <1>2
  <2>5. s \in Seq(Events) /\ Len(s) = 2 /\ s[1] = Event("replaced", p) /\ s[2] = Event("replaced", q)
    BY <2>4
  <2>6. feed' = feed \o s
    BY <2>1 DEF RemoteRename
  <2>7. Only(server, server', K)
    BY <2>3
  <2> HIDE DEF s, Events
  <2>8. \A i \in 1..Len(s) : s[i].kind # "reset" /\ s[i].path \in Paths
    <3>1. 1..2 = {1, 2}
      OBVIOUS
    <3> QED
      BY <1>2, <2>5, <3>1
  <2>9. \A key \in K : \E i \in 1..Len(s) : key \in EventKeys(s[i])
    <3>1. 1 \in 1..Len(s) /\ 2 \in 1..Len(s)
      BY <2>5
    <3> QED
      BY <1>2, <2>5, <3>1
  <2> HIDE DEF K
  <2>10. clock' \in 1..MaxVersion
    BY <2>1, TickFacts DEF RemoteRename
  <2>11. UNCHANGED <<metas, dirs, tainted, pending, main, reader>>
    BY <2>1 DEF RemoteRename, caches
  <2> QED
    BY <1>1, <2>3, <2>5, <2>6, <2>7, <2>8, <2>9, <2>10, <2>11
<1> QED
  BY <1>7, <1>8 DEF RemoteStep

\* The reset that stands for lost events covers everything.
LEMMA LoseTyped ==
  ASSUME LoseEvents
  PROVE  FeedTyped' /\ \A key \in Keys : Covered(key)'
<1> DEFINE e == Event("reset", Root)
<1>1. e.kind = "reset" /\ e \in [kind : {"changed", "replaced", "reset"}, path : Paths \cup {Root}]
  BY DEF Event
<1>2. feed' = <<e>>
  BY DEF LoseEvents
<1> HIDE DEF e
<1>3. Len(feed') = 1 /\ feed'[1] = e
  BY <1>2
<1>4. FeedTyped'
  BY <1>1, <1>2, <1>3 DEF FeedTyped
<1>5. EventKeys(e) = Keys
  BY <1>1, EventKeyFacts
<1> QED
  BY <1>3, <1>4, <1>5 DEF Covered

\* The first event is taken off the feed.
LEMMA TailFacts ==
  ASSUME FeedTyped, feed # <<>>, feed' = Tail(feed)
  PROVE  /\ FeedTyped'
         /\ Head(feed).kind \in {"changed", "replaced", "reset"}
         /\ Head(feed).kind # "reset" => Head(feed).path \in Paths
         /\ EventKeys(Head(feed)) \subseteq Keys
         /\ \A key : Covered(key) => Covered(key)' \/ key \in EventKeys(Head(feed))
<1> DEFINE Events == [kind : {"changed", "replaced", "reset"}, path : Paths \cup {Root}]
<1>1. feed \in Seq(Events)
  BY DEF FeedTyped
<1>2. /\ Head(feed) = feed[1] /\ feed[1] \in Events /\ Len(feed) \in Nat /\ Len(feed) >= 1
      /\ feed' \in Seq(Events) /\ Len(feed') = Len(feed) - 1
      /\ \A i \in 1..Len(feed') : feed'[i] = feed[i + 1]
  <2> HIDE DEF Events
  <2>1. Len(feed) \in Nat /\ Len(feed) >= 1 /\ Head(feed) = feed[1]
    BY <1>1
  <2>2. feed[1] \in Events
    BY <1>1, <2>1
  <2>3. feed' \in Seq(Events) /\ Len(feed') = Len(feed) - 1
    BY <1>1
  <2>4. \A i \in 1..Len(feed') : feed'[i] = feed[i + 1]
    BY <1>1, <2>1
  <2> QED
    BY <2>1, <2>2, <2>3, <2>4
<1>3. feed[1].kind # "reset" => feed[1].path \in Paths
  BY <1>2 DEF FeedTyped
<1>4. FeedTyped'
  <2>1. ASSUME NEW i \in 1..Len(feed'), feed'[i].kind # "reset" PROVE feed'[i].path \in Paths
    <3>1. i + 1 \in 1..Len(feed) /\ feed'[i] = feed[i + 1]
      BY <1>2
    <3> QED
      BY <2>1, <3>1 DEF FeedTyped
  <2> QED
    BY <1>2, <2>1 DEF FeedTyped
<1>5. ASSUME NEW key, Covered(key), key \notin EventKeys(Head(feed)) PROVE Covered(key)'
  <2>1. PICK i \in 1..Len(feed) : key \in EventKeys(feed[i])
    BY <1>5 DEF Covered
  <2>2. i # 1
    BY <1>2, <1>5, <2>1
  <2>3. i - 1 \in 1..Len(feed') /\ feed'[i - 1] = feed[i]
    BY <1>2, <2>2
  <2> QED
    BY <2>1, <2>3 DEF Covered
<1>6. feed[1].kind \in {"changed", "replaced", "reset"}
  BY <1>2
<1>7. EventKeys(feed[1]) \subseteq Keys
  BY <1>3, <1>6, EventKeyFacts
<1> QED
  BY <1>2, <1>3, <1>4, <1>5, <1>6, <1>7

\* main, but for what it was overtaken on.
SameMutation ==
  /\ main'.pc = main.pc /\ main'.op = main.op /\ main'.path = main.path /\ main'.to = main.to
  /\ main'.old = main.old /\ main'.new = main.new /\ main'.keys = main.keys

\* The mutation under way and the answers, when the keys K are invalidated.
LEMMA OvertakeAllFacts ==
  ASSUME MainTyped, ReadersTyped, NEW K, OvertakeAll(K)
  PROVE  /\ MainTyped' /\ ReadersTyped'
         /\ \A r \in Readers : Overtaken(reader[r], reader'[r], K)
         /\ SameMutation
         /\ main.dirty \subseteq main'.dirty
         /\ Working => \A key \in K : key \in main.keys => key \in main'.dirty
<1>1. ReadersTyped' /\ \A r \in Readers : Overtaken(reader[r], reader'[r], K)
  BY OvertakeFacts DEF OvertakeAll
<1>2. main \in Mutations
  BY DEF MainTyped
<1>3. CASE ~Working
  <2>1. main' = main
    BY <1>3 DEF OvertakeAll, Working
  <2>2. SameMutation /\ main.dirty \subseteq main'.dirty
    BY <2>1 DEF SameMutation
  <2> QED
    BY <1>1, <1>3, <2>1, <2>2, UnchangedTyped
<1>4. CASE Working
  <2>1. main' = [main EXCEPT !.dirty = @ \cup (K \cap main.keys)]
    BY <1>4 DEF OvertakeAll, Working
  <2>2. main.keys \subseteq Keys
    BY <1>2 DEF Mutations
  <2>3. main' \in Mutations
    BY <1>2, <2>1, <2>2 DEF Mutations
  <2>4. SameMutation /\ main'.dirty = main.dirty \cup (K \cap main.keys)
    BY <1>2, <2>1 DEF Mutations, SameMutation
  <2>5. OpKeys(main)' = OpKeys(main)
    BY <2>4 DEF SameMutation, OpKeys
  <2>6. MainTyped'
    BY <2>3, <2>4, <2>5 DEF MainTyped, SameMutation
  <2> QED
    BY <1>1, <2>4, <2>6
<1> QED
  BY <1>3, <1>4

\* A mutation begins.
LEMMA BeginFacts ==
  ASSUME NEW op \in Ops, NEW p \in Paths, NEW to \in Paths \cup {Root},
         NEW pc \in {"check", "drop", "server"}, Begin(op, p, to, pc),
         op = "mkdir" => p \in DirPaths,
         op = "rename" => to \in Paths /\ Apart(p, to),
         op # "rename" => to = Root
  PROVE  /\ MainTyped'
         /\ main.pc = "idle" /\ main'.pc = pc /\ main'.op = op /\ main'.path = p /\ main'.to = to
         /\ UNCHANGED <<server, clock, metas, dirs, pending, feed, reader, tainted>>
<1>1. main' = [Idle EXCEPT !.pc = pc, !.op = op, !.path = p, !.to = to]
  BY DEF Begin
<1>2. None \in Entries
  BY EntryFacts
<1>3. main' = [pc |-> pc, op |-> op, path |-> p, to |-> to, old |-> None, new |-> None,
               keys |-> {}, dirty |-> {}]
  BY <1>1 DEF Idle
<1>4. main' \in Mutations
  BY <1>2, <1>3 DEF Mutations
<1>5. main'.pc = pc /\ main'.op = op /\ main'.path = p /\ main'.to = to
  BY <1>3
<1>6. MainTyped'
  BY <1>4, <1>5 DEF MainTyped
<1> QED
  BY <1>5, <1>6 DEF Begin, caches

\* No mutation.
LEMMA IdleFacts ==
  ASSUME main' = Idle
  PROVE  MainTyped' /\ main'.pc = "idle"
<1>1. main'.pc = "idle"
  BY DEF Idle
<1>2. main' \in Mutations
  BY EntryFacts DEF Idle, Mutations, Root
<1> QED
  BY <1>1, <1>2 DEF MainTyped

\* The mutation goes on: another pc, and perhaps other results.
LEMMA MainGoesOn ==
  ASSUME MainTyped, main.pc # "idle", main' \in Mutations, main'.pc # "idle",
         main'.op = main.op, main'.path = main.path, main'.to = main.to,
         main'.pc = "dirs" => main.op \notin {"chmod", "truncate"},
         main'.pc \in {"metas", "dirs"} => main'.keys = OpKeys(main)
  PROVE  MainTyped'
<1>1. OpKeys(main)' = OpKeys(main)
  BY DEF OpKeys
<1> QED
  BY <1>1 DEF MainTyped

\* The feed thread keeps the types.
LEMMA FeedStepTyped ==
  ASSUME Typed, LoseEvents \/ ApplyChange \/ InvalidateAll
  PROVE  Typed'
<1>0. CachesTyped /\ ServerTyped /\ FeedTyped /\ MainTyped /\ ReadersTyped
  BY DEF Typed
<1>1. CASE LoseEvents
  <2>1. UNCHANGED <<metas, dirs, tainted>> /\ UNCHANGED <<server, clock, pending>>
        /\ UNCHANGED main /\ UNCHANGED reader
    BY <1>1 DEF LoseEvents, caches
  <2> QED
    BY <1>0, <1>1, <2>1, LoseTyped, UnchangedTyped DEF Typed
<1>2. CASE ApplyChange
  <2> DEFINE K == EventKeys(Head(feed))
  <2>1. /\ metas' = metas \/ metas' = DropMetas(K)
        /\ dirs' = dirs \/ dirs' = DropDirs(K)
        /\ tainted' = tainted \cup K \/ tainted' = tainted \ K
        /\ OvertakeAll(K) /\ feed # <<>> /\ feed' = Tail(feed)
        /\ UNCHANGED <<server, clock, pending>>
    BY <1>2 DEF ApplyChange, caches
  <2>2. FeedTyped' /\ K \subseteq Keys
    BY <1>0, <2>1, TailFacts
  <2> HIDE DEF K
  <2>3. MainTyped' /\ ReadersTyped'
    BY <1>0, <2>1, OvertakeAllFacts
  <2>4. metas' \in [Paths -> Entries]
    BY <1>0, <2>1, DropFacts DEF CachesTyped
  <2>5. AreListings(dirs)'
    BY <1>0, <2>1, DropFacts DEF CachesTyped, AreListings
  <2>6. tainted' \subseteq Keys
    BY <1>0, <2>1, <2>2 DEF CachesTyped
  <2>7. CachesTyped'
    BY <2>4, <2>5, <2>6 DEF CachesTyped
  <2> QED
    BY <1>0, <2>1, <2>2, <2>3, <2>7, UnchangedTyped DEF Typed
<1>3. CASE InvalidateAll
  <2>1. PICK kept \in SUBSET {p \in Paths : pending[p] # None} :
          metas' = DropMetas(Keys \ MetaKeys(kept)) /\ tainted' = MetaKeys(kept)
    BY <1>3 DEF InvalidateAll
  <2>2. /\ dirs' = DropDirs(Keys) /\ OvertakeAll(Keys) /\ feed # <<>> /\ feed' = Tail(feed)
        /\ UNCHANGED <<server, clock, pending>>
    BY <1>3 DEF InvalidateAll
  <2>3. MainTyped' /\ ReadersTyped' /\ FeedTyped'
    BY <1>0, <2>2, OvertakeAllFacts, TailFacts
  <2>4. metas' \in [Paths -> Entries]
    BY <1>0, <2>1, DropFacts
  <2>5. AreListings(dirs)'
    BY <1>0, <2>2, DropFacts DEF AreListings
  <2>6. tainted' \subseteq Keys
    BY <2>1 DEF Keys, MetaKeys
  <2>7. CachesTyped'
    BY <2>4, <2>5, <2>6 DEF CachesTyped
  <2> QED
    BY <1>0, <2>2, <2>3, <2>7, UnchangedTyped DEF Typed
<1> QED
  BY <1>1, <1>2, <1>3

\* One worker's answer changes.
LEMMA AnswerChanged ==
  ASSUME ReadersTyped, NEW r \in Readers, NEW a \in Answers, reader' = [reader EXCEPT ![r] = a],
         a.pc = "stat" => a.path \in Paths,
         a.pc = "list" => a.path \in DirPaths /\ a.list \in [Children(a.path) -> Kinds]
  PROVE  ReadersTyped' /\ reader'[r] = a /\ \A s \in Readers : s # r => reader'[s] = reader[s]
<1>1. reader'[r] = a /\ \A s \in Readers : s # r => reader'[s] = reader[s]
  BY DEF ReadersTyped
<1>2. reader' \in [Readers -> Answers]
  BY DEF ReadersTyped
<1>3. ReadersTyped'
  BY <1>1, <1>2 DEF ReadersTyped
<1> QED
  BY <1>1, <1>3

\* No answer is one.
LEMMA NoAnswerFacts ==
  \E l \in Lefts :
    NoAnswer = [pc |-> "idle", path |-> Root, stat |-> None, list |-> NoListing,
                left |-> l, dirty |-> {}, reads |-> 0]
<1> DEFINE l == [p \in {} |-> None]
<1>1. l \in [{} -> Entries] /\ {} \in SUBSET Paths
  OBVIOUS
<1>2. NoAnswer = [pc |-> "idle", path |-> Root, stat |-> None, list |-> NoListing,
                  left |-> l, dirty |-> {}, reads |-> 0]
  BY DEF NoAnswer
<1> HIDE DEF l
<1>3. l \in Lefts
  BY <1>1 DEF Lefts
<1> QED
  BY <1>2, <1>3

\* A worker that has nothing more to do.
LEMMA FreshFacts ==
  ASSUME ReadersTyped, NEW r \in Readers, reader' = [reader EXCEPT ![r] = Fresh(r)]
  PROVE  ReadersTyped' /\ reader'[r].pc = "idle" /\ \A s \in Readers : s # r => reader'[s] = reader[s]
<1>1. reader[r].reads \in Nat
  BY DEF ReadersTyped, Answers
<1>2. PICK l \in Lefts : NoAnswer = [pc |-> "idle", path |-> Root, stat |-> None, list |-> NoListing,
                                     left |-> l, dirty |-> {}, reads |-> 0]
  BY NoAnswerFacts
<1>3. Fresh(r) = [pc |-> "idle", path |-> Root, stat |-> None, list |-> NoListing,
                  left |-> l, dirty |-> {}, reads |-> reader[r].reads]
  BY <1>2 DEF Fresh
<1>4. NoListing \in Listings
  BY DEF Listings
<1>5. Fresh(r) \in Answers /\ Fresh(r).pc = "idle"
  BY <1>1, <1>2, <1>3, <1>4, EntryFacts DEF Answers
<1> QED
  BY <1>5, AnswerChanged

\* A stat is asked for.
LEMMA StatReadFacts ==
  ASSUME ReadersTyped, ServerTyped, NEW r \in Readers, NEW p \in Paths, StatRead(r, p)
  PROVE  /\ ReadersTyped' /\ \A s \in Readers : s # r => reader'[s] = reader[s]
         /\ reader'[r].pc = "stat" /\ reader'[r].path = p /\ reader'[r].stat = server[p]
         /\ reader'[r].dirty = {}
<1>1. reader[r].reads + 1 \in Nat
  BY DEF ReadersTyped, Answers
<1>2. PICK l \in Lefts : NoAnswer = [pc |-> "idle", path |-> Root, stat |-> None, list |-> NoListing,
                                     left |-> l, dirty |-> {}, reads |-> 0]
  BY NoAnswerFacts
<1> DEFINE a == [pc |-> "stat", path |-> p, stat |-> server[p], list |-> NoListing,
                 left |-> l, dirty |-> {}, reads |-> reader[r].reads + 1]
<1>3. reader' = [reader EXCEPT ![r] = a]
  <2> DEFINE n == [pc |-> "idle", path |-> Root, stat |-> None, list |-> NoListing,
                   left |-> l, dirty |-> {}, reads |-> 0]
  <2>0. PICK m : m = [n EXCEPT !.pc = "stat", !.path = p, !.stat = server[p],
                               !.reads = reader[r].reads + 1]
    OBVIOUS
  <2>1. a = [NoAnswer EXCEPT !.pc = "stat", !.path = p, !.stat = server[p],
                             !.reads = reader[r].reads + 1]
    <3>1. n = NoAnswer
      BY <1>2
    <3>2. m = a
      BY <2>0
    <3> HIDE DEF n, a
    <3> QED
      BY <2>0, <3>1, <3>2
  <2> HIDE DEF a
  <2> QED
    BY <2>1 DEF StatRead
<1>4. NoListing \in Listings /\ server[p] \in Entries
  BY DEF Listings, ServerTyped, IsTree
<1>5. a \in Answers
  BY <1>1, <1>2, <1>4 DEF Answers
<1>6. a.pc = "stat" /\ a.path = p /\ a.stat = server[p] /\ a.dirty = {}
  OBVIOUS
<1> HIDE DEF a
<1> QED
  BY <1>3, <1>5, <1>6, AnswerChanged

\* A listing is asked for.
LEMMA ListReadFacts ==
  ASSUME ReadersTyped, ServerTyped, NEW r \in Readers, NEW d \in DirPaths, ListRead(r, d)
  PROVE  /\ ReadersTyped' /\ \A s \in Readers : s # r => reader'[s] = reader[s]
         /\ reader'[r].pc = "list" /\ reader'[r].path = d /\ Lists(server, d, reader'[r].list)
         /\ reader'[r].dirty = {}
         /\ \A p \in DOMAIN reader'[r].left : reader'[r].left[p] = server[p]
<1>1. reader[r].reads + 1 \in Nat
  BY DEF ReadersTyped, Answers
<1> DEFINE S == {q \in Children(d) : server[q] # None}
           l == [p \in S |-> server[p]]
<1>2. server \in [Paths -> Entries]
  BY DEF ServerTyped, IsTree
<1>3. l \in Lefts
  <2>1. S \in SUBSET Paths
    BY DEF Children
  <2>2. l \in [S -> Entries]
    BY <1>2, <2>1
  <2> QED
    BY <2>1, <2>2 DEF Lefts
<1> DEFINE a == [pc |-> "list", path |-> d, stat |-> None, list |-> Listing(server, d),
                 left |-> l, dirty |-> {}, reads |-> reader[r].reads + 1]
<1>4. d \in DirsOf(server) /\ \A p \in DOMAIN l : l[p] = server[p]
  BY DEF ListRead
<1>5. reader' = [reader EXCEPT ![r] = a]
  <2>1. reader' = [reader EXCEPT ![r] =
                     [NoAnswer EXCEPT !.pc = "list", !.path = d, !.list = Listing(server, d),
                                      !.reads = reader[r].reads + 1, !.left = l]]
    BY DEF ListRead
  <2>2. PICK l0 \in Lefts :
          NoAnswer = [pc |-> "idle", path |-> Root, stat |-> None, list |-> NoListing,
                      left |-> l0, dirty |-> {}, reads |-> 0]
    BY NoAnswerFacts
  <2> HIDE DEF l
  <2> DEFINE n == [pc |-> "idle", path |-> Root, stat |-> None, list |-> NoListing,
                   left |-> l0, dirty |-> {}, reads |-> 0]
  <2>3. PICK m : m = [n EXCEPT !.pc = "list", !.path = d, !.list = Listing(server, d),
                               !.reads = reader[r].reads + 1, !.left = l]
    OBVIOUS
  <2>4. n = NoAnswer
    BY <2>2
  <2>5. m = a
    BY <2>3
  <2> HIDE DEF n, a
  <2> QED
    BY <2>1, <2>3, <2>4, <2>5
<1> HIDE DEF l
<1>6. Listing(server, d) \in [Children(d) -> Kinds] /\ Listing(server, d) \in Listings
  BY <1>2, ListingTyped DEF Listings
<1>7. d \in Paths \cup {Root}
  BY DEF DirPaths
<1>8. a \in Answers
  BY <1>1, <1>3, <1>6, <1>7, EntryFacts DEF Answers
<1>9. /\ a.pc = "list" /\ a.path = d /\ a.list = Listing(server, d) /\ a.dirty = {}
      /\ a.left = l
  OBVIOUS
<1> HIDE DEF a
<1>10. ReadersTyped' /\ reader'[r] = a /\ \A s \in Readers : s # r => reader'[s] = reader[s]
  BY <1>5, <1>6, <1>8, <1>9, AnswerChanged
<1> QED
  BY <1>4, <1>9, <1>10 DEF Lists

\* An answer of a stat or a readdir is stored, or dropped because of a pending write.
LEMMA StoreFacts ==
  ASSUME CachesTyped, UNCHANGED dirs, NEW p \in Paths, NEW e \in Entries, NEW dirty,
         StoreUnlessPending(p, e, dirty)
  PROVE  /\ CachesTyped'
         /\ \A q \in Paths : q # p => metas'[q] = metas[q]
         /\ \A key \in tainted : key # MetaKey(p) => key \in tainted'
         /\ \/ metas'[p] = metas[p] /\ tainted' = tainted
            \/ /\ metas'[p] = e
               /\ e = None \/ MetaKey(p) \in tainted' \/ (MetaKey(p) \notin dirty /\ pending[p] = None)
<1>0. metas \in [Paths -> Entries] /\ tainted \subseteq Keys
  BY DEF CachesTyped
<1>1. MetaKey(p) \in Keys
  BY KeysAre
<1>2. CASE UNCHANGED <<metas, tainted>>
  BY <1>2, UnchangedTyped
<1>3. CASE StoreMeta(p, e, dirty)
  <2>1. /\ metas' = [metas EXCEPT ![p] = e]
        /\ tainted' = IF e # None /\ (MetaKey(p) \in dirty \/ pending[p] # None)
                      THEN tainted \cup {MetaKey(p)} ELSE tainted \ {MetaKey(p)}
    BY <1>3 DEF StoreMeta, MetaKey
  <2>2. metas' \in [Paths -> Entries] /\ metas'[p] = e /\ \A q \in Paths : q # p => metas'[q] = metas[q]
    BY <1>0, <2>1
  <2>3. tainted' \subseteq Keys
    BY <1>0, <1>1, <2>1
  <2>4. CachesTyped'
    BY <2>2, <2>3 DEF CachesTyped, AreListings
  <2> QED
    BY <2>1, <2>2, <2>4
<1> QED
  BY <1>2, <1>3 DEF StoreUnlessPending

\* The answer of a stat is stored.
LEMMA StatStoreFacts ==
  ASSUME Typed, NEW r \in Readers, StatStore(r)
  PROVE  /\ CachesTyped' /\ ReadersTyped'
         /\ reader[r].path \in Paths /\ reader[r].stat \in Entries
         /\ reader'[r].pc = "idle" /\ \A s \in Readers : s # r => reader'[s] = reader[s]
  <1>1. reader[r] \in Answers /\ reader[r].path \in Paths
    BY DEF Typed, ReadersTyped, StatStore
  <1>2. reader[r].stat \in Entries
    BY <1>1 DEF Answers
  <1>3. CachesTyped'
    BY <1>1, <1>2, StoreFacts DEF Typed, StatStore
  <1> QED
    BY <1>1, <1>2, <1>3, FreshFacts DEF Typed, StatStore

\* The listing is stored; its entries are left.
LEMMA ListStoreFacts ==
  ASSUME Typed, NEW r \in Readers, ListStore(r)
  PROVE  LET d == reader[r].path
         IN /\ CachesTyped' /\ ReadersTyped' /\ d \in DirPaths
            /\ dirs'[d] = reader[r].list /\ \A c \in DirPaths : c # d => dirs'[c] = dirs[c]
            /\ \A key \in tainted : key # DirKey(d) => key \in tainted'
            /\ DirKey(d) \in reader[r].dirty => DirKey(d) \in tainted'
            /\ reader'[r].pc = "entries" /\ reader'[r].left = reader[r].left
            /\ \A key \in reader[r].dirty : key # DirKey(d) => key \in reader'[r].dirty
            /\ \A s \in Readers : s # r => reader'[s] = reader[s]
<1> DEFINE d == reader[r].path
           key == DirKey(d)
           a == [reader[r] EXCEPT !.pc = "entries", !.list = NoListing, !.dirty = @ \ {key}]
<1>0. CachesTyped /\ ReadersTyped /\ reader[r] \in Answers
  BY DEF Typed, ReadersTyped
<1>1. d \in DirPaths /\ reader[r].list \in [Children(d) -> Kinds]
  BY <1>0 DEF ReadersTyped, ListStore
<1>2. /\ dirs' = [dirs EXCEPT ![d] = reader[r].list] /\ UNCHANGED metas
      /\ tainted' = IF key \in reader[r].dirty THEN tainted \cup {key} ELSE tainted \ {key}
  BY DEF ListStore, DirKey
<1>3. reader' = [reader EXCEPT ![r].pc = "entries", ![r].list = NoListing, ![r].dirty = @ \ {key}]
  BY DEF ListStore, DirKey
<1>4. key \in Keys
  BY <1>1, KeysAre
<1> HIDE DEF key
<1>5. reader' = [reader EXCEPT ![r] = a]
  BY <1>0, <1>3 DEF ReadersTyped
<1>6. /\ a \in Answers /\ a.pc = "entries" /\ a.left = reader[r].left
      /\ a.dirty = reader[r].dirty \ {key}
  BY <1>0 DEF Answers, Listings
<1> HIDE DEF a
<1>7. ReadersTyped' /\ reader'[r] = a /\ \A s \in Readers : s # r => reader'[s] = reader[s]
  BY <1>0, <1>5, <1>6, AnswerChanged
<1> HIDE DEF d
<1>8. /\ DOMAIN dirs' = DirPaths /\ dirs'[d] = reader[r].list
      /\ \A c \in DirPaths : c # d => dirs'[c] = dirs[c]
  BY <1>0, <1>1, <1>2 DEF CachesTyped, AreListings
<1>9. CachesTyped'
  <2>1. AreListings(dirs)'
    BY <1>0, <1>1, <1>8 DEF CachesTyped, AreListings
  <2>2. tainted' \subseteq Keys
    BY <1>0, <1>2, <1>4 DEF CachesTyped
  <2> QED
    BY <1>0, <1>2, <2>1, <2>2 DEF CachesTyped
<1> QED
  BY <1>1, <1>2, <1>6, <1>7, <1>8, <1>9 DEF d, key

\* One entry of the listing is stored.
LEMMA ListEntryFacts ==
  ASSUME Typed, NEW r \in Readers, ListEntry(r)
  PROVE  \E p \in DOMAIN reader[r].left :
           /\ CachesTyped' /\ ReadersTyped' /\ p \in Paths /\ reader[r].left[p] \in Entries
           /\ StoreUnlessPending(p, reader[r].left[p], reader[r].dirty)
           /\ reader'[r].pc = "entries" /\ DOMAIN reader'[r].left = DOMAIN reader[r].left \ {p}
           /\ \A q \in DOMAIN reader'[r].left : reader'[r].left[q] = reader[r].left[q]
           /\ \A key \in reader[r].dirty : key # MetaKey(p) => key \in reader'[r].dirty
           /\ \A s \in Readers : s # r => reader'[s] = reader[s]
<1>0. CachesTyped /\ ReadersTyped /\ reader[r] \in Answers
  BY DEF Typed, ReadersTyped
<1>1. PICK p \in DOMAIN reader[r].left :
        /\ StoreUnlessPending(p, reader[r].left[p], reader[r].dirty)
        /\ reader' = [reader EXCEPT ![r].left = [q \in DOMAIN @ \ {p} |-> @[q]],
                                    ![r].dirty = @ \ {<<"meta", p>>}]
  BY DEF ListEntry
<1>2. reader[r].left \in Lefts
  BY <1>0 DEF Answers
<1>3. DOMAIN reader[r].left \subseteq Paths /\ \A q \in DOMAIN reader[r].left : reader[r].left[q] \in Entries
  BY <1>2 DEF Lefts
<1> DEFINE S == DOMAIN reader[r].left \ {p}
           l == [q \in S |-> reader[r].left[q]]
           key == <<"meta", p>>
           a == [reader[r] EXCEPT !.left = l, !.dirty = @ \ {key}]
<1>4. l \in Lefts
  <2>1. S \in SUBSET Paths /\ l \in [S -> Entries]
    BY <1>3
  <2> QED
    BY <2>1 DEF Lefts
<1>5. DOMAIN l = S /\ \A q \in S : l[q] = reader[r].left[q]
  OBVIOUS
<1>6. reader' = [reader EXCEPT ![r].left = l, ![r].dirty = @ \ {key}]
  BY <1>0, <1>1 DEF ReadersTyped
<1> HIDE DEF l, key
<1>7. reader' = [reader EXCEPT ![r] = a]
  BY <1>0, <1>6 DEF ReadersTyped
<1>8. /\ a \in Answers /\ a.pc = reader[r].pc /\ a.left = l
      /\ a.dirty = reader[r].dirty \ {key}
  BY <1>0, <1>4 DEF Answers
<1> HIDE DEF a
<1>9. reader[r].pc = "entries"
  BY DEF ListEntry
<1>10. ReadersTyped' /\ reader'[r] = a /\ \A s \in Readers : s # r => reader'[s] = reader[s]
  BY <1>0, <1>7, <1>8, <1>9, AnswerChanged
<1>11. CachesTyped'
  BY <1>0, <1>1, <1>3, StoreFacts DEF ListEntry
<1> QED
  BY <1>1, <1>3, <1>5, <1>8, <1>9, <1>10, <1>11 DEF key, MetaKey

\* The workers keep the types.
LEMMA ReaderStepTyped ==
  ASSUME Typed, NEW r \in Readers, ReaderStep(r)
  PROVE  Typed'
<1>0. CachesTyped /\ ServerTyped /\ FeedTyped /\ MainTyped /\ ReadersTyped
  BY DEF Typed
<1>1. ServerTyped' /\ FeedTyped' /\ MainTyped'
  <2>1. UNCHANGED <<server, clock, pending>> /\ UNCHANGED feed /\ UNCHANGED main
    BY DEF ReaderStep, StatRead, StatStore, ListRead, ListStore, ListEntry, ListDone
  <2> QED
    BY <1>0, <2>1, UnchangedTyped
<1>2. ASSUME NEW p \in Paths, StatRead(r, p) PROVE CachesTyped' /\ ReadersTyped'
  <2>1. UNCHANGED <<metas, dirs, tainted>>
    BY <1>2 DEF StatRead, caches
  <2> QED
    BY <1>0, <1>2, <2>1, UnchangedTyped, StatReadFacts
<1>3. ASSUME NEW d \in DirPaths, ListRead(r, d) PROVE CachesTyped' /\ ReadersTyped'
  <2>1. UNCHANGED <<metas, dirs, tainted>>
    BY <1>3 DEF ListRead, caches
  <2> QED
    BY <1>0, <1>3, <2>1, UnchangedTyped, ListReadFacts
<1>4. CASE ListDone(r)
  <2>1. UNCHANGED <<metas, dirs, tainted>>
    BY <1>4 DEF ListDone, caches
  <2>2. ReadersTyped'
    BY <1>0, <1>4, FreshFacts DEF ListDone
  <2> QED
    BY <1>0, <1>1, <2>1, <2>2, UnchangedTyped DEF Typed
<1> QED
  BY <1>1, <1>2, <1>3, <1>4, StatStoreFacts, ListStoreFacts, ListEntryFacts DEF ReaderStep, Typed

\* A local write keeps the types.
LEMMA LocalWriteTyped ==
  ASSUME Typed, NEW p \in Paths, LocalWrite(p)
  PROVE  Typed' /\ clock' \in 1..MaxVersion
<1>0. CachesTyped /\ ServerTyped /\ FeedTyped /\ MainTyped /\ ReadersTyped
  BY DEF Typed
<1>1. clock' \in 1..MaxVersion
  BY <1>0, TickFacts DEF LocalWrite
<1>2. File(clock') \in Entries /\ ~File(clock').dir /\ MetaKey(p) \in Keys
  BY <1>1, EntryFacts, KeysAre
<1>3. ServerTyped'
  <2>1. IsTree(server)'
    BY <1>0 DEF LocalWrite, ServerTyped, IsTree
  <2>2. pending' = [pending EXCEPT ![p] = File(clock')] /\ pending \in [Paths -> Entries]
    BY <1>0 DEF LocalWrite, ServerTyped
  <2>3. pending' \in [Paths -> Entries]
    BY <1>2, <2>2
  <2>4. \A q \in Paths : ~pending'[q].dir
    BY <1>0, <1>2, <2>2 DEF ServerTyped
  <2> QED
    BY <1>1, <2>1, <2>3, <2>4 DEF ServerTyped
<1>4. CachesTyped'
  <2>1. metas' \in [Paths -> Entries]
    BY <1>0, <1>2 DEF LocalWrite, CachesTyped
  <2>2. AreListings(dirs)'
    BY <1>0 DEF LocalWrite, CachesTyped, AreListings
  <2>3. tainted' \subseteq Keys
    BY <1>0, <1>2 DEF LocalWrite, CachesTyped, MetaKey
  <2> QED
    BY <2>1, <2>2, <2>3 DEF CachesTyped
<1>5. ReadersTyped'
  BY <1>0, OvertakeFacts DEF LocalWrite
<1>6. FeedTyped' /\ MainTyped'
  BY <1>0, UnchangedTyped DEF LocalWrite
<1> QED
  BY <1>1, <1>3, <1>4, <1>5, <1>6 DEF Typed

\* The keys an upload brings into doubt.
UploadKeys(p) ==
  {MetaKey(p)} \cup (IF server[p] = None THEN TreeKeys(p) \cup Revived(p) ELSE {})

\* An upload changes what it brings into doubt only.
LEMMA UploadFacts ==
  ASSUME Typed, NEW p \in Paths, Upload(p)
  PROVE  /\ Typed' /\ UploadKeys(p) \subseteq Keys /\ OvertakeAll(UploadKeys(p))
         /\ Only(server, server', UploadKeys(p))
         /\ UNCHANGED <<metas, dirs, feed>>
         /\ pending[p] # None /\ pending' = [pending EXCEPT ![p] = None]
         /\ UploadKeys(p) \subseteq tainted' \/ (server'[p] = pending[p] /\ server[p] # None)
         /\ tainted \subseteq tainted'
<1> DEFINE fails == server[p].dir \/ Blocked(p)
           gone == server[p] = None
           K == UploadKeys(p)
<1>0. CachesTyped /\ ServerTyped /\ FeedTyped /\ MainTyped /\ ReadersTyped
  BY DEF Typed
<1>1. /\ pending[p] # None /\ pending' = [pending EXCEPT ![p] = None] /\ clock' = clock
      /\ server' = IF fails THEN server ELSE Put(p, pending[p])
      /\ tainted' = IF fails \/ gone THEN tainted \cup K ELSE tainted
      /\ OvertakeAll(K) /\ UNCHANGED <<metas, dirs, feed>>
  BY DEF Upload, caches, UploadKeys, MetaKey
<1>2. /\ IsTree(server) /\ clock' \in 1..MaxVersion /\ pending \in [Paths -> Entries]
      /\ pending[p] \in Entries /\ \A q \in Paths : ~pending[q].dir
  BY <1>0, <1>1 DEF ServerTyped
<1>3. K \subseteq Keys
  <2>1. Revived(p) \subseteq Keys
    BY TreeKeyFacts, AncestorFacts DEF Revived
  <2> QED
    BY <2>1, KeysAre, TreeKeyFacts DEF UploadKeys
<1>4. IsTree(server') /\ Only(server, server', K) /\ (~fails => server'[p] = pending[p])
  <2>1. CASE fails
    BY <1>1, <1>2, <2>1 DEF Only, SameDir
  <2>2. CASE ~fails
    <3>1. server' = Put(p, pending[p]) /\ ~Blocked(p) /\ ~server[p].dir
      BY <1>1, <2>2
    <3>2. /\ IsTree(server') /\ server'[p] = pending[p]
          /\ \A L : /\ Revived(p) \cup {MetaKey(p)} \subseteq L
                    /\ Kind(pending[p]) = Kind(server[p]) \/ DirKey(Front(p)) \in L
                    /\ (pending[p].dir <=> server[p].dir) \/ DirKey(p) \in L
                    => Only(server, server', L)
      BY <1>1, <1>2, <3>1, PutTree
    <3>3. Revived(p) \cup {MetaKey(p)} \subseteq K
      <4>1. server[p] # None => Revived(p) = {}
        BY <1>2, <3>1, ParentsTree
      <4> QED
        BY <4>1 DEF UploadKeys
    <3>4. Kind(pending[p]) = Kind(server[p]) \/ DirKey(Front(p)) \in K
      <4>1. CASE gone
        <5>1. DirKey(Front(p)) \in TreeKeys(p)
          BY TreeKeyFacts, ParentInDirPaths
        <5> QED
          BY <4>1, <5>1 DEF UploadKeys
      <4>2. CASE ~gone
        <5>1. server[p] \in Entries
          BY <1>2 DEF IsTree
        <5>2. Kind(pending[p]) \notin {"none", "dir"} /\ Kind(server[p]) \notin {"none", "dir"}
          BY <1>1, <1>2, <3>1, <4>2, <5>1, EntryFacts
        <5> QED
          BY <1>2, <5>1, <5>2, EntryFacts
      <4> QED
        BY <4>1, <4>2
    <3>5. pending[p].dir <=> server[p].dir
      BY <1>2, <3>1
    <3> QED
      BY <3>2, <3>3, <3>4, <3>5
  <2> QED
    BY <2>1, <2>2
<1>5. ServerTyped'
  <2>1. pending' \in [Paths -> Entries] /\ \A q \in Paths : ~pending'[q].dir
    BY <1>1, <1>2, EntryFacts
  <2>2. IsTree(server)'
    BY <1>4 DEF IsTree
  <2> QED
    BY <1>2, <2>1, <2>2 DEF ServerTyped
<1>6. MainTyped' /\ ReadersTyped'
  BY <1>0, <1>1, OvertakeAllFacts
<1>7. CachesTyped'
  <2>1. tainted' \subseteq Keys
    BY <1>0, <1>1, <1>3 DEF CachesTyped
  <2> QED
    BY <1>0, <1>1, <2>1 DEF CachesTyped, AreListings
<1>8. Typed'
  BY <1>0, <1>1, <1>5, <1>6, <1>7, UnchangedTyped DEF Typed
<1> QED
  BY <1>1, <1>3, <1>4, <1>8

\* remove drops writes.
LEMMA DropWritesFacts ==
  ASSUME Typed, DropWrites
  PROVE  \E S \in SUBSET Under(main.path) :
           LET lost == MetaKeys({q \in S : pending[q] # None})
           IN /\ Typed' /\ pending' = [q \in Paths |-> IF q \in S THEN None ELSE pending[q]]
              /\ tainted' = tainted \cup lost /\ Overtake(lost)
              /\ main.pc = "drop" /\ main'.pc = "server" /\ main'.op = main.op /\ main'.path = main.path
              /\ UNCHANGED <<server, clock, metas, dirs, feed>>
<1>0. CachesTyped /\ ServerTyped /\ FeedTyped /\ MainTyped /\ ReadersTyped
  BY DEF Typed
<1>1. PICK S \in SUBSET Under(main.path) :
        LET lost == MetaKeys({q \in S : pending[q] # None})
        IN /\ pending' = [q \in Paths |-> IF q \in S THEN None ELSE pending[q]]
           /\ tainted' = tainted \cup lost
           /\ Overtake(lost)
  BY DEF DropWrites
<1> DEFINE lost == MetaKeys({q \in S : pending[q] # None})
<1>2. lost \subseteq Keys
  BY DEF Under, MetaKeys, Keys
<1> HIDE DEF lost
<1>3. main' = [main EXCEPT !.pc = "server"] /\ main.pc = "drop" /\ UNCHANGED <<server, clock, metas, dirs, feed>>
  BY DEF DropWrites, caches
<1>4. /\ main' \in Mutations /\ main'.pc = "server" /\ main'.op = main.op /\ main'.path = main.path
      /\ main'.to = main.to
  BY <1>0, <1>3 DEF MainTyped, Mutations
<1>5. MainTyped'
  BY <1>0, <1>3, <1>4, MainGoesOn
<1>6. ServerTyped'
  <2>1. pending' \in [Paths -> Entries]
    BY <1>0, <1>1, EntryFacts DEF ServerTyped
  <2>2. \A q \in Paths : ~pending'[q].dir
    BY <1>0, <1>1, EntryFacts DEF ServerTyped
  <2> QED
    BY <1>0, <1>3, <2>1, <2>2 DEF ServerTyped, IsTree
<1>7. CachesTyped'
  <2>1. tainted' \subseteq Keys
    BY <1>0, <1>1, <1>2 DEF CachesTyped, lost
  <2> QED
    BY <1>0, <1>3, <2>1 DEF CachesTyped, AreListings
<1>8. ReadersTyped'
  BY <1>0, <1>1, OvertakeFacts
<1>9. Typed'
  BY <1>0, <1>3, <1>5, <1>6, <1>7, <1>8, UnchangedTyped DEF Typed
<1> QED
  BY <1>1, <1>3, <1>4, <1>9

\* The two ends of a request that is answered.
Refused == Refuses(main) /\ main' = Idle /\ UNCHANGED <<server, reader, tainted>>
Done ==
  /\ ~Refuses(main) /\ server' = Effect(main) /\ Answered(server'[main.path], Doubts(main))
  /\ tainted' = tainted \cup Doubts(main) /\ Overtake(Doubts(main))

LEMMA ServerOpCases ==
  ASSUME ServerOp
  PROVE  /\ main.pc = "server" /\ Tick /\ UNCHANGED <<metas, dirs, pending, feed>>
         /\ Refused \/ Done
  BY DEF ServerOp, Refused, Done, caches

\* The session thread goes on to the caches.
LEMMA AnsweredFacts ==
  ASSUME ServerTyped, MainTyped, main.pc = "server", NEW new \in Entries, NEW dirty \in SUBSET Keys,
         Answered(new, dirty)
  PROVE  /\ MainTyped' /\ main.path \in Paths
         /\ main'.pc = "metas" /\ main'.op = main.op /\ main'.path = main.path /\ main'.to = main.to
         /\ main'.old = server[main.path] /\ main'.new = new
         /\ main'.keys = OpKeys(main) /\ main'.dirty = dirty
<1>1. main.path \in Paths /\ main \in Mutations /\ main.pc # "idle"
  BY DEF MainTyped
<1>2. server[main.path] \in Entries
  BY <1>1 DEF ServerTyped, IsTree
<1>3. OpKeys(main) \subseteq Keys
  BY <1>1, OpKeysAre, MainAsked
<1>4. PICK x, K : x = server[main.path] /\ K = OpKeys(main)
  OBVIOUS
<1>5. main' = [main EXCEPT !.pc = "metas", !.old = x, !.new = new, !.keys = K, !.dirty = dirty]
  BY <1>4 DEF Answered
<1>6. /\ main'.pc = "metas" /\ main'.op = main.op /\ main'.path = main.path /\ main'.to = main.to
      /\ main'.old = x /\ main'.new = new /\ main'.keys = K /\ main'.dirty = dirty
  BY <1>1, <1>5 DEF Mutations
<1>7. main' \in Mutations
  BY <1>1, <1>2, <1>3, <1>4, <1>5 DEF Mutations
<1>8. MainTyped'
  BY <1>1, <1>4, <1>6, <1>7, MainGoesOn
<1> QED
  BY <1>1, <1>4, <1>6, <1>8

\* The mutation is carried out and answered.
LEMMA DoneFacts ==
  ASSUME Typed, ServerOp, Done
  PROVE  /\ Typed'
         /\ IsTree(server') /\ Only(server, server', OpKeys(main) \cup Doubts(main)) /\ Deed(main, server, server', Doubts(main))
         /\ main'.pc = "metas" /\ main'.op = main.op /\ main'.path = main.path /\ main'.to = main.to
         /\ main'.old = server[main.path] /\ main'.new = server'[main.path]
         /\ main'.keys = OpKeys(main) /\ main'.dirty = Doubts(main) /\ main.path \in Paths
<1>0. /\ CachesTyped /\ ServerTyped /\ FeedTyped /\ MainTyped /\ ReadersTyped
      /\ main.pc = "server" /\ main.pc # "idle"
  BY ServerOpCases DEF Typed
<1>1. clock' \in 1..MaxVersion
  BY <1>0, ServerOpCases, TickFacts
<1>2. ~Refuses(main) /\ server' = Effect(main)
  BY DEF Done
<1>3. /\ IsTree(server') /\ Only(server, server', OpKeys(main) \cup Doubts(main)) /\ Doubts(main) \subseteq Keys
      /\ Deed(main, server, server', Doubts(main))
  BY <1>0, <1>1, <1>2, EffectDeed, MainAsked
<1>4. main.path \in Paths
  BY <1>0 DEF MainTyped
<1>5. server'[main.path] \in Entries
  BY <1>3, <1>4 DEF IsTree
<1>6. PICK new, D : new = server'[main.path] /\ D = Doubts(main)
  OBVIOUS
<1>7. Answered(new, D)
  BY <1>6 DEF Done
<1>8. /\ MainTyped' /\ main'.pc = "metas" /\ main'.op = main.op /\ main'.path = main.path
      /\ main'.to = main.to /\ main'.old = server[main.path] /\ main'.new = new
      /\ main'.keys = OpKeys(main) /\ main'.dirty = D
  BY <1>0, <1>3, <1>5, <1>6, <1>7, AnsweredFacts
<1>11. ServerTyped' /\ FeedTyped'
  BY <1>0, <1>1, <1>3, ServerTypedFrom, ServerOpCases, UnchangedTyped
<1>12. CachesTyped'
  <2>1. UNCHANGED <<metas, dirs>> /\ tainted' \subseteq Keys
    BY <1>0, <1>3, ServerOpCases DEF Done, CachesTyped
  <2> QED
    BY <1>0, <2>1 DEF CachesTyped, AreListings
<1>13. ReadersTyped'
  BY <1>0, OvertakeFacts DEF Done
<1> QED
  BY <1>3, <1>4, <1>6, <1>8, <1>11, <1>12, <1>13 DEF Typed

\* The version that an operation would leave.
LEMMA EffectEntry ==
  ASSUME ServerTyped, MainTyped, main.pc # "idle", clock' \in 1..MaxVersion
  PROVE  Effect(main)[main.path] \in Entries
<1> DEFINE p == main.path
<1>0. /\ p \in Paths /\ main.op \in Ops /\ server \in [Paths -> Entries] /\ server[p] \in Entries
      /\ None \in Entries /\ File(clock') \in Entries /\ Dir(clock') \in Entries
  BY EntryFacts DEF MainTyped, ServerTyped, IsTree
<1>1. CASE main.op \in {"create", "truncate"}
  <2>1. Effect(main) = Put(p, File(clock'))
    BY <1>1 DEF Effect
  <2> QED
    BY <1>0, <2>1 DEF Put, MakeParents
<1>2. CASE main.op = "mkdir"
  <2>1. Effect(main) = Put(p, Dir(clock'))
    BY <1>2 DEF Effect
  <2> QED
    BY <1>0, <2>1 DEF Put, MakeParents
<1>3. CASE main.op = "chmod"
  <2>1. Effect(main) = [server EXCEPT ![p].ver = clock']
    BY <1>3 DEF Effect
  <2>2. Effect(main)[p] = [server[p] EXCEPT !.ver = clock']
    BY <1>0, <2>1
  <2> QED
    BY <1>0, <2>2 DEF Entries
<1>4. CASE main.op \in {"unlink", "rmdir"}
  <2>1. Effect(main) = Cut(p)
    BY <1>4 DEF Effect
  <2> QED
    BY <1>0, <2>1 DEF Cut
<1>5. CASE main.op = "rename"
  <2> DEFINE t == MakeParents(main.to)
  <2>1. Effect(main) = IF server[p] = None THEN t ELSE MoveTree(t, p, main.to, None)
    BY <1>5 DEF Effect
  <2>2. DOMAIN t = Paths /\ \A q \in Paths : t[q] \in Entries
    BY <1>0 DEF MakeParents
  <2> HIDE DEF t
  <2>3. MoveTree(t, p, main.to, None)[p] \in Entries
    BY <1>0, <2>2 DEF MoveTree
  <2> QED
    BY <1>0, <2>1, <2>2, <2>3
<1> QED
  BY <1>0, <1>1, <1>2, <1>3, <1>4, <1>5 DEF Ops

\* The two ends of a request that fails in transport.
Failed == main' = Idle /\ UNCHANGED <<reader, tainted>>
Recovered ==
  /\ Answered(Effect(main)[main.path], OpKeys(main))
  /\ tainted' = tainted \cup OpKeys(main) /\ Overtake(OpKeys(main))

LEMMA TransportCases ==
  ASSUME TransportFails
  PROVE  /\ main.pc = "server" /\ Tick /\ UNCHANGED <<server, metas, dirs, pending, feed>>
         /\ late' = late \cup {Request(main)}
         /\ Failed \/ Recovered
  BY DEF TransportFails, Failed, Recovered, caches

LEMMA RecoveredFacts ==
  ASSUME Typed, TransportFails, Recovered
  PROVE  /\ MainTyped' /\ CachesTyped' /\ ReadersTyped' /\ main.path \in Paths
         /\ main'.pc = "metas" /\ main'.op = main.op /\ main'.path = main.path /\ main'.to = main.to
         /\ main'.keys = OpKeys(main) /\ main'.dirty = OpKeys(main)
<1>0. /\ CachesTyped /\ ServerTyped /\ MainTyped /\ ReadersTyped
      /\ main.pc = "server" /\ main.pc # "idle" /\ UNCHANGED <<metas, dirs>>
  BY TransportCases DEF Typed
<1>1. clock' \in 1..MaxVersion
  BY <1>0, TransportCases, TickFacts
<1>2. OpKeys(main) \subseteq Keys
  BY <1>0, OpKeysAre, MainAsked
<1>3. PICK new, D : new = Effect(main)[main.path] /\ D = OpKeys(main)
  OBVIOUS
<1>4. new \in Entries /\ D \in SUBSET Keys /\ Answered(new, D)
  BY <1>0, <1>1, <1>2, <1>3, EffectEntry DEF Recovered
<1>5. /\ MainTyped' /\ main.path \in Paths
      /\ main'.pc = "metas" /\ main'.op = main.op /\ main'.path = main.path /\ main'.to = main.to
      /\ main'.keys = OpKeys(main) /\ main'.dirty = D
  BY <1>0, <1>4, AnsweredFacts
<1>6. CachesTyped'
  <2>1. tainted' \subseteq Keys
    BY <1>0, <1>2 DEF Recovered, CachesTyped
  <2> QED
    BY <1>0, <2>1 DEF CachesTyped, AreListings
<1>7. ReadersTyped'
  BY <1>0, OvertakeFacts DEF Recovered
<1> QED
  BY <1>3, <1>5, <1>6, <1>7

\* The types after a failure in transport.
LEMMA TransportTyped ==
  ASSUME Typed, LateTyped, TransportFails
  PROVE  Typed' /\ LateTyped'
<1>0. CachesTyped /\ ServerTyped /\ FeedTyped /\ MainTyped /\ ReadersTyped
  BY DEF Typed
<1>1. /\ main.pc = "server" /\ Tick /\ UNCHANGED <<server, metas, dirs, pending>> /\ UNCHANGED feed
      /\ late' = late \cup {Request(main)} /\ (Failed \/ Recovered)
  BY TransportCases
<1>2. ServerTyped' /\ FeedTyped'
  <2>1. clock' \in 1..MaxVersion /\ IsTree(server')
    BY <1>0, <1>1, TickFacts DEF ServerTyped
  <2> QED
    BY <1>0, <1>1, <2>1, ServerTypedFrom, UnchangedTyped
<1>3. MainTyped' /\ CachesTyped' /\ ReadersTyped'
  <2>1. CASE Failed
    BY <1>0, <1>1, <2>1, IdleFacts, UnchangedTyped DEF Failed
  <2> QED
    BY <1>1, <2>1, RecoveredFacts
<1>4. LateTyped'
  <2>1. Asked(Request(main))
    BY <1>0, <1>1 DEF Request, Asked, MainTyped
  <2>2. \A m \in late' : Asked(m)
    BY <1>1, <2>1 DEF LateTyped
  <2> QED
    BY <2>2 DEF LateTyped, Asked
<1> QED
  BY <1>2, <1>3, <1>4 DEF Typed

\* A request takes effect late.
LEMMA LateFacts ==
  ASSUME Typed, NEW m, Asked(m), LateEffect(m)
  PROVE  /\ Typed' /\ Only(server, server', OpKeys(m) \cup Doubts(m)) /\ UNCHANGED <<metas, dirs, pending, feed>>
         /\ tainted' = tainted \cup OpKeys(m) \cup Doubts(m) /\ OvertakeAll(OpKeys(m) \cup Doubts(m))
<1>0. CachesTyped /\ ServerTyped /\ FeedTyped /\ MainTyped /\ ReadersTyped
  BY DEF Typed
<1>1. /\ Tick /\ ~Refuses(m) /\ server' = Effect(m) /\ UNCHANGED <<metas, dirs, pending>> /\ UNCHANGED feed
      /\ tainted' = tainted \cup OpKeys(m) \cup Doubts(m) /\ OvertakeAll(OpKeys(m) \cup Doubts(m))
  BY DEF LateEffect, caches
<1>2. clock' \in 1..MaxVersion
  BY <1>0, <1>1, TickFacts
<1>3. IsTree(server') /\ Only(server, server', OpKeys(m) \cup Doubts(m)) /\ Doubts(m) \subseteq Keys
  BY <1>0, <1>1, <1>2, EffectDeed
<1>4. OpKeys(m) \subseteq Keys
  BY OpKeysAre
<1>5. ServerTyped' /\ FeedTyped'
  BY <1>0, <1>1, <1>2, <1>3, ServerTypedFrom, UnchangedTyped
<1>6. MainTyped' /\ ReadersTyped'
  BY <1>0, <1>1, OvertakeAllFacts
<1>7. CachesTyped'
  <2>1. tainted' \subseteq Keys
    BY <1>0, <1>1, <1>3, <1>4 DEF CachesTyped
  <2> QED
    BY <1>0, <1>1, <2>1 DEF CachesTyped, AreListings
<1> QED
  BY <1>1, <1>3, <1>5, <1>6, <1>7 DEF Typed

\* A rename takes a write along.
LEMMA CarryFacts ==
  ASSUME Typed, NEW q \in Paths, CarryWrite(q)
  PROVE  \E to \in Paths :
           /\ Typed' /\ main.pc = "dirs" /\ q # to
           /\ pending' = [pending EXCEPT ![q] = None, ![to] = pending[q]]
           /\ tainted' = tainted \cup {MetaKey(q), MetaKey(to)} /\ Overtake({MetaKey(q), MetaKey(to)})
           /\ UNCHANGED <<server, metas, dirs, feed, main>>
<1>0. CachesTyped /\ ServerTyped /\ FeedTyped /\ MainTyped /\ ReadersTyped
  BY DEF Typed
<1>1. /\ main.path \in Paths /\ main.to \in Paths /\ Apart(main.path, main.to) /\ q \in Under(main.path)
      /\ main.pc = "dirs"
  BY <1>0 DEF CarryWrite, MainTyped
<1>2. PICK to : to = Moved(main.path, main.to, q)
  OBVIOUS
<1>3. to \in Under(main.to) /\ to \in Paths /\ q # to
  BY <1>1, <1>2, MovedFacts, ApartFacts, UnderFacts
<1>4. MetaKeys({q, to}) = {MetaKey(q), MetaKey(to)}
  BY DEF MetaKeys, MetaKey
<1>5. /\ pending' = [pending EXCEPT ![q] = None, ![to] = pending[q]]
      /\ tainted' = tainted \cup MetaKeys({q, to}) /\ Overtake(MetaKeys({q, to}))
      /\ UNCHANGED <<server, clock>> /\ UNCHANGED metas /\ UNCHANGED dirs /\ UNCHANGED feed /\ UNCHANGED main
  BY <1>2 DEF CarryWrite, caches
<1>6. ServerTyped'
  <2>1. pending' \in [Paths -> Entries] /\ \A x \in Paths : ~pending'[x].dir
    BY <1>0, <1>3, <1>5, EntryFacts DEF ServerTyped
  <2> QED
    BY <1>0, <1>5, <2>1 DEF ServerTyped, IsTree
<1>7. CachesTyped'
  <2>1. tainted' \subseteq Keys
    BY <1>0, <1>3, <1>4, <1>5, KeysAre DEF CachesTyped
  <2> QED
    BY <1>0, <1>5, <2>1 DEF CachesTyped, AreListings
<1>8. ReadersTyped'
  BY <1>0, <1>5, OvertakeFacts
<1>9. Typed'
  BY <1>0, <1>5, <1>6, <1>7, <1>8, UnchangedTyped DEF Typed
<1> QED
  BY <1>1, <1>3, <1>4, <1>5, <1>9

\* The keys of attributes and of listings that a mutation is about.
OpMetas == {key \in main.keys : key[1] = "meta"}
OpDirs == {key \in main.keys : key[1] = "dir"}

\* A mutation suspects keys it is about.
LEMMA SuspectFacts ==
  ASSUME MainTyped, main.pc # "idle"
  PROVE  SuspectMetas \subseteq Keys /\ (main.pc = "dirs" => SuspectDirs \subseteq Keys)
<1>0. main.path \in Paths /\ main.op \in Ops /\ (main.op = "rename" => main.to \in Paths)
  BY DEF MainTyped
<1>1. SuspectMetas \subseteq MetaKeys(Paths)
  <2>1. {<<"meta", main.path>>} \subseteq MetaKeys(Paths)
    BY <1>0 DEF MetaKeys
  <2>2. main.op = "rename" => MetaKeys(Under(main.to)) \subseteq MetaKeys(Paths)
    BY DEF MetaKeys, Under
  <2>3. CASE main.op \in {"create", "mkdir"}
    BY <2>1, <2>3 DEF SuspectMetas
  <2>4. CASE main.op \in {"chmod", "truncate"}
    BY <2>1, <2>4 DEF SuspectMetas
  <2>5. CASE main.op \in {"unlink", "rmdir"}
    BY <2>5 DEF SuspectMetas
  <2>6. CASE main.op = "rename"
    BY <2>2, <2>6 DEF SuspectMetas
  <2> QED
    BY <1>0, <2>3, <2>4, <2>5, <2>6 DEF Ops
<1>2. ASSUME main.pc = "dirs" PROVE SuspectDirs \subseteq DirKeys(DirPaths)
  <2>1. \A S : DirKeys(S) \subseteq DirKeys(DirPaths)
    BY DEF DirKeys
  <2>2. main.op \notin {"chmod", "truncate"}
    BY <1>2 DEF MainTyped
  <2>3. CASE main.op \in {"create", "unlink", "rmdir"}
    BY <2>1, <2>3 DEF SuspectDirs
  <2>4. CASE main.op = "mkdir"
    BY <2>1, <2>4 DEF SuspectDirs
  <2>5. CASE main.op = "rename"
    BY <2>1, <2>5 DEF SuspectDirs
  <2> QED
    BY <1>0, <2>2, <2>3, <2>4, <2>5 DEF Ops
<1> QED
  BY <1>1, <1>2 DEF Keys

\* The attributes, then the listings: both keep the types.
LEMMA MutateTyped ==
  ASSUME Typed, MutateMetas \/ MutateDirs
  PROVE  Typed'
<1>0. CachesTyped /\ ServerTyped /\ FeedTyped /\ MainTyped /\ ReadersTyped
  BY DEF Typed
<1>1. main \in Mutations
  BY <1>0 DEF MainTyped
<1>2. CASE MutateMetas
  <2>1. /\ metas' = NewMetas /\ tainted' = (tainted \ OpMetas) \cup SuspectMetas /\ Overtake(OpMetas)
        /\ UNCHANGED <<server, clock, pending>> /\ UNCHANGED dirs /\ UNCHANGED feed
        /\ main.pc = "metas"
        /\ main' = IF main.op \in {"chmod", "truncate"} THEN Idle ELSE [main EXCEPT !.pc = "dirs"]
    BY <1>2 DEF MutateMetas, OpMetas
  <2>2. NewMetas \in [Paths -> Entries] /\ SuspectMetas \subseteq Keys
    BY <1>0, <2>1, NewMetasTyped, SuspectFacts
  <2>3. CachesTyped'
    <3>1. metas' \in [Paths -> Entries] /\ tainted' \subseteq Keys /\ UNCHANGED dirs
      BY <1>0, <2>1, <2>2 DEF CachesTyped
    <3> QED
      BY <1>0, <3>1 DEF CachesTyped, AreListings
  <2>4. MainTyped'
    <3>1. CASE main.op \in {"chmod", "truncate"}
      BY <2>1, <3>1, IdleFacts
    <3>2. CASE main.op \notin {"chmod", "truncate"}
      <4>1. main' = [main EXCEPT !.pc = "dirs"]
        BY <2>1, <3>2
      <4>2. /\ main' \in Mutations /\ main'.pc = "dirs" /\ main'.op = main.op /\ main'.path = main.path
            /\ main'.to = main.to /\ main'.keys = main.keys
        BY <1>1, <4>1 DEF Mutations
      <4>3. main.keys = OpKeys(main)
        BY <1>0, <2>1 DEF MainTyped
      <4> QED
        BY <1>0, <2>1, <3>2, <4>2, <4>3, MainGoesOn
    <3> QED
      BY <3>1, <3>2
  <2> QED
    BY <1>0, <2>1, <2>3, <2>4, OvertakeFacts, UnchangedTyped DEF Typed
<1>3. CASE MutateDirs
  <2>1. /\ dirs' = NewDirs /\ tainted' = (tainted \ WholeDirs) \cup SuspectDirs /\ Overtake(OpDirs)
        /\ UNCHANGED <<server, clock, pending>> /\ UNCHANGED metas /\ UNCHANGED feed
        /\ main.pc = "dirs" /\ main' = Idle
    BY <1>3 DEF MutateDirs, OpDirs
  <2>2. AreListings(NewDirs) /\ SuspectDirs \subseteq Keys
    BY <1>0, <2>1, NewDirsTyped, SuspectFacts
  <2>3. CachesTyped'
    <3>1. metas' \in [Paths -> Entries] /\ tainted' \subseteq Keys
      BY <1>0, <2>1, <2>2 DEF CachesTyped
    <3>2. AreListings(dirs)'
      BY <2>1, <2>2 DEF AreListings
    <3> QED
      BY <3>1, <3>2 DEF CachesTyped
  <2> QED
    BY <1>0, <2>1, <2>3, IdleFacts, OvertakeFacts, UnchangedTyped DEF Typed
<1> QED
  BY <1>2, <1>3

\* The mutations that a request of the kernel begins.
LEMMA BeginTyped ==
  ASSUME NEW p \in Paths,
         \/ Create(p) \/ RemoveEntry(p) \/ Setattr(p, "chmod") \/ Setattr(p, "truncate")
         \/ p \in DirPaths /\ Mkdir(p)
         \/ \E q \in Paths : Rename(p, q)
  PROVE  /\ MainTyped' /\ main.pc = "idle" /\ main'.path = p
         /\ main'.pc \in {"check", "drop", "server"}
         /\ UNCHANGED <<server, clock, metas, dirs, pending, feed, reader, tainted>>
<1>0. Root \in Paths \cup {Root} /\ Ops = {"create", "mkdir", "chmod", "truncate", "unlink", "rmdir", "rename"}
  BY DEF Ops
<1>1. CASE Create(p)
  BY <1>0, <1>1, BeginFacts DEF Create
<1>2. CASE RemoveEntry(p)
  BY <1>0, <1>2, BeginFacts DEF RemoveEntry
<1>3. CASE Setattr(p, "chmod")
  BY <1>0, <1>3, BeginFacts DEF Setattr
<1>4. CASE Setattr(p, "truncate")
  BY <1>0, <1>4, BeginFacts DEF Setattr
<1>5. CASE p \in DirPaths /\ Mkdir(p)
  BY <1>0, <1>5, BeginFacts DEF Mkdir
<1>6. CASE \E q \in Paths : Rename(p, q)
  <2>1. PICK q \in Paths : Rename(p, q)
    BY <1>6
  <2>2. Begin("rename", p, q, "server") /\ Apart(p, q)
    BY <2>1 DEF Rename
  <2> QED
    BY <1>0, <2>2, BeginFacts
<1> QED
  BY <1>1, <1>2, <1>3, <1>4, <1>5, <1>6

\* rmdir looks and goes on, or gives up.
LEMMA CheckTyped ==
  ASSUME MainTyped, RmdirCheck
  PROVE  /\ MainTyped' /\ main.pc = "check"
         /\ main'.pc = "idle" \/ (main'.pc = "drop" /\ main'.op = main.op /\ main'.path = main.path /\ main'.to = main.to)
         /\ UNCHANGED <<server, clock, metas, dirs, pending, feed, reader, tainted>>
<1>1. main.pc = "check" /\ UNCHANGED <<server, clock, metas, dirs, pending, feed, reader, tainted>>
  BY DEF RmdirCheck, caches
<1>2. CASE main' = Idle
  BY <1>1, <1>2, IdleFacts
<1>3. CASE main' = [main EXCEPT !.pc = "drop"]
  <2>1. /\ main' \in Mutations /\ main'.pc = "drop" /\ main'.op = main.op /\ main'.path = main.path
        /\ main'.to = main.to
    BY <1>3 DEF MainTyped, Mutations
  <2> QED
    BY <1>1, <2>1, MainGoesOn
<1> QED
  BY <1>2, <1>3 DEF RmdirCheck

\* The mutations and writes of the mount keep the types.
LEMMA MainStepTyped ==
  ASSUME Typed, LateTyped, MainStep
  PROVE  Typed'
<1>0. CachesTyped /\ ServerTyped /\ FeedTyped /\ MainTyped /\ ReadersTyped
  BY DEF Typed
<1>1. ASSUME NEW p \in Paths,
             \/ Create(p) \/ RemoveEntry(p) \/ Setattr(p, "chmod") \/ Setattr(p, "truncate")
             \/ p \in DirPaths /\ Mkdir(p)
             \/ \E q \in Paths : Rename(p, q)
      PROVE  Typed'
  <2>1. MainTyped' /\ UNCHANGED <<server, clock, metas, dirs, pending, feed, reader, tainted>>
    BY <1>1, BeginTyped
  <2> QED
    BY <1>0, <2>1, UnchangedTyped DEF Typed
<1>2. CASE RmdirCheck
  <2>1. MainTyped' /\ UNCHANGED <<server, clock, metas, dirs, pending, feed, reader, tainted>>
    BY <1>0, <1>2, CheckTyped
  <2> QED
    BY <1>0, <2>1, UnchangedTyped DEF Typed
<1>3. CASE ServerOp
  <2>1. CASE Refused
    <3>1. clock' \in 1..MaxVersion
      BY <1>0, <1>3, ServerOpCases, TickFacts
    <3>2. IsTree(server')
      BY <1>0, <2>1 DEF Refused, ServerTyped
    <3>3. ServerTyped'
      BY <1>0, <1>3, <3>1, <3>2, ServerOpCases, ServerTypedFrom
    <3>4. MainTyped'
      BY <2>1, IdleFacts DEF Refused
    <3> QED
      BY <1>0, <1>3, <2>1, <3>3, <3>4, ServerOpCases, UnchangedTyped DEF Typed, Refused
  <2> QED
    BY <1>3, <2>1, ServerOpCases, DoneFacts
<1>4. CASE DropWrites
  BY <1>4, DropWritesFacts
<1> QED
  BY <1>1, <1>2, <1>3, <1>4, LocalWriteTyped, CarryFacts, TransportTyped, MutateTyped DEF MainStep

\* The types hold when the mount starts.
LEMMA InitTyped ==
  ASSUME Init
  PROVE  Typed /\ LateTyped
<1>1. IsTree(server) /\ server \in [Paths -> Entries]
  BY TreesAssumption DEF Init, IsTree
<1>2. CachesTyped
  <2>1. \A d \in DirPaths : dirs[d] = NoListing \/ dirs[d] \in [Children(d) -> Kinds]
    <3>1. \A d \in DirPaths : Listing(server, d) \in [Children(d) -> Kinds]
      BY <1>1, ListingTyped
    <3>2. \A d \in DirPaths : dirs[d] = NoListing \/ dirs[d] = Listing(server, d)
      BY DEF Init
    <3> QED
      BY <3>1, <3>2
  <2>2. DOMAIN dirs = DirPaths
    BY DEF Init
  <2> QED
    BY <1>1, <2>1, <2>2 DEF Init, CachesTyped, AreListings
<1>3. ServerTyped
  <2>1. pending \in [Paths -> Entries] /\ \A p \in Paths : ~pending[p].dir
    BY EntryFacts DEF Init
  <2>2. clock \in 1..MaxVersion
    BY TreesAssumption DEF Init
  <2> QED
    BY <1>1, <2>1, <2>2 DEF ServerTyped
<1>4. FeedTyped
  BY DEF Init, FeedTyped
<1>5. MainTyped
  <2>1. main = Idle /\ main.pc = "idle"
    BY DEF Init, Idle
  <2>2. main \in Mutations
    BY <2>1, EntryFacts DEF Idle, Mutations, Root
  <2> QED
    BY <2>1, <2>2 DEF MainTyped
<1>6. ReadersTyped
  <2>1. PICK l \in Lefts : NoAnswer = [pc |-> "idle", path |-> Root, stat |-> None, list |-> NoListing,
                                       left |-> l, dirty |-> {}, reads |-> 0]
    BY NoAnswerFacts
  <2>2. NoListing \in Listings
    BY DEF Listings
  <2>3. NoAnswer \in Answers /\ NoAnswer.pc = "idle"
    BY <2>1, <2>2, EntryFacts DEF Answers
  <2> QED
    BY <2>3 DEF Init, ReadersTyped
<1> QED
  BY <1>2, <1>3, <1>4, <1>5, <1>6 DEF Typed, Init, LateTyped

\* Only a failure in transport adds to the requests.
LEMMA LateStays ==
  ASSUME [Next]_vars
  PROVE  UNCHANGED late \/ TransportFails
<1>1. CASE RemoteStep
  BY <1>1 DEF RemoteStep, RemoteChange, RemoteCreate, RemoteRemove, RemoteRename
<1>2. CASE LoseEvents \/ ApplyChange \/ InvalidateAll
  BY <1>2 DEF LoseEvents, ApplyChange, InvalidateAll
<1>3. CASE MainStep
  BY <1>3 DEF MainStep, Create, RemoveEntry, Setattr, LocalWrite, CarryWrite, Mkdir, Rename, Begin,
              RmdirCheck, DropWrites, ServerOp, MutateMetas, MutateDirs
<1>4. CASE \E p \in Paths : Upload(p)
  BY <1>4 DEF Upload
<1>5. CASE \E m \in late : LateEffect(m)
  BY <1>5 DEF LateEffect
<1>6. CASE \E r \in Readers : ReaderStep(r)
  BY <1>6 DEF ReaderStep, StatRead, ListRead, StatStore, ListStore, ListEntry, ListDone
<1>7. CASE UNCHANGED vars
  BY <1>7 DEF vars
<1> QED
  BY <1>1, <1>2, <1>3, <1>4, <1>5, <1>6, <1>7 DEF Next

\* Every step keeps the types.
LEMMA NextTyped ==
  ASSUME Typed, LateTyped, [Next]_vars
  PROVE  Typed' /\ LateTyped'
<1>0. CachesTyped /\ ServerTyped /\ FeedTyped /\ MainTyped /\ ReadersTyped
  BY DEF Typed
<1>1. Typed'
  <2>1. CASE RemoteStep
    BY <1>0, <2>1, RemoteTyped, UnchangedTyped DEF Typed
  <2>2. CASE UNCHANGED vars
    BY <1>0, <2>2, UnchangedTyped DEF Typed, vars
  <2>3. CASE \E m \in late : LateEffect(m)
    BY <2>3, LateFacts DEF LateTyped
  <2> QED
    BY <2>1, <2>2, <2>3, FeedStepTyped, MainStepTyped, ReaderStepTyped, UploadFacts DEF Next
<1>2. LateTyped'
  <2>1. CASE UNCHANGED late
    BY <2>1 DEF LateTyped, Asked
  <2> QED
    BY <2>1, LateStays, TransportTyped
<1> QED
  BY <1>1, <1>2

\* The types say what TypeOK says.
LEMMA TypedGives ==
  ASSUME Typed, LateTyped
  PROVE  TypeOK
<1>1. /\ server \in [Paths -> Entries] /\ metas \in [Paths -> Entries]
      /\ pending \in [Paths -> Entries] /\ clock \in 0..MaxVersion
  BY DEF Typed, CachesTyped, ServerTyped, IsTree
<1>2. \A d \in DirPaths :
        dirs[d] = NoListing \/ dirs[d] \in [Children(d) -> {"none", "file", "dir"}]
  BY DEF Typed, CachesTyped, AreListings, Kinds
<1>3. ASSUME NEW i \in 1..Len(feed) PROVE feed[i].kind \in {"changed", "replaced", "reset"}
  <2> DEFINE Events == [kind : {"changed", "replaced", "reset"}, path : Paths \cup {Root}]
  <2>1. feed \in Seq(Events)
    BY DEF Typed, FeedTyped
  <2> HIDE DEF Events
  <2>2. feed[i] \in Events
    BY <2>1
  <2> QED
    BY <2>2 DEF Events
<1>4. /\ main.pc \in {"idle", "check", "drop", "server", "metas", "dirs"}
      /\ main.keys \subseteq Keys /\ main.dirty \subseteq Keys
  BY DEF Typed, MainTyped, Mutations
<1>5. \A r \in Readers : reader[r].pc \in {"idle", "stat", "list", "entries"}
  BY DEF Typed, ReadersTyped, Answers
<1>6. tainted \subseteq Keys
  BY DEF Typed, CachesTyped
<1>7. ASSUME NEW p \in Paths, server[p] # None PROVE Front(p) \in DirsOf(server)
  <2>1. CASE Front(p) \in Paths
    <3>1. Front(p) \in Ancestors(p)
      BY <2>1, AncestorFacts
    <3>2. server[Front(p)].dir
      BY <1>7, <3>1 DEF Typed, ServerTyped, IsTree
    <3> QED
      BY <2>1, <3>2 DEF DirsOf
  <2>2. CASE Front(p) \notin Paths
    BY <2>2, FrontIs DEF DirsOf
  <2> QED
    BY <2>1, <2>2
<1>8. \A m \in late : m.path \in Paths /\ m.to \in Paths \cup {Root}
  BY DEF LateTyped, Asked
<1> QED
  BY <1>1, <1>2, <1>3, <1>4, <1>5, <1>6, <1>7, <1>8 DEF TypeOK

\* The types, and the tree on the server is one, whatever the paths, the
\* workers and the bounds: what the mutations and uploads of the mount
\* (create_dir_all, remove_dir_all, rename) and the changes of others leave.
THEOREM NamespaceTypes == Spec => []TypeOK
<1>1. Init => Typed /\ LateTyped
  BY InitTyped
<1>2. Typed /\ LateTyped /\ [Next]_vars => Typed' /\ LateTyped'
  BY NextTyped
<1>3. Typed /\ LateTyped => TypeOK
  BY TypedGives
<1> QED
  BY <1>1, <1>2, <1>3, PTL DEF Spec

-----------------------------------------------------------------------------
(* What is right stays right. *)

\* The keys K are the ones that the step may make wrong.
Disturbs(K) ==
  /\ Only(server, server', K)
  /\ \A key \in Keys : Covered(key) => Covered(key)' \/ key \in K
  /\ \A p \in Paths : MetaOpen(p) => MetaOpen(p)' \/ MetaKey(p) \in K
  /\ \A d \in DirPaths : DirOpen(d) => DirOpen(d)' \/ DirKey(d) \in K
  /\ \A p \in Paths : Landing(p)' => Landing(p) \/ MetaKey(p) \in K

\* A tree that stays.
LEMMA OnlySame ==
  ASSUME NEW t, NEW u, u = t, NEW K
  PROVE  Only(t, u, K)
  BY DEF Only, SameDir

\* Attributes and listings that were right are right or among the keys.
LEMMA RightKept ==
  ASSUME NEW b, NEW K, Disturbs(K)
  PROVE  /\ \A p \in Paths : \A e : MetaRight(b, p, e) => MetaRight(b, p, e)' \/ MetaKey(p) \in K
         /\ \A d \in DirPaths : \A l : DirRight(b, d, l) => DirRight(b, d, l)' \/ DirKey(d) \in K
<1>1. ASSUME NEW p \in Paths, NEW e, MetaRight(b, p, e), MetaKey(p) \notin K
      PROVE  MetaRight(b, p, e)'
  <2>1. server'[p] = server[p]
    BY <1>1 DEF Disturbs, Only
  <2>2. Covered(MetaKey(p)) => Covered(MetaKey(p))'
    BY <1>1, KeysAre DEF Disturbs
  <2>3. MetaOpen(p) => MetaOpen(p)'
    BY <1>1 DEF Disturbs
  <2> QED
    BY <1>1, <2>1, <2>2, <2>3 DEF MetaRight
<1>2. ASSUME NEW d \in DirPaths, NEW l, DirRight(b, d, l), DirKey(d) \notin K
      PROVE  DirRight(b, d, l)'
  <2>1. SameDir(server, server', d)
    BY <1>2 DEF Disturbs, Only
  <2>2. Lists(server, d, l) => Lists(server, d, l)'
    BY <2>1 DEF Lists, SameDir, Listing, DirsOf
  <2>3. Covered(DirKey(d)) => Covered(DirKey(d))'
    BY <1>2, KeysAre DEF Disturbs
  <2>4. DirOpen(d) => DirOpen(d)'
    BY <1>2 DEF Disturbs
  <2>5. Lists(b, d, l) => Lists(b, d, l)'
    BY DEF Lists, Listing, DirsOf
  <2> QED
    BY <1>2, <2>2, <2>3, <2>4, <2>5 DEF DirRight
<1> QED
  BY <1>1, <1>2

\* The answers of all workers stay good when those about the keys are marked.
LEMMA ReadersKept ==
  ASSUME NEW b, NEW a, NEW K, ReadersTyped, Holds(b, a), Disturbs(K),
         NEW r \in Readers, Overtaken(reader[r], reader'[r], K)
  PROVE  (StatGood(b, reader[r]) /\ ListGood(b, reader[r]) /\ LeftGood(b, reader[r]))'
<1>1. StatGood(b, reader[r]) /\ ListGood(b, reader[r]) /\ LeftGood(b, reader[r])
  BY DEF Holds
<1> QED
  BY <1>1, RightKept, AnswersKept

\* The caches stay good where they are not touched.
LEMMA MetaKept ==
  ASSUME NEW b, NEW a, NEW K, Holds(b, a), Disturbs(K), NEW p \in Paths, MetaKey(p) \notin K,
         metas'[p] = metas[p], pending'[p] = pending[p],
         MetaKey(p) \in tainted => MetaKey(p) \in tainted'
  PROVE  MetaGood(b, p)'
<1>1. MetaGood(b, p)
  BY DEF Holds
<1>2. Covered(MetaKey(p)) => Covered(MetaKey(p))'
  BY KeysAre DEF Disturbs
<1>3. MetaRight(b, p, metas[p]) => MetaRight(b, p, metas[p])'
  <2>1. \A e : MetaRight(b, p, e) => MetaRight(b, p, e)'
    BY RightKept
  <2> QED
    BY <2>1 DEF MetaRight
<1>4. Landing(p)' => Landing(p)
  BY DEF Disturbs
<1> QED
  BY <1>1, <1>2, <1>3, <1>4 DEF MetaGood

\* A listing that a step leaves alone stays good.
LEMMA DirKept ==
  ASSUME NEW b, NEW a, NEW K, Holds(b, a), Disturbs(K), NEW d \in DirPaths, DirKey(d) \notin K,
         dirs'[d] = dirs[d], DirKey(d) \in tainted => DirKey(d) \in tainted'
  PROVE  DirGood(b, d)'
<1>1. DirGood(b, d)
  BY DEF Holds
<1>2. DirRight(b, d, dirs[d]) => DirRight(b, d, dirs[d])'
  <2>1. \A l : DirRight(b, d, l) => DirRight(b, d, l)'
    BY RightKept
  <2>2. PICK l : l = dirs[d]
    OBVIOUS
  <2> QED
    BY <2>1, <2>2
<1> QED
  BY <1>1, <1>2 DEF DirGood

\* What the mutation left is still there, or marked.
LEMMA MutationKept ==
  ASSUME NEW b, NEW a, NEW K, MainTyped, Holds(b, a), Only(server, server', K),
         \A key \in Keys : Covered(key) => Covered(key)' \/ key \in K,
         SameMutation, main.dirty \subseteq main'.dirty,
         Working => \A key \in K : key \in main.keys => key \in main'.dirty \/ Covered(key)',
         main.pc = "metas" => \A p \in Paths : pending'[p] \in {None, pending[p]}
  PROVE  StillThere(a)' /\ Did(b, a)' /\ Flushed'
<1>1. StillThere(a)'
  <2> SUFFICES ASSUME Working PROVE StillThere(a)'
    BY DEF StillThere, Working, SameMutation
  <2>1. ASSUME NEW p \in Paths, MetaKey(p) \in main.keys
        PROVE  server'[p] = a[p] \/ MetaKey(p) \in main'.dirty \/ Covered(MetaKey(p))'
    <3>1. server[p] = a[p] \/ MetaKey(p) \in main.dirty \/ Covered(MetaKey(p))
      BY <2>1 DEF Holds, StillThere
    <3>2. server'[p] = server[p] \/ MetaKey(p) \in K
      BY DEF Only
    <3>3. Covered(MetaKey(p)) => Covered(MetaKey(p))' \/ MetaKey(p) \in K
      BY KeysAre
    <3> QED
      BY <2>1, <3>1, <3>2, <3>3
  <2>2. ASSUME NEW d \in DirPaths, DirKey(d) \in main.keys
        PROVE  SameDir(server', a, d) \/ DirKey(d) \in main'.dirty \/ Covered(DirKey(d))'
    <3>1. SameDir(server, a, d) \/ DirKey(d) \in main.dirty \/ Covered(DirKey(d))
      BY <2>2 DEF Holds, StillThere
    <3>2. SameDir(server, server', d) \/ DirKey(d) \in K
      BY DEF Only
    <3>3. Covered(DirKey(d)) => Covered(DirKey(d))' \/ DirKey(d) \in K
      BY KeysAre
    <3>4. SameDir(server, server', d) /\ SameDir(server, a, d) => SameDir(server', a, d)
      BY DEF SameDir
    <3> QED
      BY <2>2, <3>1, <3>2, <3>3, <3>4
  <2>3. \A d : SameDir(server', a, d) => SameDir(server, a, d)'
    BY DEF SameDir, Listing, DirsOf
  <2> QED
    BY <2>1, <2>2, <2>3 DEF StillThere, SameMutation
<1>2. Did(b, a)'
  <2>1. Did(b, a)
    BY DEF Holds
  <2>2. Siblings(main, b, a, main.path) => Siblings(main, b, a, main.path)'
    BY DEF Siblings, SameMutation, DirsOf
  <2>3. Siblings(main, b, a, main.to) => Siblings(main, b, a, main.to)'
    BY DEF Siblings, SameMutation, DirsOf
  <2>4. Deed(main, b, a, main.dirty) => Deed(main, b, a, main.dirty)'
    BY <2>2, <2>3 DEF Deed, SameMutation
  <2>5. Doubted => Doubted'
    BY DEF Doubted, SameMutation
  <2> QED
    BY <2>1, <2>4, <2>5 DEF Did, SameMutation, Working
<1>3. Flushed'
  <2> SUFFICES ASSUME main.pc = "metas" PROVE Flushed'
    BY DEF Flushed, SameMutation
  <2>1. PICK p, to : p = main.path /\ to = main.to
    OBVIOUS
  <2>2. /\ main.op \in {"create", "mkdir", "chmod", "truncate"} => Settled(p)
        /\ main.op = "rename" => \A q \in Under(p) \cup Under(to) : Settled(q)
    BY <2>1 DEF Holds, Flushed
  <2>3. \A q \in Paths : Settled(q) => Settled(q)'
    BY DEF Settled
  <2>4. p \in Paths /\ Under(p) \subseteq Paths /\ Under(to) \subseteq Paths
    BY <2>1 DEF MainTyped, Under
  <2>5. /\ main'.op \in {"create", "mkdir", "chmod", "truncate"} => Settled(p)'
        /\ main'.op = "rename" => \A q \in Under(p) \cup Under(to) : Settled(q)'
    BY <2>2, <2>3, <2>4 DEF SameMutation
  <2> QED
    BY <2>1, <2>5 DEF Flushed, Settled, SameMutation
<1> QED
  BY <1>1, <1>2, <1>3

\* No mutation is under way.
LEMMA NoMutation ==
  ASSUME NEW b, NEW a, ~Working'
  PROVE  StillThere(a)' /\ Did(b, a)'
  BY DEF StillThere, Did, Working

\* The parts of the invariant, put together.
LEMMA HoldsFrom ==
  ASSUME NEW b, NEW a, IsTree(b), IsTree(a),
         \A p \in Paths : MetaGood(b, p)',
         \A d \in DirPaths : DirGood(b, d)',
         \A r \in Readers : (StatGood(b, reader[r]) /\ ListGood(b, reader[r]) /\ LeftGood(b, reader[r]))',
         StillThere(a)', Did(b, a)', Flushed'
  PROVE  Holds(b, a)'
<1>1. IsTree(b)' /\ IsTree(a)'
  BY DEF IsTree
<1> QED
  BY <1>1 DEF Holds

\* A step that leaves main alone, or marks it.
LEMMA SameOpen ==
  ASSUME SameMutation
  PROVE  /\ \A p : MetaOpen(p) => MetaOpen(p)'
         /\ \A d : DirOpen(d) => DirOpen(d)'
         /\ \A p : Landing(p)' => Landing(p)
  BY DEF SameMutation, MetaOpen, DirOpen, Landing

\* Nobody is sent anything: a step of the mount while no mutation is at work.
LEMMA QuietDisturbs ==
  ASSUME UNCHANGED <<server, feed>>, NEW K, ~Working, ~Working'
  PROVE  Disturbs(K)
<1>1. \A key : Covered(key) => Covered(key)'
  BY DEF Covered
<1>2. Only(server, server', K)
  BY OnlySame
<1>3. (\A p : ~MetaOpen(p)) /\ (\A d : ~DirOpen(d))
  BY DEF MetaOpen, DirOpen, Working
<1>4. \A p : ~Landing(p)'
  BY DEF Landing, Working
<1> QED
  BY <1>1, <1>2, <1>3, <1>4 DEF Disturbs

\* Changes that an event on its way covers.
LEMMA OutsideKeeps ==
  ASSUME NEW b, NEW a, Typed, Holds(b, a), NEW K, Only(server, server', K),
         \A key \in K : Covered(key)', \A key \in Keys : Covered(key) => Covered(key)',
         UNCHANGED <<metas, dirs, tainted, pending, main, reader>>
  PROVE  Holds(b, a)'
<1>0. MainTyped /\ ReadersTyped
  BY DEF Typed
<1>1. SameMutation
  BY DEF SameMutation
<1>2. Disturbs(K)
  BY <1>1, SameOpen DEF Disturbs
<1>3. \A p \in Paths : \A e : MetaRight(b, p, e) => MetaRight(b, p, e)'
  <2>1. \A p, e : Covered(MetaKey(p))' => MetaRight(b, p, e)'
    BY DEF MetaRight
  <2> QED
    BY <1>2, <2>1, RightKept
<1>4. \A d \in DirPaths : \A l : DirRight(b, d, l) => DirRight(b, d, l)'
  <2>1. \A d, l : Covered(DirKey(d))' => DirRight(b, d, l)'
    BY DEF DirRight
  <2> QED
    BY <1>2, <2>1, RightKept
<1>5. ASSUME NEW p \in Paths PROVE MetaGood(b, p)'
  <2>1. CASE MetaKey(p) \in K
    BY <2>1 DEF MetaGood
  <2>2. CASE MetaKey(p) \notin K
    BY <1>2, <2>2, MetaKept
  <2> QED
    BY <2>1, <2>2
<1>6. ASSUME NEW d \in DirPaths PROVE DirGood(b, d)'
  <2>1. CASE DirKey(d) \in K
    BY <2>1 DEF DirGood, DirRight
  <2>2. CASE DirKey(d) \notin K
    BY <1>2, <2>2, DirKept
  <2> QED
    BY <2>1, <2>2
<1>7. ASSUME NEW r \in Readers
      PROVE  (StatGood(b, reader[r]) /\ ListGood(b, reader[r]) /\ LeftGood(b, reader[r]))'
  <2>1. Overtaken(reader[r], reader'[r], {})
    BY NotOvertaken
  <2>2. StatGood(b, reader[r]) /\ ListGood(b, reader[r]) /\ LeftGood(b, reader[r])
    BY DEF Holds
  <2> QED
    BY <1>0, <1>3, <1>4, <2>1, <2>2, AnswersKept
<1>8. StillThere(a)' /\ Did(b, a)' /\ Flushed'
  BY <1>0, <1>1, MutationKept
<1> QED
  BY <1>5, <1>6, <1>7, <1>8, HoldsFrom DEF Holds

\* An event is applied.
LEMMA ApplyKeeps ==
  ASSUME NEW b, NEW a, Typed, Holds(b, a), ApplyChange \/ InvalidateAll
  PROVE  Holds(b, a)'
<1> DEFINE K == EventKeys(Head(feed))
<1>0. CachesTyped /\ FeedTyped /\ MainTyped /\ ReadersTyped
  BY DEF Typed
<1>1. feed # <<>> /\ feed' = Tail(feed) /\ UNCHANGED <<server, pending>>
  BY DEF ApplyChange, InvalidateAll
<1>2. K \subseteq Keys /\ \A key : Covered(key) => Covered(key)' \/ key \in K
  BY <1>0, <1>1, TailFacts
<1>3. /\ OvertakeAll(K)
      /\ \A p \in Paths : \/ MetaKey(p) \in K /\ (MetaKey(p) \in tainted' \/ metas'[p] = None)
                          \/ /\ MetaKey(p) \notin K /\ metas'[p] = metas[p]
                             /\ MetaKey(p) \in tainted => MetaKey(p) \in tainted'
      /\ \A d \in DirPaths : \/ DirKey(d) \in K /\ (DirKey(d) \in tainted' \/ dirs'[d] = NoListing)
                             \/ /\ DirKey(d) \notin K /\ dirs'[d] = dirs[d]
                                /\ DirKey(d) \in tainted => DirKey(d) \in tainted'
  <2>1. CASE ApplyChange
    <3>1. /\ \/ metas' = metas /\ dirs' = dirs /\ tainted' = tainted \cup K
             \/ metas' = DropMetas(K) /\ dirs' = DropDirs(K) /\ tainted' = tainted \ K
          /\ OvertakeAll(K)
      BY <2>1 DEF ApplyChange, caches
    <3> HIDE DEF K
    <3> QED
      BY <1>0, <3>1, DropFacts
  <2>2. CASE InvalidateAll
    <3>1. Head(feed).kind = "reset" /\ dirs' = DropDirs(Keys) /\ OvertakeAll(Keys)
      BY <2>2 DEF InvalidateAll
    <3>2. PICK kept \in SUBSET {p \in Paths : pending[p] # None} :
            metas' = DropMetas(Keys \ MetaKeys(kept)) /\ tainted' = MetaKeys(kept)
      BY <2>2 DEF InvalidateAll
    <3>3. K = Keys
      BY <3>1, EventKeyFacts
    <3> HIDE DEF K
    <3>4. \A p \in Paths : MetaKey(p) \in K /\ (MetaKey(p) \in tainted' \/ metas'[p] = None)
      BY <1>0, <3>2, <3>3, DropFacts, KeysAre
    <3>5. \A d \in DirPaths : DirKey(d) \in K /\ dirs'[d] = NoListing
      BY <1>0, <3>1, <3>3, DropFacts, KeysAre
    <3> QED
      BY <3>1, <3>3, <3>4, <3>5
  <2> QED
    BY <2>1, <2>2
<1> HIDE DEF K
<1>4. /\ \A r \in Readers : Overtaken(reader[r], reader'[r], K)
      /\ SameMutation /\ main.dirty \subseteq main'.dirty
      /\ Working => \A key \in K : key \in main.keys => key \in main'.dirty
  BY <1>0, <1>3, OvertakeAllFacts
<1>5. Only(server, server', K)
  BY <1>1, OnlySame
<1>6. Disturbs(K)
  BY <1>2, <1>4, <1>5, SameOpen DEF Disturbs
<1>7. ASSUME NEW p \in Paths PROVE MetaGood(b, p)'
  <2>1. CASE MetaKey(p) \in K
    BY <1>3, <2>1 DEF MetaGood
  <2>2. CASE MetaKey(p) \notin K
    BY <1>1, <1>3, <1>6, <2>2, MetaKept
  <2> QED
    BY <2>1, <2>2
<1>8. ASSUME NEW d \in DirPaths PROVE DirGood(b, d)'
  <2>1. CASE DirKey(d) \in K
    BY <1>3, <2>1 DEF DirGood
  <2>2. CASE DirKey(d) \notin K
    BY <1>3, <1>6, <2>2, DirKept
  <2> QED
    BY <2>1, <2>2
<1>9. ASSUME NEW r \in Readers
      PROVE  (StatGood(b, reader[r]) /\ ListGood(b, reader[r]) /\ LeftGood(b, reader[r]))'
  BY <1>0, <1>4, <1>6, ReadersKept
<1>10. StillThere(a)' /\ Did(b, a)' /\ Flushed'
  BY <1>0, <1>1, <1>2, <1>4, <1>5, MutationKept
<1> QED
  BY <1>7, <1>8, <1>9, <1>10, HoldsFrom DEF Holds

\* An upload ends.
LEMMA UploadKeeps ==
  ASSUME NEW b, NEW a, Typed, Holds(b, a), NEW p \in Paths, Upload(p)
  PROVE  Holds(b, a)'
<1> DEFINE K == UploadKeys(p)
<1>0. CachesTyped /\ FeedTyped /\ MainTyped /\ ReadersTyped /\ pending \in [Paths -> Entries]
  BY DEF Typed, ServerTyped
<1>1. /\ K \subseteq Keys /\ OvertakeAll(K) /\ Only(server, server', K)
      /\ UNCHANGED <<metas, dirs, feed>>
      /\ pending[p] # None /\ pending' = [pending EXCEPT ![p] = None]
      /\ K \subseteq tainted' \/ (server'[p] = pending[p] /\ server[p] # None)
      /\ tainted \subseteq tainted'
  BY UploadFacts
<1>2. server[p] # None => K = {MetaKey(p)}
  BY DEF UploadKeys
<1>3. MetaKey(p) \in K
  BY DEF UploadKeys
<1> HIDE DEF K
<1>4. /\ \A r \in Readers : Overtaken(reader[r], reader'[r], K)
      /\ SameMutation /\ main.dirty \subseteq main'.dirty
      /\ Working => \A key \in K : key \in main.keys => key \in main'.dirty
  BY <1>0, <1>1, OvertakeAllFacts
<1>5. \A key : Covered(key) <=> Covered(key)'
  BY <1>1 DEF Covered
<1>6. Disturbs(K)
  BY <1>1, <1>4, <1>5, SameOpen DEF Disturbs
<1>7. \A q \in Paths : pending'[q] = IF q = p THEN None ELSE pending[q]
  BY <1>0, <1>1
<1>8. ASSUME NEW q \in Paths PROVE MetaGood(b, q)'
  <2>1. CASE MetaKey(q) \notin K
    BY <1>1, <1>3, <1>6, <1>7, <2>1, MetaKept
  <2>2. CASE MetaKey(q) \in K /\ K \subseteq tainted'
    BY <2>2 DEF MetaGood
  <2>3. CASE MetaKey(q) \in K /\ server'[p] = pending[p] /\ server[p] # None
    <3>1. q = p
      BY <1>2, <2>3, KeyFacts
    <3>2. MetaGood(b, p)
      BY DEF Holds
    <3>3. metas[p] = None \/ MetaKey(p) \in tainted \/ Covered(MetaKey(p)) \/ metas[p] = pending[p]
      BY <1>1, <3>2 DEF MetaGood
    <3>4. metas'[p] = None \/ MetaKey(p) \in tainted' \/ Covered(MetaKey(p))' \/ metas'[p] = server'[p]
      BY <1>1, <1>5, <2>3, <3>3
    <3>5. MetaGood(b, p)'
      BY <1>7, <3>4 DEF MetaGood, MetaRight
    <3> QED
      BY <3>1, <3>5
  <2> QED
    BY <1>1, <2>1, <2>2, <2>3
<1>9. ASSUME NEW d \in DirPaths PROVE DirGood(b, d)'
  <2>1. CASE DirKey(d) \in K /\ K \subseteq tainted'
    BY <2>1 DEF DirGood
  <2>2. CASE DirKey(d) \notin K
    BY <1>1, <1>6, <2>2, DirKept
  <2>3. CASE server[p] # None
    BY <1>2, <2>2, <2>3, KeyFacts
  <2> QED
    BY <1>1, <2>1, <2>2, <2>3
<1>10. ASSUME NEW r \in Readers
       PROVE  (StatGood(b, reader[r]) /\ ListGood(b, reader[r]) /\ LeftGood(b, reader[r]))'
  BY <1>0, <1>4, <1>6, ReadersKept
<1>11. StillThere(a)' /\ Did(b, a)' /\ Flushed'
  BY <1>0, <1>1, <1>4, <1>5, <1>7, MutationKept
<1> QED
  BY <1>8, <1>9, <1>10, <1>11, HoldsFrom DEF Holds

\* A local write.
LEMMA LocalWriteKeeps ==
  ASSUME NEW b, NEW a, Typed, Holds(b, a), NEW p \in Paths, LocalWrite(p)
  PROVE  Holds(b, a)'
<1> DEFINE K == {MetaKey(p)}
<1>0. ReadersTyped /\ metas \in [Paths -> Entries] /\ pending \in [Paths -> Entries]
  BY DEF Typed, CachesTyped, ServerTyped
<1>1. /\ main.pc = "idle" /\ UNCHANGED <<server, dirs, feed, main>>
      /\ pending' = [pending EXCEPT ![p] = File(clock')] /\ metas' = [metas EXCEPT ![p] = File(clock')]
      /\ tainted \subseteq tainted' /\ Overtake(K)
  BY DEF LocalWrite, MetaKey
<1>2. ~Working /\ ~Working'
  BY <1>1 DEF Working
<1>3. Disturbs(K)
  BY <1>1, <1>2, QuietDisturbs
<1>4. /\ \A q \in Paths : q # p => metas'[q] = metas[q] /\ pending'[q] = pending[q]
      /\ metas'[p] = pending'[p] /\ pending'[p] = File(clock')
  BY <1>0, <1>1
<1>5. ASSUME NEW q \in Paths PROVE MetaGood(b, q)'
  <2>1. CASE q # p
    <3>1. MetaKey(q) \notin K
      BY <2>1, KeyFacts
    <3> QED
      BY <1>1, <1>3, <1>4, <2>1, <3>1, MetaKept
  <2>2. CASE q = p
    <3>1. pending'[p] # None
      BY <1>4, EntryFacts, LocalWriteTyped
    <3>2. ~Landing(p)'
      BY <1>2 DEF Landing, Working
    <3> QED
      BY <1>4, <2>2, <3>1, <3>2 DEF MetaGood
  <2> QED
    BY <2>1, <2>2
<1>6. ASSUME NEW d \in DirPaths PROVE DirGood(b, d)'
  <2>1. DirKey(d) \notin K
    BY KeyFacts
  <2> QED
    BY <1>1, <1>3, <2>1, DirKept
<1>7. ASSUME NEW r \in Readers
      PROVE  (StatGood(b, reader[r]) /\ ListGood(b, reader[r]) /\ LeftGood(b, reader[r]))'
  BY <1>0, <1>1, <1>3, OvertakeFacts, ReadersKept
<1>8. StillThere(a)' /\ Did(b, a)'
  BY <1>2, NoMutation
<1>9. Flushed'
  BY <1>1 DEF Flushed
<1> QED
  BY <1>5, <1>6, <1>7, <1>8, <1>9, HoldsFrom DEF Holds

\* A removal drops writes.
LEMMA DropWritesKeeps ==
  ASSUME NEW b, NEW a, Typed, Holds(b, a), DropWrites
  PROVE  Holds(b, a)'
<1>0. ReadersTyped
  BY DEF Typed
<1>1. PICK S \in SUBSET Under(main.path) :
        LET lost == MetaKeys({q \in S : pending[q] # None})
        IN /\ pending' = [q \in Paths |-> IF q \in S THEN None ELSE pending[q]]
           /\ tainted' = tainted \cup lost /\ Overtake(lost)
           /\ main.pc = "drop" /\ main'.pc = "server" /\ main'.op = main.op
           /\ UNCHANGED <<server, metas, dirs, feed>>
  BY DropWritesFacts
<1> DEFINE K == MetaKeys({q \in S : pending[q] # None})
<1>2. /\ \A q \in Paths : pending'[q] = IF q \in S THEN None ELSE pending[q]
      /\ tainted' = tainted \cup K /\ Overtake(K) /\ UNCHANGED <<metas, dirs>>
  BY <1>1
<1>3. ~Working /\ ~Working'
  BY <1>1 DEF Working
<1>4. Disturbs(K)
  BY <1>1, <1>3, QuietDisturbs
<1>5. /\ \A q \in Paths : MetaKey(q) \notin K => pending'[q] = pending[q]
      /\ \A d : DirKey(d) \notin K
  BY <1>2, KeyFacts
<1> HIDE DEF K
<1>6. ASSUME NEW q \in Paths PROVE MetaGood(b, q)'
  <2>1. CASE MetaKey(q) \in K
    BY <1>2, <2>1 DEF MetaGood
  <2>2. CASE MetaKey(q) \notin K
    BY <1>2, <1>4, <1>5, <2>2, MetaKept
  <2> QED
    BY <2>1, <2>2
<1>7. ASSUME NEW d \in DirPaths PROVE DirGood(b, d)'
  BY <1>2, <1>4, <1>5, DirKept
<1>8. ASSUME NEW r \in Readers
      PROVE  (StatGood(b, reader[r]) /\ ListGood(b, reader[r]) /\ LeftGood(b, reader[r]))'
  BY <1>0, <1>2, <1>4, OvertakeFacts, ReadersKept
<1>9. StillThere(a)' /\ Did(b, a)'
  BY <1>3, NoMutation
<1>10. Flushed'
  BY <1>1 DEF Flushed
<1> QED
  BY <1>6, <1>7, <1>8, <1>9, <1>10, HoldsFrom DEF Holds

\* Steps of main alone.
LEMMA MainAloneKeeps ==
  ASSUME NEW b, NEW a, Typed, Holds(b, a), ~Working, ~Working', Flushed',
         UNCHANGED <<server, metas, dirs, pending, feed, reader, tainted>>
  PROVE  Holds(b, a)'
<1>0. ReadersTyped
  BY DEF Typed
<1>1. Disturbs({})
  BY QuietDisturbs
<1>2. \A p \in Paths : MetaGood(b, p)'
  BY <1>1, MetaKept
<1>3. \A d \in DirPaths : DirGood(b, d)'
  BY <1>1, DirKept
<1>4. ASSUME NEW r \in Readers
      PROVE  (StatGood(b, reader[r]) /\ ListGood(b, reader[r]) /\ LeftGood(b, reader[r]))'
  BY <1>0, <1>1, NotOvertaken, ReadersKept
<1>5. StillThere(a)' /\ Did(b, a)'
  BY NoMutation
<1> QED
  BY <1>2, <1>3, <1>4, <1>5, HoldsFrom DEF Holds

\* A mutation begins, or rmdir looks.
LEMMA BeginKeeps ==
  ASSUME NEW b, NEW a, Typed, Holds(b, a), NEW p \in Paths,
         \/ Create(p) \/ RemoveEntry(p) \/ Setattr(p, "chmod") \/ Setattr(p, "truncate")
         \/ p \in DirPaths /\ Mkdir(p)
         \/ \E q \in Paths : Rename(p, q)
  PROVE  Holds(b, a)'
<1>1. /\ main.pc = "idle" /\ main'.pc \in {"check", "drop", "server"}
      /\ UNCHANGED <<server, clock, metas, dirs, pending, feed, reader, tainted>>
  BY BeginTyped
<1>2. ~Working /\ ~Working'
  BY <1>1 DEF Working
<1>5. Flushed'
  BY <1>1 DEF Flushed
<1> QED
  BY <1>1, <1>2, <1>5, MainAloneKeeps

\* rmdir lists the directory on the server.
LEMMA CheckKeeps ==
  ASSUME NEW b, NEW a, Typed, Holds(b, a), RmdirCheck
  PROVE  Holds(b, a)'
<1>1. /\ main.pc = "check"
      /\ \/ main'.pc = "idle"
         \/ main'.pc = "drop" /\ main'.op = main.op /\ main'.path = main.path /\ main'.to = main.to
      /\ UNCHANGED <<server, clock, metas, dirs, pending, feed, reader, tainted>>
  BY CheckTyped DEF Typed
<1>2. ~Working /\ ~Working'
  BY <1>1 DEF Working
<1>4. Flushed'
  BY <1>1 DEF Flushed
<1> QED
  BY <1>1, <1>2, <1>4, MainAloneKeeps

\* The request is refused.
LEMMA RefusedKeeps ==
  ASSUME NEW b, NEW a, Typed, Holds(b, a), ServerOp, Refused
  PROVE  Holds(b, a)'
<1>1. /\ main.pc = "server" /\ main'.pc = "idle"
      /\ UNCHANGED <<server, metas, dirs, pending, feed, reader, tainted>>
  BY ServerOpCases, IdleFacts DEF Refused
<1>2. ~Working /\ ~Working' /\ Flushed'
  BY <1>1 DEF Working, Flushed
<1> QED
  BY <1>1, <1>2, MainAloneKeeps

\* The request fails in transport and so does the recovery.
LEMMA FailedKeeps ==
  ASSUME NEW b, NEW a, Typed, Holds(b, a), TransportFails, Failed
  PROVE  Holds(b, a)'
<1>1. /\ main.pc = "server" /\ main'.pc = "idle"
      /\ UNCHANGED <<server, metas, dirs, pending, feed, reader, tainted>>
  BY TransportCases, IdleFacts DEF Failed
<1>2. ~Working /\ ~Working' /\ Flushed'
  BY <1>1 DEF Working, Flushed
<1> QED
  BY <1>1, <1>2, MainAloneKeeps

\* The recovery succeeds: everything the mutation is about is in doubt.
LEMMA RecoveredKeeps ==
  ASSUME NEW b, NEW a, Typed, Holds(b, a), TransportFails, Recovered
  PROVE  Holds(b, a)'
<1>0. ReadersTyped /\ MainTyped /\ main.pc = "server" /\ UNCHANGED <<server, metas, dirs, pending, feed>>
  BY TransportCases DEF Typed
<1>1. PICK K : K = OpKeys(main)
  OBVIOUS
<1>2. /\ main.path \in Paths /\ main'.pc = "metas" /\ main'.op = main.op /\ main'.path = main.path
      /\ main'.to = main.to /\ main'.keys = K /\ main'.dirty = K
  BY <1>1, RecoveredFacts
<1>3. tainted' = tainted \cup K /\ Overtake(K)
  BY <1>1 DEF Recovered
<1>4. Disturbs(K)
  <2>1. Only(server, server', K)
    BY <1>0, OnlySame
  <2>2. \A key : Covered(key) => Covered(key)'
    BY <1>0 DEF Covered
  <2>3. (\A p : ~MetaOpen(p)) /\ (\A d : ~DirOpen(d)) /\ (\A p : ~Landing(p)')
    BY <1>0, <1>2 DEF MetaOpen, DirOpen, Landing
  <2> QED
    BY <2>1, <2>2, <2>3 DEF Disturbs
<1>5. ASSUME NEW p \in Paths PROVE MetaGood(b, p)'
  <2>1. CASE MetaKey(p) \in K
    BY <1>3, <2>1 DEF MetaGood
  <2>2. CASE MetaKey(p) \notin K
    BY <1>0, <1>3, <1>4, <2>2, MetaKept
  <2> QED
    BY <2>1, <2>2
<1>6. ASSUME NEW d \in DirPaths PROVE DirGood(b, d)'
  <2>1. CASE DirKey(d) \in K
    BY <1>3, <2>1 DEF DirGood
  <2>2. CASE DirKey(d) \notin K
    BY <1>0, <1>3, <1>4, <2>2, DirKept
  <2> QED
    BY <2>1, <2>2
<1>7. ASSUME NEW r \in Readers
      PROVE  (StatGood(b, reader[r]) /\ ListGood(b, reader[r]) /\ LeftGood(b, reader[r]))'
  BY <1>0, <1>3, <1>4, OvertakeFacts, ReadersKept
<1>8. StillThere(a)' /\ Did(b, a)'
  BY <1>2 DEF StillThere, Did, Doubted
<1>9. Flushed'
  <2>1. PICK p, to : p = main.path /\ to = main.to
    OBVIOUS
  <2>2. p \in Paths /\ (main.op = "rename" => to \in Paths)
    BY <1>0, <1>2, <2>1 DEF MainTyped
  <2>3. main.op \in {"create", "mkdir", "chmod", "truncate"} => MetaKey(p) \in K
    BY <1>0, <1>1, <2>1, OpKeysAre, MainAsked
  <2>4. main.op = "rename" => \A q \in Under(p) \cup Under(to) : MetaKey(q) \in K
    BY <1>0, <1>1, <2>1, <2>2, OpKeysAre, MainAsked, TreeKeyFacts
  <2> QED
    BY <1>2, <2>1, <2>3, <2>4 DEF Flushed, Settled
<1> QED
  BY <1>5, <1>6, <1>7, <1>8, <1>9, HoldsFrom DEF Holds

\* A request takes effect late.
LEMMA LateKeeps ==
  ASSUME NEW b, NEW a, Typed, Holds(b, a), NEW m, Asked(m), LateEffect(m)
  PROVE  Holds(b, a)'
<1>0. MainTyped /\ ReadersTyped
  BY DEF Typed
<1>1. PICK K : K = OpKeys(m) \cup Doubts(m)
  OBVIOUS
<1>2. /\ Only(server, server', K) /\ UNCHANGED <<metas, dirs, pending, feed>>
      /\ tainted' = tainted \cup K /\ OvertakeAll(K)
  BY <1>1, LateFacts
<1>3. /\ \A r \in Readers : Overtaken(reader[r], reader'[r], K)
      /\ SameMutation /\ main.dirty \subseteq main'.dirty
      /\ Working => \A key \in K : key \in main.keys => key \in main'.dirty
  BY <1>0, <1>2, OvertakeAllFacts
<1>4. \A key : Covered(key) => Covered(key)'
  BY <1>2 DEF Covered
<1>5. Disturbs(K)
  BY <1>2, <1>3, <1>4, SameOpen DEF Disturbs
<1>6. ASSUME NEW p \in Paths PROVE MetaGood(b, p)'
  <2>1. CASE MetaKey(p) \in K
    BY <1>2, <2>1 DEF MetaGood
  <2>2. CASE MetaKey(p) \notin K
    BY <1>2, <1>5, <2>2, MetaKept
  <2> QED
    BY <2>1, <2>2
<1>7. ASSUME NEW d \in DirPaths PROVE DirGood(b, d)'
  <2>1. CASE DirKey(d) \in K
    BY <1>2, <2>1 DEF DirGood
  <2>2. CASE DirKey(d) \notin K
    BY <1>2, <1>5, <2>2, DirKept
  <2> QED
    BY <2>1, <2>2
<1>8. ASSUME NEW r \in Readers
      PROVE  (StatGood(b, reader[r]) /\ ListGood(b, reader[r]) /\ LeftGood(b, reader[r]))'
  BY <1>0, <1>3, <1>5, ReadersKept
<1>9. StillThere(a)' /\ Did(b, a)' /\ Flushed'
  BY <1>0, <1>2, <1>3, <1>4, MutationKept
<1> QED
  BY <1>6, <1>7, <1>8, <1>9, HoldsFrom DEF Holds

\* A rename takes a write along.
LEMMA CarryKeeps ==
  ASSUME NEW b, NEW a, Typed, Holds(b, a), NEW q \in Paths, CarryWrite(q)
  PROVE  Holds(b, a)'
<1>0. MainTyped /\ ReadersTyped /\ pending \in [Paths -> Entries]
  BY DEF Typed, ServerTyped
<1>1. PICK to \in Paths :
        /\ Typed' /\ main.pc = "dirs" /\ q # to
        /\ pending' = [pending EXCEPT ![q] = None, ![to] = pending[q]]
        /\ tainted' = tainted \cup {MetaKey(q), MetaKey(to)} /\ Overtake({MetaKey(q), MetaKey(to)})
        /\ UNCHANGED <<server, metas, dirs, feed, main>>
  BY CarryFacts
<1> DEFINE K == {MetaKey(q), MetaKey(to)}
<1>2. /\ tainted' = tainted \cup K /\ Overtake(K) /\ UNCHANGED <<metas, dirs>>
      /\ \A d : DirKey(d) \notin K
      /\ \A p \in Paths : MetaKey(p) \notin K => pending'[p] = pending[p]
  BY <1>0, <1>1, KeyFacts
<1> HIDE DEF K
<1>3. SameMutation
  BY <1>1 DEF SameMutation
<1>4. \A key : Covered(key) => Covered(key)'
  BY <1>1 DEF Covered
<1>5. Only(server, server', {}) /\ Only(server, server', K)
  BY <1>1, OnlySame
<1>6. Disturbs(K)
  BY <1>3, <1>4, <1>5, SameOpen DEF Disturbs
<1>7. ASSUME NEW p \in Paths PROVE MetaGood(b, p)'
  <2>1. CASE MetaKey(p) \in K
    BY <1>2, <2>1 DEF MetaGood
  <2>2. CASE MetaKey(p) \notin K
    BY <1>2, <1>6, <2>2, MetaKept
  <2> QED
    BY <2>1, <2>2
<1>8. ASSUME NEW d \in DirPaths PROVE DirGood(b, d)'
  BY <1>2, <1>6, DirKept
<1>9. ASSUME NEW r \in Readers
      PROVE  (StatGood(b, reader[r]) /\ ListGood(b, reader[r]) /\ LeftGood(b, reader[r]))'
  BY <1>0, <1>2, <1>6, OvertakeFacts, ReadersKept
<1>10. StillThere(a)' /\ Did(b, a)' /\ Flushed'
  <2>1. main' = main /\ main.pc # "metas"
    BY <1>1
  <2> QED
    BY <1>0, <1>3, <1>4, <1>5, <2>1, MutationKept
<1> QED
  BY <1>7, <1>8, <1>9, <1>10, HoldsFrom DEF Holds

\* A step of worker r alone.
LEMMA WorkerAlone ==
  ASSUME NEW b, NEW a, Typed, Holds(b, a), NEW r \in Readers,
         \A s \in Readers : s # r => reader'[s] = reader[s],
         UNCHANGED <<server, pending, feed, main>>
  PROVE  /\ \A s \in Readers : s # r =>
              (StatGood(b, reader[s]) /\ ListGood(b, reader[s]) /\ LeftGood(b, reader[s]))'
         /\ StillThere(a)' /\ Did(b, a)' /\ Flushed'
         /\ Disturbs({})
         /\ \A p \in Paths : \A e : MetaRight(b, p, e) => MetaRight(b, p, e)'
         /\ \A d \in DirPaths : \A l : DirRight(b, d, l) => DirRight(b, d, l)'
<1>0. MainTyped /\ ReadersTyped
  BY DEF Typed
<1>1. SameMutation
  BY DEF SameMutation
<1>2. \A key : Covered(key) => Covered(key)'
  BY DEF Covered
<1>3. Only(server, server', {})
  BY OnlySame
<1>4. Disturbs({})
  BY <1>1, <1>2, <1>3, SameOpen DEF Disturbs
<1>5. ASSUME NEW s \in Readers, s # r
      PROVE  (StatGood(b, reader[s]) /\ ListGood(b, reader[s]) /\ LeftGood(b, reader[s]))'
  <2>1. Overtaken(reader[s], reader'[s], {})
    BY <1>5, NotOvertaken
  <2> QED
    BY <1>0, <1>4, <2>1, ReadersKept
<1>6. StillThere(a)' /\ Did(b, a)' /\ Flushed'
  BY <1>0, <1>1, <1>2, <1>3, MutationKept
<1> QED
  BY <1>4, <1>5, <1>6, RightKept

\* A worker's answer is the server's.
LEMMA ReadKeeps ==
  ASSUME NEW b, NEW a, Typed, Holds(b, a), NEW r \in Readers,
         \/ \E p \in Paths : StatRead(r, p)
         \/ \E d \in DirPaths : ListRead(r, d)
         \/ ListDone(r)
  PROVE  Holds(b, a)'
<1>0. ReadersTyped /\ ServerTyped
  BY DEF Typed
<1>1. UNCHANGED <<server, pending, feed, main, metas, dirs, tainted>>
  BY DEF StatRead, ListRead, ListDone, caches
<1>2. /\ \A s \in Readers : s # r => reader'[s] = reader[s]
      /\ (StatGood(b, reader[r]) /\ ListGood(b, reader[r]) /\ LeftGood(b, reader[r]))'
  <2>1. ASSUME NEW p \in Paths, StatRead(r, p)
        PROVE  /\ \A s \in Readers : s # r => reader'[s] = reader[s]
               /\ (StatGood(b, reader[r]) /\ ListGood(b, reader[r]) /\ LeftGood(b, reader[r]))'
    <3>1. /\ \A s \in Readers : s # r => reader'[s] = reader[s]
          /\ reader'[r].pc = "stat" /\ reader'[r].path = p /\ reader'[r].stat = server'[p]
      BY <1>0, <1>1, <2>1, StatReadFacts
    <3> QED
      BY <3>1 DEF StatGood, ListGood, LeftGood, MetaRight
  <2>2. ASSUME NEW d \in DirPaths, ListRead(r, d)
        PROVE  /\ \A s \in Readers : s # r => reader'[s] = reader[s]
               /\ (StatGood(b, reader[r]) /\ ListGood(b, reader[r]) /\ LeftGood(b, reader[r]))'
    <3>1. /\ \A s \in Readers : s # r => reader'[s] = reader[s]
          /\ reader'[r].pc = "list" /\ reader'[r].path = d /\ Lists(server, d, reader'[r].list)
          /\ \A p \in DOMAIN reader'[r].left : reader'[r].left[p] = server'[p]
      BY <1>0, <1>1, <2>2, ListReadFacts
    <3>2. DirRight(b, reader[r].path, reader[r].list)'
      BY <1>1, <3>1 DEF DirRight, Lists, Listing, DirsOf
    <3> QED
      BY <3>1, <3>2 DEF StatGood, ListGood, LeftGood, MetaRight
  <2>3. CASE ListDone(r)
    <3>1. reader'[r].pc = "idle" /\ \A s \in Readers : s # r => reader'[s] = reader[s]
      BY <1>0, <2>3, FreshFacts DEF ListDone
    <3> QED
      BY <3>1 DEF StatGood, ListGood, LeftGood
  <2> QED
    BY <2>1, <2>2, <2>3
<1>3. /\ \A s \in Readers : s # r =>
           (StatGood(b, reader[s]) /\ ListGood(b, reader[s]) /\ LeftGood(b, reader[s]))'
      /\ StillThere(a)' /\ Did(b, a)' /\ Flushed' /\ Disturbs({})
  BY <1>1, <1>2, WorkerAlone
<1>4. \A p \in Paths : MetaGood(b, p)'
  BY <1>1, <1>3, MetaKept
<1>5. \A d \in DirPaths : DirGood(b, d)'
  BY <1>1, <1>3, DirKept
<1>6. \A s \in Readers :
        (StatGood(b, reader[s]) /\ ListGood(b, reader[s]) /\ LeftGood(b, reader[s]))'
  BY <1>2, <1>3
<1> QED
  BY <1>3, <1>4, <1>5, <1>6, HoldsFrom DEF Holds

\* What is stored is right, or marked.
LEMMA StoreKeeps ==
  ASSUME NEW b, NEW a, Typed, Holds(b, a), Disturbs({}), NEW p \in Paths, NEW e \in Entries, NEW dirty,
         StoreUnlessPending(p, e, dirty), UNCHANGED <<dirs, pending>>,
         e = None \/ MetaKey(p) \in dirty \/ MetaRight(b, p, e)
  PROVE  (\A q \in Paths : MetaGood(b, q)') /\ (\A d \in DirPaths : DirGood(b, d)')
<1>1. /\ \A q \in Paths : q # p => metas'[q] = metas[q]
      /\ \A key \in tainted : key # MetaKey(p) => key \in tainted'
      /\ \/ metas'[p] = metas[p] /\ tainted' = tainted
         \/ /\ metas'[p] = e
            /\ e = None \/ MetaKey(p) \in tainted' \/ (MetaKey(p) \notin dirty /\ pending[p] = None)
  BY StoreFacts DEF Typed
<1>2. ASSUME NEW q \in Paths PROVE MetaGood(b, q)'
  <2>1. CASE q # p
    <3>1. MetaKey(q) # MetaKey(p)
      BY <2>1, KeyFacts
    <3> QED
      BY <1>1, <2>1, <3>1, MetaKept
  <2>2. CASE q = p /\ metas'[p] = metas[p] /\ tainted' = tainted
    BY <2>2, MetaKept
  <2>3. CASE q = p /\ metas'[p] = e /\ (e = None \/ MetaKey(p) \in tainted')
    BY <2>3 DEF MetaGood
  <2>4. CASE q = p /\ metas'[p] = e /\ e # None /\ MetaKey(p) \notin dirty /\ pending[p] = None
    <3>1. pending'[p] = None
      BY <2>4
    <3>2. \A x : MetaRight(b, p, x) => MetaRight(b, p, x)'
      BY RightKept
    <3>3. MetaRight(b, p, e)'
      BY <2>4, <3>2
    <3> QED
      BY <2>4, <3>1, <3>3 DEF MetaGood, MetaRight
  <2> QED
    BY <1>1, <2>1, <2>2, <2>3, <2>4
<1>3. ASSUME NEW d \in DirPaths PROVE DirGood(b, d)'
  <2>1. DirKey(d) # MetaKey(p)
    BY KeyFacts
  <2> QED
    BY <1>1, <2>1, DirKept
<1> QED
  BY <1>2, <1>3

\* The worker stores its answer.
LEMMA StatStoreKeeps ==
  ASSUME NEW b, NEW a, Typed, Holds(b, a), NEW r \in Readers, StatStore(r)
  PROVE  Holds(b, a)'
<1>1. /\ reader[r].path \in Paths /\ reader[r].stat \in Entries
      /\ reader'[r].pc = "idle" /\ \A s \in Readers : s # r => reader'[s] = reader[s]
  BY StatStoreFacts
<1>2. /\ UNCHANGED <<server, pending, feed, main>> /\ UNCHANGED <<dirs, pending>>
      /\ StoreUnlessPending(reader[r].path, reader[r].stat, reader[r].dirty)
      /\ reader[r].pc = "stat"
  BY DEF StatStore
<1>3. /\ \A s \in Readers : s # r =>
           (StatGood(b, reader[s]) /\ ListGood(b, reader[s]) /\ LeftGood(b, reader[s]))'
      /\ StillThere(a)' /\ Did(b, a)' /\ Flushed' /\ Disturbs({})
  BY <1>1, <1>2, WorkerAlone
<1>4. \/ reader[r].stat = None \/ MetaKey(reader[r].path) \in reader[r].dirty
      \/ MetaRight(b, reader[r].path, reader[r].stat)
  BY <1>2 DEF Holds, StatGood
<1>5. (\A q \in Paths : MetaGood(b, q)') /\ (\A d \in DirPaths : DirGood(b, d)')
  BY <1>1, <1>2, <1>3, <1>4, StoreKeeps
<1>6. (StatGood(b, reader[r]) /\ ListGood(b, reader[r]) /\ LeftGood(b, reader[r]))'
  BY <1>1 DEF StatGood, ListGood, LeftGood
<1> QED
  BY <1>3, <1>5, <1>6, HoldsFrom DEF Holds

\* list_dir stores the attributes of one entry.
LEMMA ListEntryKeeps ==
  ASSUME NEW b, NEW a, Typed, Holds(b, a), NEW r \in Readers, ListEntry(r)
  PROVE  Holds(b, a)'
<1>1. PICK p \in DOMAIN reader[r].left :
        /\ p \in Paths /\ reader[r].left[p] \in Entries
        /\ StoreUnlessPending(p, reader[r].left[p], reader[r].dirty)
        /\ reader'[r].pc = "entries" /\ DOMAIN reader'[r].left = DOMAIN reader[r].left \ {p}
        /\ \A q \in DOMAIN reader'[r].left : reader'[r].left[q] = reader[r].left[q]
        /\ \A key \in reader[r].dirty : key # MetaKey(p) => key \in reader'[r].dirty
        /\ \A s \in Readers : s # r => reader'[s] = reader[s]
  BY ListEntryFacts
<1>2. UNCHANGED <<server, pending, feed, main>> /\ UNCHANGED <<dirs, pending>> /\ reader[r].pc = "entries"
  BY DEF ListEntry
<1>3. /\ \A s \in Readers : s # r =>
           (StatGood(b, reader[s]) /\ ListGood(b, reader[s]) /\ LeftGood(b, reader[s]))'
      /\ StillThere(a)' /\ Did(b, a)' /\ Flushed' /\ Disturbs({})
      /\ \A q \in Paths : \A e : MetaRight(b, q, e) => MetaRight(b, q, e)'
  BY <1>1, <1>2, WorkerAlone
<1>4. \A q \in DOMAIN reader[r].left :
        MetaKey(q) \in reader[r].dirty \/ MetaRight(b, q, reader[r].left[q])
  BY <1>2 DEF Holds, LeftGood
<1>5. (\A q \in Paths : MetaGood(b, q)') /\ (\A d \in DirPaths : DirGood(b, d)')
  BY <1>1, <1>2, <1>3, <1>4, StoreKeeps
<1>6. ASSUME NEW q \in DOMAIN reader'[r].left
      PROVE  MetaKey(q) \in reader'[r].dirty \/ MetaRight(b, q, reader[r].left[q])'
  <2>1. q # p /\ q \in DOMAIN reader[r].left /\ MetaKey(q) # MetaKey(p)
    BY <1>1, KeyFacts
  <2>2. q \in Paths
    BY <2>1 DEF Typed, ReadersTyped, Answers, Lefts
  <2>3. PICK e : e = reader[r].left[q] /\ e = reader'[r].left[q]
    BY <1>1
  <2>4. MetaKey(q) \in reader[r].dirty \/ MetaRight(b, q, e)
    BY <1>4, <2>1, <2>3
  <2>5. MetaKey(q) \in reader'[r].dirty \/ MetaRight(b, q, e)'
    BY <1>1, <1>3, <2>1, <2>2, <2>4
  <2> QED
    BY <2>3, <2>5 DEF MetaRight
<1>7. (StatGood(b, reader[r]) /\ ListGood(b, reader[r]) /\ LeftGood(b, reader[r]))'
  <2>1. LeftGood(b, reader[r])'
    BY <1>6 DEF LeftGood, MetaRight
  <2> QED
    BY <1>1, <2>1 DEF StatGood, ListGood
<1> QED
  BY <1>3, <1>5, <1>7, HoldsFrom DEF Holds

\* list_dir stores the listing.
LEMMA ListStoreKeeps ==
  ASSUME NEW b, NEW a, Typed, Holds(b, a), NEW r \in Readers, ListStore(r)
  PROVE  Holds(b, a)'
<1> DEFINE d == reader[r].path
<1>1. /\ d \in DirPaths
      /\ dirs'[d] = reader[r].list /\ \A c \in DirPaths : c # d => dirs'[c] = dirs[c]
      /\ \A key \in tainted : key # DirKey(d) => key \in tainted'
      /\ DirKey(d) \in reader[r].dirty => DirKey(d) \in tainted'
      /\ reader'[r].pc = "entries" /\ reader'[r].left = reader[r].left
      /\ \A key \in reader[r].dirty : key # DirKey(d) => key \in reader'[r].dirty
      /\ \A s \in Readers : s # r => reader'[s] = reader[s]
  BY ListStoreFacts
<1>2. UNCHANGED <<server, pending, feed, main>> /\ UNCHANGED <<metas, pending>> /\ reader[r].pc = "list"
  BY DEF ListStore
<1>3. /\ \A s \in Readers : s # r =>
           (StatGood(b, reader[s]) /\ ListGood(b, reader[s]) /\ LeftGood(b, reader[s]))'
      /\ StillThere(a)' /\ Did(b, a)' /\ Flushed' /\ Disturbs({})
      /\ \A q \in Paths : \A e : MetaRight(b, q, e) => MetaRight(b, q, e)'
      /\ \A c \in DirPaths : \A l : DirRight(b, c, l) => DirRight(b, c, l)'
  BY <1>1, <1>2, WorkerAlone
<1>4. /\ DirKey(d) \in reader[r].dirty \/ DirRight(b, d, reader[r].list)
      /\ \A q \in DOMAIN reader[r].left :
           MetaKey(q) \in reader[r].dirty \/ MetaRight(b, q, reader[r].left[q])
  BY <1>2 DEF Holds, ListGood, LeftGood
<1> HIDE DEF d
<1>5. ASSUME NEW q \in Paths PROVE MetaGood(b, q)'
  <2>1. MetaKey(q) # DirKey(d)
    BY KeyFacts
  <2> QED
    BY <1>1, <1>2, <1>3, <2>1, MetaKept
<1>6. ASSUME NEW c \in DirPaths PROVE DirGood(b, c)'
  <2>1. CASE c # d
    <3>1. DirKey(c) # DirKey(d)
      BY <2>1, KeyFacts
    <3> QED
      BY <1>1, <1>3, <2>1, <3>1, DirKept
  <2>2. CASE c = d
    <3>1. PICK f : f = d
      OBVIOUS
    <3>2. PICK l : l = reader[r].list
      OBVIOUS
    <3>3. DirKey(f) \in tainted' \/ DirRight(b, f, l)'
      BY <1>1, <1>3, <1>4, <3>1, <3>2
    <3>4. c = f /\ dirs'[c] = l
      BY <1>1, <2>2, <3>1, <3>2
    <3>5. DirKey(c) \in tainted' \/ DirRight(b, c, l)'
      BY <3>3, <3>4
    <3> QED
      BY <3>4, <3>5 DEF DirGood, DirRight
  <2> QED
    BY <2>1, <2>2
<1>7. ASSUME NEW q \in DOMAIN reader[r].left
      PROVE  MetaKey(q) \in reader'[r].dirty \/ MetaRight(b, q, reader[r].left[q])'
  <2>1. q \in Paths /\ MetaKey(q) # DirKey(d)
    BY KeyFacts DEF Typed, ReadersTyped, Answers, Lefts
  <2>2. PICK e : e = reader[r].left[q] /\ e = reader'[r].left[q]
    BY <1>1
  <2>3. MetaKey(q) \in reader'[r].dirty \/ MetaRight(b, q, e)'
    BY <1>1, <1>3, <1>4, <2>1, <2>2
  <2> QED
    BY <2>2, <2>3 DEF MetaRight
<1>8. (StatGood(b, reader[r]) /\ ListGood(b, reader[r]) /\ LeftGood(b, reader[r]))'
  <2>1. LeftGood(b, reader[r])'
    BY <1>1, <1>7 DEF LeftGood, MetaRight
  <2> QED
    BY <1>1, <2>1 DEF StatGood, ListGood
<1> QED
  BY <1>3, <1>5, <1>6, <1>8, HoldsFrom DEF Holds

\* The mutation is carried out: the trees before and after it are the new witnesses.
LEMMA DoneKeeps ==
  ASSUME NEW b, NEW a, Typed, Holds(b, a), ServerOp, Done
  PROVE  Inv'
<1>0. ReadersTyped /\ MainTyped /\ IsTree(server)
  BY DEF Typed, ServerTyped
<1>1. /\ IsTree(server') /\ Only(server, server', OpKeys(main) \cup Doubts(main)) /\ Deed(main, server, server', Doubts(main))
      /\ main'.pc = "metas" /\ main'.op = main.op /\ main'.path = main.path /\ main'.to = main.to
      /\ main'.old = server[main.path] /\ main'.new = server'[main.path]
      /\ main'.keys = OpKeys(main) /\ main'.dirty = Doubts(main) /\ main.path \in Paths
  BY DoneFacts
<1>2. main.pc = "server" /\ UNCHANGED <<metas, dirs, pending, feed>>
  BY ServerOpCases
<1>3. tainted' = tainted \cup Doubts(main) /\ Overtake(Doubts(main))
  BY DEF Done
<1>4. PICK c, n : c = server /\ n = server'
  OBVIOUS
<1>5. IsTree(c) /\ IsTree(n)
  BY <1>0, <1>1, <1>4
<1>6. \A key : Covered(key) <=> Covered(key)'
  BY <1>2 DEF Covered
<1>7. (\A p : ~MetaOpen(p)) /\ (\A d : ~DirOpen(d))
  BY <1>2 DEF MetaOpen, DirOpen
<1>8. (\A p : MetaOpen(p)' <=> MetaKey(p) \in OpKeys(main)) /\ (\A d : DirOpen(d)' <=> DirKey(d) \in OpKeys(main))
  BY <1>1 DEF MetaOpen, DirOpen
<1>l. \A p : ~Landing(p)'
  BY <1>1 DEF Landing
<1>9. \A p \in Paths : \A e : MetaRight(b, p, e) => MetaRight(c, p, e)' \/ MetaKey(p) \in Doubts(main)
  <2> SUFFICES ASSUME NEW p \in Paths, NEW e, MetaRight(b, p, e), MetaKey(p) \notin Doubts(main)
               PROVE  MetaRight(c, p, e)'
    OBVIOUS
  <2>1. e = server[p] \/ Covered(MetaKey(p))'
    BY <1>6, <1>7 DEF MetaRight
  <2>2. server[p] = server'[p] \/ MetaOpen(p)'
    BY <1>1, <1>8 DEF Only
  <2>3. e = server'[p] \/ Covered(MetaKey(p))' \/ (MetaOpen(p)' /\ e = c[p])
    BY <1>4, <2>1, <2>2
  <2> QED
    BY <2>3 DEF MetaRight
<1>10. \A d \in DirPaths : \A l : DirRight(b, d, l) => DirRight(c, d, l)' \/ DirKey(d) \in Doubts(main)
  <2> SUFFICES ASSUME NEW d \in DirPaths, NEW l, DirRight(b, d, l), DirKey(d) \notin Doubts(main)
               PROVE  DirRight(c, d, l)'
    OBVIOUS
  <2>1. Lists(server, d, l) \/ Covered(DirKey(d))'
    BY <1>6, <1>7 DEF DirRight
  <2>2. SameDir(server, server', d) \/ DirOpen(d)'
    BY <1>1, <1>8 DEF Only
  <2>3. Lists(server', d, l) \/ Covered(DirKey(d))' \/ (DirOpen(d)' /\ Lists(c, d, l))
    BY <1>4, <2>1, <2>2 DEF Lists, SameDir
  <2>4. (Lists(server', d, l) => Lists(server, d, l)') /\ (Lists(c, d, l) => Lists(c, d, l)')
    BY DEF Lists, Listing, DirsOf
  <2> QED
    BY <2>3, <2>4 DEF DirRight
<1>11. ASSUME NEW p \in Paths PROVE MetaGood(c, p)'
  <2>1. MetaGood(b, p)
    BY DEF Holds
  <2>2. CASE MetaKey(p) \in Doubts(main)
    BY <1>3, <2>2 DEF MetaGood
  <2>3. CASE MetaKey(p) \notin Doubts(main)
    <3>1. PICK e : e = metas[p] /\ e = metas'[p]
      BY <1>2
    <3>2. MetaRight(b, p, e) => MetaRight(c, p, e)'
      BY <1>9, <2>3
    <3>3. MetaRight(b, p, metas[p]) => MetaRight(c, p, metas[p])'
      BY <3>1, <3>2 DEF MetaRight
    <3> QED
      BY <1>2, <1>3, <1>6, <1>l, <2>1, <3>3 DEF MetaGood
  <2> QED
    BY <2>2, <2>3
<1>12. ASSUME NEW d \in DirPaths PROVE DirGood(c, d)'
  <2>1. DirGood(b, d)
    BY DEF Holds
  <2>2. CASE DirKey(d) \in Doubts(main)
    BY <1>3, <2>2 DEF DirGood
  <2>3. CASE DirKey(d) \notin Doubts(main)
    <3>1. PICK l : l = dirs[d] /\ l = dirs'[d]
      BY <1>2
    <3>2. DirRight(b, d, l) => DirRight(c, d, l)'
      BY <1>10, <2>3
    <3>3. DirRight(b, d, dirs[d]) => DirRight(c, d, dirs[d])'
      BY <3>1, <3>2 DEF DirRight
    <3> QED
      BY <1>2, <1>3, <2>1, <3>3 DEF DirGood
  <2> QED
    BY <2>2, <2>3
<1>13. ASSUME NEW r \in Readers
       PROVE  (StatGood(c, reader[r]) /\ ListGood(c, reader[r]) /\ LeftGood(c, reader[r]))'
  <2>1. Overtaken(reader[r], reader'[r], Doubts(main))
    BY <1>0, <1>3, OvertakeFacts
  <2>2. StatGood(b, reader[r]) /\ ListGood(b, reader[r]) /\ LeftGood(b, reader[r])
    BY DEF Holds
  <2>3. PICK D : D = Doubts(main)
    OBVIOUS
  <2> QED
    BY <1>0, <1>9, <1>10, <2>1, <2>2, <2>3, AnswersKept
<1>14. StillThere(n)'
  <2>1. \A p \in Paths : server'[p] = n[p]
    BY <1>4
  <2>2. \A d : SameDir(server, n, d)'
    BY <1>4 DEF SameDir, Listing, DirsOf
  <2> QED
    BY <2>1, <2>2 DEF StillThere
<1>15. Did(c, n)'
  <2>1. Deed(main, c, n, Doubts(main))
    BY <1>1, <1>4
  <2>2. Siblings(main, c, n, main.path) => Siblings(main, c, n, main.path)'
    BY <1>1 DEF Siblings, DirsOf
  <2>3. Siblings(main, c, n, main.to) => Siblings(main, c, n, main.to)'
    BY <1>1 DEF Siblings, DirsOf
  <2>4. Deed(main, c, n, main.dirty)'
    BY <1>1, <2>1, <2>2, <2>3 DEF Deed
  <2>5. main'.old = c[main'.path] /\ main'.new = n[main'.path]
    BY <1>1, <1>4
  <2> QED
    BY <2>4, <2>5 DEF Did
<1>16. Flushed'
  <2>1. PICK p, to : p = main.path /\ to = main.to
    OBVIOUS
  <2>2. p \in Paths /\ Under(p) \subseteq Paths /\ Under(to) \subseteq Paths
    BY <1>1, <2>1 DEF Under
  <2>3. main.op \in {"create", "mkdir", "chmod", "truncate"} => Unwritten({p}) \subseteq Doubts(main)
    BY <2>1 DEF Doubts
  <2>4. main.op = "rename" => Unwritten(Under(p) \cup Under(to)) \subseteq Doubts(main)
    BY <2>1 DEF Doubts
  <2>5. /\ pending[p] = None \/ MetaKey(p) \in Unwritten({p})
        /\ \A q \in Under(p) \cup Under(to) :
             pending[q] = None \/ MetaKey(q) \in Unwritten(Under(p) \cup Under(to))
    BY <2>2, UnwrittenFacts
  <2>6. /\ main.op \in {"create", "mkdir", "chmod", "truncate"} => pending[p] = None \/ MetaKey(p) \in Doubts(main)
        /\ main.op = "rename" =>
             \A q \in Under(p) \cup Under(to) : pending[q] = None \/ MetaKey(q) \in Doubts(main)
    BY <2>3, <2>4, <2>5
  <2> QED
    BY <1>1, <1>2, <2>1, <2>6 DEF Flushed, Settled
<1>17. Holds(c, n)'
  BY <1>5, <1>11, <1>12, <1>13, <1>14, <1>15, <1>16, HoldsFrom
<1>18. c \in [Paths -> Entries] /\ n \in [Paths -> Entries]
  BY <1>5 DEF IsTree
<1> QED
  BY <1>17, <1>18 DEF Inv, Entries

-----------------------------------------------------------------------------
(* The mutation reaches the caches. *)

\* The keys of the mutation, cache by cache.
LEMMA OpPartFacts ==
  /\ \A p : MetaKey(p) \in OpMetas <=> MetaKey(p) \in main.keys
  /\ \A d : DirKey(d) \in OpDirs <=> DirKey(d) \in main.keys
  /\ \A p : MetaKey(p) \notin OpDirs
  /\ \A d : DirKey(d) \notin OpMetas
  BY DEF OpMetas, OpDirs, MetaKey, DirKey

\* Where rename takes attributes from.
LEMMA MovedMetas ==
  ASSUME metas \in [Paths -> Entries], NEW from \in Paths, NEW to \in Paths, Apart(from, to)
  PROVE  /\ \A q \in Under(to) : /\ Moved(to, from, q) \in Under(from)
                                 /\ MoveTree(metas, from, to, None)[q] = metas[Moved(to, from, q)]
         /\ \A q \in Under(from) : MoveTree(metas, from, to, None)[q] = None
         /\ \A q \in Paths : q \notin Under(from) \cup Under(to) =>
              MoveTree(metas, from, to, None)[q] = metas[q]
<1>1. Under(from) \cap Under(to) = {} /\ Apart(to, from)
  BY ApartFacts
<1>2. Under(from) \subseteq Paths /\ Under(to) \subseteq Paths
  BY UnderFacts
<1>3. \A q \in Under(to) : Moved(to, from, q) \in Under(from)
  BY <1>1, MovedFacts
<1>4. \A q \in Paths : MoveTree(metas, from, to, None)[q] =
        IF q \in Under(to)
        THEN IF Moved(to, from, q) \in Paths THEN metas[Moved(to, from, q)] ELSE None
        ELSE IF q \in Under(from) THEN None ELSE metas[q]
  BY DEF MoveTree
<1> QED
  BY <1>1, <1>2, <1>3, <1>4

\* From the attributes to the listings.
LEMMA GoesToDirs ==
  ASSUME NEW b, NEW a, MainTyped, Holds(b, a), main.pc = "metas", main' = [main EXCEPT !.pc = "dirs"],
         UNCHANGED <<server, pending, feed>>
  PROVE  /\ StillThere(a)' /\ Did(b, a)' /\ Flushed'
         /\ main'.pc = "dirs" /\ main'.keys = main.keys
<1>1. /\ main'.pc = "dirs" /\ main'.op = main.op /\ main'.path = main.path /\ main'.to = main.to
      /\ main'.old = main.old /\ main'.new = main.new /\ main'.keys = main.keys
      /\ main'.dirty = main.dirty
  BY DEF MainTyped, Mutations
<1>2. Working
  BY DEF Working
<1>3. \A key : Covered(key) => Covered(key)'
  BY DEF Covered
<1>4. StillThere(a)'
  <2>1. \A p \in Paths : MetaKey(p) \in main.keys =>
          server[p] = a[p] \/ MetaKey(p) \in main.dirty \/ Covered(MetaKey(p))
    BY <1>2 DEF Holds, StillThere
  <2>2. \A d \in DirPaths : DirKey(d) \in main.keys =>
          SameDir(server, a, d) \/ DirKey(d) \in main.dirty \/ Covered(DirKey(d))
    BY <1>2 DEF Holds, StillThere
  <2>3. \A d : SameDir(server, a, d) => SameDir(server, a, d)'
    BY DEF SameDir, Listing, DirsOf
  <2> QED
    BY <1>1, <1>3, <2>1, <2>2, <2>3 DEF StillThere
<1>5. Did(b, a)'
  <2>0. Doubted => Doubted'
    BY <1>1 DEF Doubted
  <2>1. \/ Doubted
        \/ main.old = b[main.path] /\ main.new = a[main.path] /\ Deed(main, b, a, main.dirty)
    BY <1>2 DEF Holds, Did
  <2>2. Siblings(main, b, a, main.path) => Siblings(main, b, a, main.path)'
    BY <1>1 DEF Siblings, DirsOf
  <2>3. Siblings(main, b, a, main.to) => Siblings(main, b, a, main.to)'
    BY <1>1 DEF Siblings, DirsOf
  <2>4. Deed(main, b, a, main.dirty) => Deed(main, b, a, main.dirty)'
    BY <1>1, <2>2, <2>3 DEF Deed
  <2> QED
    BY <1>1, <2>0, <2>1, <2>4 DEF Did
<1>6. Flushed'
  BY <1>1 DEF Flushed
<1> QED
  BY <1>1, <1>4, <1>5, <1>6

\* The facts that the update of the attributes starts from.
Vouched(a, p) ==
  server[p] = a[p] \/ MetaKey(p) \in main.dirty \/ Covered(MetaKey(p))

\* A create or mkdir stores what the server answered.
LEMMA NewEntryGood ==
  ASSUME NEW b, NEW a, Typed, Holds(b, a), MutateMetas, main.op \in {"create", "mkdir"},
         NEW p \in Paths, MetaKey(p) \in main.keys
  PROVE  MetaGood(b, p)'
<1>0. MainTyped /\ CachesTyped /\ main.pc = "metas" /\ main.path \in Paths /\ main.keys = OpKeys(main)
  BY DEF Typed, MutateMetas, MainTyped
<1>1. p = main.path
  BY <1>0, OpKeysAre, MainAsked, KeyFacts
<1>2. metas' = [metas EXCEPT ![main.path] = main.new]
  BY DEF MutateMetas, NewMetas
<1>3. metas'[p] = main.new
  BY <1>0, <1>1, <1>2 DEF CachesTyped
<1>4. MetaKey(p) \in main.dirty \/ (main.new = a[p] /\ Vouched(a, p))
  BY <1>0, <1>1 DEF Holds, Did, Doubted, StillThere, Working, Vouched
<1>5. pending[p] = None \/ MetaKey(p) \in main.dirty
  BY <1>0, <1>1 DEF Holds, Flushed, Settled
<1>6. MetaKey(p) \in main.dirty => MetaKey(p) \in tainted'
  <2>1. SuspectMetas = {MetaKey(main.path)} \cap main.dirty
    BY DEF SuspectMetas, MetaKey
  <2> QED
    BY <1>1, <2>1 DEF MutateMetas
<1>7. UNCHANGED <<server, pending, feed>>
  BY DEF MutateMetas
<1>8. Covered(MetaKey(p)) => Covered(MetaKey(p))'
  BY <1>7 DEF Covered
<1> QED
  BY <1>3, <1>4, <1>5, <1>6, <1>7, <1>8 DEF MetaGood, MetaRight, Vouched

\* setattr replaces the attributes it has found before, and no others.
LEMMA SetattrGood ==
  ASSUME NEW b, NEW a, Typed, Holds(b, a), MutateMetas, main.op \in {"chmod", "truncate"},
         NEW p \in Paths, MetaKey(p) \in main.keys
  PROVE  MetaGood(b, p)'
<1>0. MainTyped /\ CachesTyped /\ main.pc = "metas" /\ main.path \in Paths /\ main.keys = OpKeys(main)
  BY DEF Typed, MutateMetas, MainTyped
<1>1. p = main.path
  BY <1>0, OpKeysAre, MainAsked, KeyFacts
<1>2. metas' = [metas EXCEPT ![main.path] = IF @ = main.old /\ @ # None THEN main.new
                                            ELSE IF @ = None /\ main.op = "truncate" THEN main.new
                                            ELSE @]
  BY DEF MutateMetas, NewMetas
<1>3. metas'[p] = IF metas[p] = main.old /\ metas[p] # None THEN main.new
                  ELSE IF metas[p] = None /\ main.op = "truncate" THEN main.new
                  ELSE metas[p]
  BY <1>0, <1>1, <1>2 DEF CachesTyped
<1>4. MetaKey(p) \in main.dirty \/ (main.old = b[p] /\ main.new = a[p] /\ Vouched(a, p))
  BY <1>0, <1>1 DEF Holds, Did, Doubted, StillThere, Working, Vouched
<1>5. pending[p] = None \/ MetaKey(p) \in main.dirty
  BY <1>0, <1>1 DEF Holds, Flushed, Settled
<1>6. MetaKey(p) \in main.dirty \/ MetaKey(p) \in tainted \/ (metas[p] = None /\ main.op = "truncate")
      => MetaKey(p) \in tainted'
  <2>1. SuspectMetas = {key \in {MetaKey(main.path)} :
                          key \in main.dirty \/ key \in tainted
                          \/ (metas[main.path] = None /\ main.op = "truncate")}
    BY DEF SuspectMetas, MetaKey
  <2> QED
    BY <1>1, <2>1 DEF MutateMetas
<1>7. UNCHANGED <<server, pending, feed>>
  BY DEF MutateMetas
<1>8. Covered(MetaKey(p)) => Covered(MetaKey(p))'
  BY <1>7 DEF Covered
<1>9. metas[p] = None \/ MetaKey(p) \in tainted \/ Covered(MetaKey(p))
      \/ metas[p] = server[p] \/ metas[p] = b[p] \/ MetaKey(p) \in main.dirty
  <2>1. MetaGood(b, p)
    BY DEF Holds
  <2> QED
    BY <1>5, <2>1 DEF MetaGood, MetaRight
<1>10. metas'[p] = None \/ MetaKey(p) \in tainted' \/ Covered(MetaKey(p))' \/ metas'[p] = server'[p]
  BY <1>3, <1>4, <1>6, <1>7, <1>8, <1>9 DEF Vouched
<1> QED
  BY <1>5, <1>6, <1>7, <1>10 DEF MetaGood, MetaRight

\* rename moves attributes along with the entries.
LEMMA MovedGood ==
  ASSUME NEW b, NEW a, Typed, Holds(b, a), MutateMetas, main.op = "rename",
         NEW p \in Paths, MetaKey(p) \in main.keys
  PROVE  MetaGood(b, p)'
<1> DEFINE from == main.path
           to == main.to
           s == Moved(to, from, p)
<1>0. MainTyped /\ main.pc = "metas" /\ from \in Paths /\ to \in Paths /\ Apart(from, to) /\ main.keys = OpKeys(main)
  BY DEF Typed, MutateMetas, MainTyped
<1>1. p \in Under(from) \/ p \in Under(to)
  BY <1>0, OpKeysAre, MainAsked, TreeKeyFacts
<1>2. metas' = MoveTree(metas, from, to, None) /\ metas \in [Paths -> Entries]
  BY DEF MutateMetas, NewMetas, Typed, CachesTyped
<1>3. UNCHANGED <<server, pending, feed>> /\ tainted' = (tainted \ OpMetas) \cup SuspectMetas
  BY DEF MutateMetas, OpMetas
<1>4. \A key : Covered(key) <=> Covered(key)'
  BY <1>3 DEF Covered
<1>5. CASE p \in Under(from)
  BY <1>0, <1>2, <1>5, MovedMetas DEF MetaGood
<1>6. CASE p \in Under(to)
  <2>1. s \in Under(from) /\ s \in Paths /\ metas'[p] = metas[s]
    BY <1>0, <1>2, <1>6, MovedMetas, UnderFacts
  <2>2. MetaKey(p) \in main.dirty \/ MetaKey(s) \in tainted \cup main.dirty \/ Covered(MetaKey(s))
        => MetaKey(p) \in tainted'
    <3>1. SuspectMetas =
            {key \in MetaKeys(Under(to)) :
               \/ key \in main.dirty
               \/ MetaKey(Moved(to, from, key[2])) \in tainted \cup main.dirty
               \/ Covered(MetaKey(Moved(to, from, key[2])))}
      BY DEF SuspectMetas, MetaKey
    <3>2. MetaKey(p) \in MetaKeys(Under(to)) /\ MetaKey(p)[2] = p
      BY <1>6, KeyFacts DEF MetaKey
    <3> QED
      BY <1>3, <3>1, <3>2
  <2>3. \/ MetaKey(s) \in main.dirty \/ MetaKey(p) \in main.dirty
        \/ pending[s] = None /\ pending[p] = None
    BY <1>0, <1>6, <2>1 DEF Holds, Flushed, Settled
  <2>5. MetaKey(s) \in main.keys
    BY <1>0, <2>1, OpKeysAre, MainAsked, TreeKeyFacts
  <2>4. \/ MetaKey(s) \in main.dirty
        \/ /\ \A q \in Under(from) : a[q] = None
           /\ TreeKeys(to) \subseteq main.dirty \/ \A q \in Under(to) : a[q] = b[Moved(to, from, q)]
    BY <1>0, <2>5 DEF Holds, Did, Doubted, Working, Deed
  <2>6. Vouched(a, s) /\ Vouched(a, p)
    BY <1>0, <2>1, <2>5 DEF Holds, StillThere, Working, Vouched
  <2>7. MetaKey(p) \in main.dirty \/ MetaKey(s) \in main.dirty \/ a[p] = b[s]
    BY <1>0, <1>6, <2>4, TreeKeyFacts
  <2>8. metas[s] = None \/ MetaKey(s) \in tainted \/ Covered(MetaKey(s))
        \/ metas[s] = server[s] \/ metas[s] = b[s]
        \/ MetaKey(s) \in main.dirty \/ MetaKey(p) \in main.dirty
    <3>1. MetaGood(b, s)
      BY <2>1 DEF Holds
    <3> QED
      BY <2>3, <3>1 DEF MetaGood, MetaRight
  <2>9. a[s] = None \/ MetaKey(s) \in main.dirty
    BY <2>1, <2>4
  <2> HIDE DEF s
  <2>10. metas'[p] = None \/ MetaKey(p) \in tainted' \/ Covered(MetaKey(p))' \/ metas'[p] = server'[p]
    BY <1>3, <1>4, <2>1, <2>2, <2>6, <2>7, <2>8, <2>9 DEF Vouched
  <2> QED
    BY <1>3, <2>2, <2>3, <2>10 DEF MetaGood, MetaRight
<1> QED
  BY <1>1, <1>5, <1>6

\* Attributes that the mutation is not about stay.
LEMMA OtherMetas ==
  ASSUME Typed, MutateMetas, NEW p \in Paths, MetaKey(p) \notin main.keys
  PROVE  metas'[p] = metas[p]
<1>0. /\ MainTyped /\ CachesTyped /\ main.pc = "metas" /\ main.path \in Paths /\ main.keys = OpKeys(main)
      /\ metas' = NewMetas /\ main.op \in Ops /\ metas \in [Paths -> Entries]
  BY DEF Typed, MutateMetas, MainTyped, CachesTyped
<1>1. CASE main.op \in {"create", "mkdir"}
  <2>1. p # main.path
    BY <1>0, <1>1, OpKeysAre, MainAsked
  <2> QED
    BY <1>0, <1>1, <2>1 DEF NewMetas
<1>2. CASE main.op \in {"chmod", "truncate"}
  <2>1. p # main.path
    BY <1>0, <1>2, OpKeysAre, MainAsked
  <2> QED
    BY <1>0, <1>2, <2>1 DEF NewMetas
<1>3. CASE main.op \in {"unlink", "rmdir"}
  <2>1. MetaKey(p) \notin TreeKeys(main.path)
    BY <1>0, <1>3, OpKeysAre, MainAsked
  <2>2. NewMetas = DropMetas(TreeKeys(main.path))
    BY <1>3 DEF NewMetas
  <2> QED
    BY <1>0, <2>1, <2>2, DropFacts
<1>4. CASE main.op = "rename"
  <2>1. main.to \in Paths /\ Apart(main.path, main.to)
    BY <1>0, <1>4 DEF MainTyped
  <2>2. p \notin Under(main.path) \cup Under(main.to)
    BY <1>0, <1>4, <2>1, OpKeysAre, MainAsked, TreeKeyFacts
  <2>3. NewMetas = MoveTree(metas, main.path, main.to, None)
    BY <1>4 DEF NewMetas
  <2> QED
    BY <1>0, <2>1, <2>2, <2>3, MovedMetas
<1> QED
  BY <1>0, <1>1, <1>2, <1>3, <1>4 DEF Ops

\* The attributes follow the mutation.
LEMMA MutateMetasKeeps ==
  ASSUME NEW b, NEW a, Typed, Holds(b, a), MutateMetas
  PROVE  Holds(b, a)'
<1> DEFINE K == OpMetas
<1>0. /\ MainTyped /\ CachesTyped /\ ReadersTyped /\ main.pc = "metas" /\ main.path \in Paths
      /\ main.keys = OpKeys(main) /\ main.op \in Ops
  BY DEF Typed, MutateMetas, MainTyped
<1>1. /\ UNCHANGED <<server, pending, feed>> /\ UNCHANGED dirs
      /\ tainted' = (tainted \ K) \cup SuspectMetas /\ Overtake(K)
      /\ main' = IF main.op \in {"chmod", "truncate"} THEN Idle ELSE [main EXCEPT !.pc = "dirs"]
  BY DEF MutateMetas, OpMetas
<1> HIDE DEF K
<1>2. \A key : Covered(key) => Covered(key)'
  BY <1>1 DEF Covered
<1>3. StillThere(a)' /\ Did(b, a)' /\ Flushed'
  <2>1. CASE main.op \in {"chmod", "truncate"}
    <3>1. main'.pc = "idle"
      BY <1>1, <2>1, IdleFacts
    <3>2. ~Working' /\ Flushed'
      BY <3>1 DEF Working, Flushed
    <3> QED
      BY <3>2, NoMutation
  <2>2. CASE main.op \notin {"chmod", "truncate"}
    BY <1>0, <1>1, <2>2, GoesToDirs
  <2> QED
    BY <2>1, <2>2
<1>4. Disturbs(K)
  <2>1. Only(server, server', K)
    BY <1>1, OnlySame
  <2>2. \A p : MetaOpen(p) => MetaKey(p) \in K
    BY OpPartFacts DEF MetaOpen, K
  <2>3. ASSUME NEW d, DirOpen(d) PROVE DirOpen(d)'
    <3>1. DirKey(d) \in main.keys
      BY <2>3 DEF DirOpen
    <3>2. main.op \notin {"chmod", "truncate"}
      BY <1>0, <3>1, OpKeysAre, MainAsked, KeyFacts
    <3>3. main'.pc = "dirs" /\ main'.keys = main.keys
      BY <1>0, <1>1, <3>2, GoesToDirs
    <3> QED
      BY <3>1, <3>3 DEF DirOpen
  <2>4. ASSUME NEW p \in Paths, Landing(p)' PROVE MetaKey(p) \in K
    <3>1. main.op = "rename" /\ main.to = p
      <4>1. CASE main.op \in {"chmod", "truncate"}
        BY <1>1, <2>4, <4>1, IdleFacts DEF Landing
      <4>2. CASE main.op \notin {"chmod", "truncate"}
        BY <1>0, <1>1, <2>4, <4>2 DEF Landing, MainTyped, Mutations
      <4> QED
        BY <4>1, <4>2
    <3>2. MetaKey(p) \in main.keys
      <4>1. p \in Under(p)
        BY UnderFacts
      <4>2. MetaKey(p) \in TreeKeys(p)
        BY <4>1, TreeKeyFacts
      <4> QED
        BY <1>0, <3>1, <4>2, OpKeysAre, MainAsked
    <3> QED
      BY <3>2, OpPartFacts DEF K
  <2> QED
    BY <1>2, <2>1, <2>2, <2>3, <2>4 DEF Disturbs
<1>5. ASSUME NEW p \in Paths PROVE MetaGood(b, p)'
  <2>1. CASE MetaKey(p) \notin main.keys
    <3>1. MetaKey(p) \notin K
      BY <2>1, OpPartFacts DEF K
    <3>2. metas'[p] = metas[p]
      BY <2>1, OtherMetas
    <3> QED
      BY <1>1, <1>4, <3>1, <3>2, MetaKept
  <2>2. CASE MetaKey(p) \in main.keys /\ main.op \in {"unlink", "rmdir"}
    <3>1. metas' = DropMetas(TreeKeys(main.path))
      BY <2>2 DEF MutateMetas, NewMetas
    <3>2. MetaKey(p) \in TreeKeys(main.path)
      BY <1>0, <2>2, OpKeysAre, MainAsked
    <3>3. metas'[p] = None
      BY <1>0, <3>1, <3>2, DropFacts
    <3> QED
      BY <3>3 DEF MetaGood
  <2> QED
    BY <1>0, <2>1, <2>2, NewEntryGood, SetattrGood, MovedGood DEF Ops
<1>6. ASSUME NEW d \in DirPaths PROVE DirGood(b, d)'
  <2>1. DirKey(d) \notin K
    BY OpPartFacts DEF K
  <2> QED
    BY <1>1, <1>4, <2>1, DirKept
<1>7. ASSUME NEW r \in Readers
      PROVE  (StatGood(b, reader[r]) /\ ListGood(b, reader[r]) /\ LeftGood(b, reader[r]))'
  BY <1>0, <1>1, <1>4, OvertakeFacts, ReadersKept
<1> QED
  BY <1>3, <1>5, <1>6, <1>7, HoldsFrom DEF Holds

\* A listing, entry by entry.
LEMMA ListsIf ==
  ASSUME NEW t \in [Paths -> Entries], NEW d \in DirPaths, d \in DirsOf(t),
         NEW l \in [Children(d) -> Kinds], \A q \in Children(d) : l[q] = Kind(t[q])
  PROVE  Lists(t, d, l)
<1>1. l = Listing(t, d)
  BY DEF Listing
<1> QED
  BY <1>1 DEF Lists

\* The listing of a parent, before the mutation gets there: right but for the
\* entries of the mutation.
LEMMA ParentListing ==
  ASSUME NEW b, NEW a, Typed, Holds(b, a), main.pc = "dirs", NEW p \in Paths, Siblings(main, b, a, p),
         DirKey(Front(p)) \in main.keys, DirKey(Front(p)) \notin main.dirty,
         DirKey(Front(p)) \notin tainted, ~Covered(DirKey(Front(p))),
         dirs[Front(p)] # NoListing
  PROVE  /\ Front(p) \in DirsOf(server)
         /\ \A q \in Children(Front(p)) : Kind(server[q]) = Kind(a[q])
         /\ \A q \in Children(Front(p)) :
              q \notin {main.path, main.to} => dirs[Front(p)][q] = Kind(server[q])
<1> DEFINE f == Front(p)
<1>0. f \in DirPaths
  BY ParentInDirPaths
<1>1. SameDir(server, a, f)
  BY <1>0 DEF Holds, StillThere, Working
<1>2. Lists(server, f, dirs[f]) \/ Lists(b, f, dirs[f])
  BY <1>0 DEF Holds, DirGood, DirRight
<1>3. f \in DirsOf(b) => f \in DirsOf(a)
  BY DEF Siblings
<1>4. \A q \in Children(f) : q \notin {main.path, main.to} => a[q] = b[q]
  BY DEF Siblings
<1> HIDE DEF f
<1>5. f \in DirsOf(server)
  BY <1>1, <1>2, <1>3 DEF Lists, SameDir
<1>6. ASSUME NEW q \in Children(f) PROVE Kind(server[q]) = Kind(a[q])
  <2>1. Listing(server, f)[q] = Listing(a, f)[q]
    BY <1>1 DEF SameDir
  <2> QED
    BY <2>1 DEF Listing
<1>7. ASSUME NEW q \in Children(f), q \notin {main.path, main.to} PROVE dirs[f][q] = Kind(server[q])
  <2>1. CASE Lists(server, f, dirs[f])
    BY <2>1 DEF Lists, Listing
  <2>2. CASE Lists(b, f, dirs[f])
    <3>1. dirs[f][q] = Kind(b[q])
      BY <2>2 DEF Lists, Listing
    <3> QED
      BY <1>4, <1>6, <1>7, <3>1
  <2> QED
    BY <1>2, <2>1, <2>2
<1> QED
  BY <1>5, <1>6, <1>7 DEF f

\* One entry of the parent's listing is replaced by what the mutation left there.
LEMMA RelistGood ==
  ASSUME NEW b, NEW a, Typed, Holds(b, a), MutateDirs, NEW p \in Paths, Siblings(main, b, a, p),
         DirKey(Front(p)) \in main.keys,
         DirKey(Front(p)) \in tainted \cup main.dirty => DirKey(Front(p)) \in tainted',
         NEW k \in Kinds, k = Kind(a[p]),
         \A q \in Children(Front(p)) : q \in {main.path, main.to} => q = p,
         dirs[Front(p)] = NoListing => dirs'[Front(p)] = NoListing,
         dirs[Front(p)] # NoListing => dirs'[Front(p)] = [dirs[Front(p)] EXCEPT ![p] = k]
  PROVE  DirGood(b, Front(p))'
<1> DEFINE f == Front(p)
<1>0. f \in DirPaths /\ main.pc = "dirs" /\ UNCHANGED <<server, feed>> /\ p \in Children(f)
  BY ParentInDirPaths DEF MutateDirs
<1>1. Covered(DirKey(f)) => Covered(DirKey(f))'
  BY <1>0 DEF Covered
<1>2. CASE dirs[f] = NoListing \/ DirKey(f) \in tainted \cup main.dirty \/ Covered(DirKey(f))
  BY <1>1, <1>2 DEF DirGood, DirRight
<1>3. CASE ~(dirs[f] = NoListing \/ DirKey(f) \in tainted \cup main.dirty \/ Covered(DirKey(f)))
  <2>1. /\ f \in DirsOf(server)
        /\ \A q \in Children(f) : Kind(server[q]) = Kind(a[q])
        /\ \A q \in Children(f) : q \notin {main.path, main.to} => dirs[f][q] = Kind(server[q])
    BY <1>0, <1>3, ParentListing
  <2>2. dirs[f] \in [Children(f) -> Kinds]
    BY <1>0, <1>3 DEF Typed, CachesTyped, AreListings
  <2>3. dirs'[f] = [dirs[f] EXCEPT ![p] = k]
    BY <1>3
  <2> HIDE DEF f
  <2>4. /\ dirs'[f] \in [Children(f) -> Kinds] /\ dirs'[f][p] = k
        /\ \A q \in Children(f) : q # p => dirs'[f][q] = dirs[f][q]
    BY <1>0, <2>2, <2>3
  <2>5. \A q \in Children(f) : dirs'[f][q] = Kind(server[q])
    BY <1>0, <2>1, <2>4 DEF f
  <2>6. server \in [Paths -> Entries]
    BY DEF Typed, ServerTyped, IsTree
  <2>7. Lists(server, f, dirs'[f])
    BY <1>0, <2>1, <2>4, <2>5, <2>6, ListsIf
  <2>8. PICK l, g : l = dirs'[f] /\ g = f
    OBVIOUS
  <2>9. Lists(server, g, l)'
    BY <1>0, <2>7, <2>8 DEF Lists, Listing, DirsOf
  <2>10. DirGood(b, g)'
    BY <2>8, <2>9 DEF DirGood, DirRight
  <2> QED
    BY <2>8, <2>10 DEF f
<1> QED
  BY <1>2, <1>3

\* The listings after create and mkdir.
LEMMA MadeDirsGood ==
  ASSUME NEW b, NEW a, Typed, Holds(b, a), MutateDirs, main.op \in {"create", "mkdir"},
         NEW d \in DirPaths, DirKey(d) \in main.keys
  PROVE  DirGood(b, d)'
<1>0. /\ MainTyped /\ main.pc = "dirs" /\ main.path \in Paths /\ main.keys = OpKeys(main)
      /\ main.to = Root /\ AreListings(dirs) /\ dirs' = NewDirs
      /\ tainted' = (tainted \ WholeDirs) \cup SuspectDirs /\ UNCHANGED <<server, feed>>
      /\ (main.op = "mkdir" => main.path \in DirPaths)
  BY DEF Typed, MutateDirs, MainTyped, CachesTyped
<1>1. PICK p, k : p = main.path /\ k = IF main.op = "mkdir" THEN "dir" ELSE "file"
  OBVIOUS
<1>2. p \in Paths /\ k \in Kinds /\ p # Root /\ Front(p) \in DirPaths
  BY <1>0, <1>1, PathsAssumption, ParentInDirPaths DEF Kinds
<1>3. DirKey(d) \notin main.dirty =>
        /\ Siblings(main, b, a, p) /\ Kind(a[p]) = k
        /\ main.op = "mkdir" => DirKey(p) \in main.dirty \/ \A q \in Children(p) : a[q] = None
  BY <1>0, <1>1 DEF Holds, Did, Doubted, Working, Deed
<1>4. d = Front(p) \/ (main.op = "mkdir" /\ d = p)
  BY <1>0, <1>1, OpKeysAre, MainAsked, KeyFacts
<1>5. Front(p) # p
  BY <1>2, UnderFacts
<1>6. /\ dirs'[Front(p)] = Relist(dirs, p, k)[Front(p)]
      /\ main.op = "mkdir" => dirs'[p] = [q \in Children(p) |-> "none"]
  <2>1. CASE main.op = "create"
    BY <1>0, <1>1, <2>1 DEF NewDirs
  <2>2. CASE main.op = "mkdir"
    <3>1. dirs' = [Relist(dirs, p, "dir") EXCEPT ![p] = [q \in Children(p) |-> "none"]]
      BY <1>0, <1>1, <2>2 DEF NewDirs
    <3>2. DOMAIN Relist(dirs, p, "dir") = DirPaths /\ k = "dir" /\ p \in DirPaths
      BY <1>0, <1>1, <1>2, <2>2, RelistFacts DEF AreListings
    <3> QED
      BY <1>2, <1>5, <2>2, <3>1, <3>2
  <2> QED
    BY <2>1, <2>2
<1>7. /\ DirKey(Front(p)) \notin WholeDirs
      /\ \A c \in DirPaths : c = Front(p) \/ (main.op = "mkdir" /\ c = p) =>
           (DirKey(c) \in main.dirty => DirKey(c) \in SuspectDirs)
  <2>1. CASE main.op = "create"
    <3>1. WholeDirs = {} /\ SuspectDirs = DirKeys({Front(p)}) \cap main.dirty
      BY <1>1, <2>1 DEF WholeDirs, SuspectDirs
    <3> QED
      BY <2>1, <3>1, KeyFacts
  <2>2. CASE main.op = "mkdir"
    <3>1. WholeDirs = DirKeys({p}) /\ SuspectDirs = DirKeys({p, Front(p)}) \cap main.dirty
      BY <1>1, <2>2 DEF WholeDirs, SuspectDirs
    <3> QED
      BY <1>5, <3>1, KeyFacts
  <2> QED
    BY <2>1, <2>2
<1>8. CASE d = Front(p) /\ DirKey(d) \notin main.dirty
  <2>1. DirKey(Front(p)) \in tainted \cup main.dirty => DirKey(Front(p)) \in tainted'
    BY <1>0, <1>2, <1>7
  <2>2. \A q \in Children(Front(p)) : q \in {main.path, main.to} => q = p
    BY <1>0, <1>1, PathsAssumption DEF Children
  <2>3. /\ dirs[Front(p)] = NoListing => dirs'[Front(p)] = NoListing
        /\ dirs[Front(p)] # NoListing => dirs'[Front(p)] = [dirs[Front(p)] EXCEPT ![p] = k]
    BY <1>0, <1>2, <1>6, RelistFacts
  <2> QED
    BY <1>2, <1>3, <1>8, <2>1, <2>2, <2>3, RelistGood
<1>9. CASE main.op = "mkdir" /\ d = p /\ DirKey(d) \notin main.dirty
  <2>0. Covered(DirKey(p)) => Covered(DirKey(p))'
    BY <1>0 DEF Covered
  <2>1. CASE DirKey(p) \in main.dirty \/ Covered(DirKey(p))
    BY <1>0, <1>7, <1>9, <2>0, <2>1 DEF DirGood, DirRight
  <2>2. CASE ~(DirKey(p) \in main.dirty \/ Covered(DirKey(p)))
    <3>1. SameDir(server, a, p)
      BY <1>0, <1>9, <2>2 DEF Holds, StillThere, Working
    <3>2. a \in [Paths -> Entries]
      BY DEF Holds, IsTree
    <3>3. p \in DirsOf(a)
      <4>1. a[p] \in Entries /\ Kind(a[p]) = "dir"
        BY <1>1, <1>2, <1>3, <1>9, <3>2
      <4>2. a[p].dir
        BY <4>1, EntryFacts
      <4> QED
        BY <1>2, <4>2 DEF DirsOf
    <3> DEFINE l == [q \in Children(p) |-> "none"]
    <3>4. l \in [Children(p) -> Kinds] /\ \A q \in Children(p) : l[q] = Kind(a[q])
      BY <1>3, <1>9, <2>2, EntryFacts DEF Kinds
    <3>5. dirs'[p] = l
      BY <1>6, <1>9
    <3> HIDE DEF l
    <3>6. Lists(a, p, l)
      BY <1>9, <3>2, <3>3, <3>4, ListsIf
    <3>7. Lists(server, p, dirs'[p])
      BY <3>1, <3>5, <3>6 DEF Lists, SameDir
    <3>8. Lists(server, p, dirs[p])'
      BY <1>0, <3>7 DEF Lists, Listing, DirsOf
    <3> QED
      BY <1>9, <3>8 DEF DirGood, DirRight
  <2> QED
    BY <2>1, <2>2
<1>10. CASE DirKey(d) \in main.dirty
  BY <1>0, <1>4, <1>7, <1>10 DEF DirGood
<1> QED
  BY <1>4, <1>8, <1>9, <1>10

\* The listings after unlink and rmdir.
LEMMA CutDirsGood ==
  ASSUME NEW b, NEW a, Typed, Holds(b, a), MutateDirs, main.op \in {"unlink", "rmdir"},
         NEW d \in DirPaths, DirKey(d) \in main.keys
  PROVE  DirGood(b, d)'
<1>0. /\ MainTyped /\ CachesTyped /\ main.pc = "dirs" /\ main.path \in Paths /\ main.keys = OpKeys(main)
      /\ main.to = Root /\ AreListings(dirs) /\ dirs' = NewDirs
      /\ tainted' = (tainted \ WholeDirs) \cup SuspectDirs
  BY DEF Typed, MutateDirs, MainTyped, CachesTyped
<1>1. PICK p : p = main.path
  OBVIOUS
<1>2. p \in Paths /\ p # Root /\ Front(p) \in DirPaths /\ Front(p) \notin Under(p) /\ p \in Under(p)
  BY <1>0, <1>1, PathsAssumption, ParentInDirPaths, UnderFacts
<1>3. DirKey(d) \notin main.dirty => Siblings(main, b, a, p) /\ a[p] = None
  BY <1>0, <1>1, <1>2 DEF Holds, Did, Doubted, Working, Deed
<1>4. d = Front(p) \/ d \in Under(p)
  BY <1>0, <1>1, OpKeysAre, MainAsked, TreeKeyFacts
<1> DEFINE g == DropDirs(DirKeys(Under(p)))
<1>5. /\ AreListings(g)
      /\ \A c \in DirPaths : g[c] = IF DirKey(c) \in DirKeys(Under(p)) THEN NoListing ELSE dirs[c]
  BY <1>0, DropFacts
<1>6. dirs' = Relist(g, p, "none")
  BY <1>0, <1>1 DEF NewDirs
<1> HIDE DEF g
<1>7. g[Front(p)] = dirs[Front(p)]
  BY <1>2, <1>5, KeyFacts
<1>8. "none" \in Kinds
  BY DEF Kinds
<1>9. /\ \A c \in DirPaths : c # Front(p) => dirs'[c] = g[c]
      /\ dirs[Front(p)] = NoListing => dirs'[Front(p)] = NoListing
      /\ dirs[Front(p)] # NoListing => dirs'[Front(p)] = [dirs[Front(p)] EXCEPT ![p] = "none"]
  BY <1>2, <1>5, <1>6, <1>7, <1>8, RelistFacts
<1>10. CASE d \in Under(p)
  <2>1. d # Front(p) /\ g[d] = NoListing
    BY <1>2, <1>5, <1>10, KeyFacts
  <2>2. dirs'[d] = NoListing
    BY <1>9, <2>1
  <2> QED
    BY <2>2 DEF DirGood
<1>11. CASE d = Front(p)
  <2>1. DirKey(Front(p)) \in tainted \cup main.dirty => DirKey(Front(p)) \in tainted'
    <3>1. WholeDirs = DirKeys(Under(p)) /\ SuspectDirs = DirKeys({Front(p)}) \cap main.dirty
      BY <1>1 DEF WholeDirs, SuspectDirs
    <3> QED
      BY <1>0, <1>2, <3>1, KeyFacts
  <2>2. \A q \in Children(Front(p)) : q \in {main.path, main.to} => q = p
    BY <1>0, <1>1, PathsAssumption DEF Children
  <2>3. /\ dirs[Front(p)] = NoListing => dirs'[Front(p)] = NoListing
        /\ dirs[Front(p)] # NoListing => dirs'[Front(p)] = [dirs[Front(p)] EXCEPT ![p] = "none"]
    BY <1>9
  <2>5. DirKey(Front(p)) \in main.keys
    BY <1>11
  <2>6. CASE DirKey(d) \in main.dirty
    BY <1>11, <2>1, <2>6 DEF DirGood
  <2>7. CASE DirKey(d) \notin main.dirty
    <3>1. "none" = Kind(a[p]) /\ Siblings(main, b, a, p)
      BY <1>3, <2>7, EntryFacts
    <3> QED
      BY <1>2, <1>8, <1>11, <2>1, <2>2, <2>3, <2>5, <3>1, RelistGood
  <2> QED
    BY <2>6, <2>7
<1> QED
  BY <1>4, <1>10, <1>11

\* The listings after rename.
LEMMA MovedDirsGood ==
  ASSUME NEW b, NEW a, Typed, Holds(b, a), MutateDirs, main.op = "rename",
         NEW d \in DirPaths, DirKey(d) \in main.keys
  PROVE  DirGood(b, d)'
<1>0. /\ MainTyped /\ CachesTyped /\ main.pc = "dirs" /\ main.path \in Paths /\ main.to \in Paths
      /\ Apart(main.path, main.to) /\ main.keys = OpKeys(main)
      /\ AreListings(dirs) /\ dirs' = NewDirs /\ metas \in [Paths -> Entries]
      /\ tainted' = (tainted \ WholeDirs) \cup SuspectDirs /\ UNCHANGED <<server, feed, pending, metas>>
  BY DEF Typed, MutateDirs, MainTyped, CachesTyped
<1>1. PICK p, to : p = main.path /\ to = main.to
  OBVIOUS
<1>2. /\ p \in Paths /\ to \in Paths /\ Apart(p, to) /\ Apart(to, p) /\ p # to
      /\ Front(p) \in DirPaths /\ Front(to) \in DirPaths
      /\ Front(p) \notin Under(p) \cup Under(to) /\ Front(to) \notin Under(p) \cup Under(to)
      /\ Under(p) \cap Under(to) = {} /\ p \in Under(p) /\ to \in Under(to)
      /\ p \in Children(Front(p)) /\ to \in Children(Front(to))
  BY <1>0, <1>1, ParentInDirPaths, UnderFacts, ApartFacts
<1>3. DirKey(d) \notin main.dirty =>
        /\ Siblings(main, b, a, p) /\ Siblings(main, b, a, to) /\ \A q \in Under(p) : a[q] = None
        /\ TreeKeys(to) \subseteq main.dirty \/ \A q \in Under(to) : a[q] = b[Moved(to, p, q)]
  BY <1>0, <1>1 DEF Holds, Did, Doubted, Working, Deed
<1>4. \/ d \in Under(p) \/ d \in Under(to)
      \/ d = Front(p) /\ Front(p) # Front(to)
      \/ d = Front(to)
  BY <1>0, <1>1, OpKeysAre, MainAsked, TreeKeyFacts
<1> DEFINE g == MovedDirs(p, to)
           f == Relist(g, p, "none")
<1>5. /\ AreListings(g)
      /\ \A c \in DirPaths : c \in Under(p) => g[c] = NoListing
      /\ \A c \in DirPaths : c \notin Under(p) \cup Under(to) => g[c] = dirs[c]
      /\ \A c \in DirPaths : c \in Under(to) =>
           \/ g[c] = NoListing
           \/ /\ dirs[Moved(to, p, c)] # NoListing
              /\ g[c] = [q \in Children(c) |-> dirs[Moved(to, p, c)][Moved(to, p, q)]]
  BY <1>0, <1>2, MovedDirsFacts
<1>6. dirs' = IF metas[to] # None THEN Relist(f, to, Kind(metas[to]))
              ELSE [f EXCEPT ![Front(to)] = NoListing]
  BY <1>0, <1>1 DEF NewDirs
<1> HIDE DEF g
<1>7. "none" \in Kinds /\ Kind(metas[to]) \in Kinds
  <2>1. metas[to] \in Entries
    BY <1>0, <1>2
  <2> QED
    BY <2>1, EntryFacts DEF Kinds
<1>8. /\ AreListings(f)
      /\ \A c \in DirPaths : c # Front(p) => f[c] = g[c]
      /\ g[Front(p)] = NoListing => f[Front(p)] = NoListing
      /\ g[Front(p)] # NoListing => f[Front(p)] = [g[Front(p)] EXCEPT ![p] = "none"]
  BY <1>2, <1>5, <1>7, RelistFacts
<1> HIDE DEF f
<1>9. ASSUME NEW c \in DirPaths, c # Front(to) PROVE dirs'[c] = f[c]
  <2>1. CASE metas[to] # None
    <3>1. dirs' = Relist(f, to, Kind(metas[to]))
      BY <1>6, <2>1
    <3>2. PICK k \in Kinds : k = Kind(metas[to])
      BY <1>7
    <3>3. \A e \in DirPaths : e # Front(to) => Relist(f, to, k)[e] = f[e]
      <4>1. AreListings(f) /\ to \in Paths
        BY <1>2, <1>8
      <4> QED
        BY <4>1, RelistFacts
    <3> QED
      BY <1>9, <3>1, <3>2, <3>3
  <2>2. CASE metas[to] = None
    <3>1. dirs' = [f EXCEPT ![Front(to)] = NoListing] /\ DOMAIN f = DirPaths
      BY <1>6, <1>8, <2>2 DEF AreListings
    <3> QED
      BY <1>9, <3>1
  <2> QED
    BY <2>1, <2>2
<1>10. SuspectDirs =
         {key \in DirKeys(Under(to)) :
            \/ key \in main.dirty
            \/ DirKey(Moved(to, p, key[2])) \in tainted \cup main.dirty
            \/ Covered(DirKey(Moved(to, p, key[2])))}
         \cup (DirKeys({Front(p), Front(to)}) \cap main.dirty)
         \cup (IF MetaKey(to) \in tainted THEN DirKeys({Front(to)}) ELSE {})
  BY <1>1 DEF SuspectDirs, MetaKey, DirKey
<1>11. WholeDirs = DirKeys(Under(p) \cup Under(to))
  BY <1>1 DEF WholeDirs
<1>12. \A key : Covered(key) => Covered(key)'
  BY <1>0 DEF Covered
<1>13. \A c \in {Front(p), Front(to)} :
         DirKey(c) \in tainted \cup main.dirty => DirKey(c) \in tainted'
  BY <1>0, <1>2, <1>10, <1>11, KeyFacts
<1>14. CASE d \in Under(p)
  <2>1. dirs'[d] = NoListing
    BY <1>2, <1>5, <1>8, <1>9, <1>14
  <2> QED
    BY <2>1 DEF DirGood
<1>15. CASE d = Front(p) /\ Front(p) # Front(to) /\ DirKey(d) \notin main.dirty
  <2>1. \A q \in Children(Front(p)) : q \in {main.path, main.to} => q = p
    BY <1>1, <1>15 DEF Children
  <2>2. /\ dirs[Front(p)] = NoListing => dirs'[Front(p)] = NoListing
        /\ dirs[Front(p)] # NoListing => dirs'[Front(p)] = [dirs[Front(p)] EXCEPT ![p] = "none"]
    BY <1>2, <1>5, <1>8, <1>9, <1>15
  <2>3. "none" = Kind(a[p])
    BY <1>2, <1>3, <1>15, EntryFacts
  <2>4. DirKey(Front(p)) \in main.keys
    BY <1>15
  <2> QED
    BY <1>2, <1>3, <1>7, <1>13, <1>15, <2>1, <2>2, <2>3, <2>4, RelistGood
<1>16. CASE d \in Under(to)
  <2>1. PICK s : s = Moved(to, p, d)
    OBVIOUS
  <2>2. /\ s \in Under(p) /\ s \in DirPaths /\ s \in Paths
        /\ \A q \in Children(d) : q \in Under(to) /\ Moved(to, p, q) \in Children(s)
    BY <1>2, <1>16, <2>1, MovedDirPath, UnderFacts
  <2>3. \/ dirs'[d] = NoListing
        \/ /\ dirs[s] # NoListing
           /\ dirs'[d] = [q \in Children(d) |-> dirs[s][Moved(to, p, q)]]
    <3>1. dirs'[d] = g[d]
      BY <1>2, <1>8, <1>9, <1>16
    <3> QED
      BY <1>5, <1>16, <2>1, <3>1
  <2>4. DirKey(d) \in main.dirty \/ DirKey(s) \in tainted \cup main.dirty \/ Covered(DirKey(s))
        => DirKey(d) \in tainted'
    <3>1. DirKey(d) \in DirKeys(Under(to)) /\ DirKey(d)[2] = d
      BY <1>16, KeyFacts DEF DirKey
    <3> QED
      BY <1>0, <1>10, <2>1, <3>1
  <2>5. CASE DirKey(d) \in tainted' \/ Covered(DirKey(d)) \/ dirs'[d] = NoListing
    BY <1>12, <2>5 DEF DirGood, DirRight
  <2>6. CASE ~(DirKey(d) \in tainted' \/ Covered(DirKey(d)) \/ dirs'[d] = NoListing)
    <3>1. /\ DirKey(d) \notin main.dirty /\ DirKey(s) \notin main.dirty /\ DirKey(s) \notin tainted
          /\ ~Covered(DirKey(s)) /\ ~Covered(DirKey(d)) /\ dirs[s] # NoListing
          /\ dirs'[d] = [q \in Children(d) |-> dirs[s][Moved(to, p, q)]]
      BY <2>3, <2>4, <2>6
    <3>2. DirKey(s) \in main.keys
      BY <1>0, <1>1, <2>2, OpKeysAre, MainAsked, TreeKeyFacts
    <3>3. SameDir(server, a, s) /\ SameDir(server, a, d)
      BY <1>0, <2>2, <3>1, <3>2 DEF Holds, StillThere, Working
    <3>4. Lists(server, s, dirs[s]) \/ Lists(b, s, dirs[s])
      BY <2>2, <3>1 DEF Holds, DirGood, DirRight
    <3>5. s \notin DirsOf(server)
      <4>1. a[s] = None /\ s # Root
        BY <1>3, <2>2, <3>1, PathsAssumption
      <4>2. s \notin DirsOf(a)
        BY <4>1, EntryFacts DEF DirsOf
      <4> QED
        BY <3>3, <4>2 DEF SameDir
    <3>6. dirs[s] = Listing(b, s) /\ s \in DirsOf(b)
      BY <3>4, <3>5 DEF Lists
    <3>7. \A q \in Under(to) : a[q] = b[Moved(to, p, q)]
      <4>1. DirKey(d) \in TreeKeys(to)
        BY <1>2, <1>16, TreeKeyFacts
      <4> QED
        BY <1>3, <3>1, <4>1
    <3>8. d \in DirsOf(a)
      <4>1. b[s].dir
        BY <2>2, <3>6, PathsAssumption DEF DirsOf
      <4>2. a[d] = b[s] /\ d \in Paths
        BY <1>2, <1>16, <2>1, <3>7, UnderFacts
      <4> QED
        BY <4>1, <4>2 DEF DirsOf
    <3>9. \A q \in Children(d) : dirs'[d][q] = Kind(a[q])
      <4> SUFFICES ASSUME NEW q \in Children(d) PROVE dirs'[d][q] = Kind(a[q])
        OBVIOUS
      <4>1. dirs'[d][q] = Listing(b, s)[Moved(to, p, q)]
        BY <3>1, <3>6
      <4>2. Listing(b, s)[Moved(to, p, q)] = Kind(b[Moved(to, p, q)])
        BY <2>2 DEF Listing
      <4> QED
        BY <2>2, <3>7, <4>1, <4>2
    <3>10. a \in [Paths -> Entries]
      BY DEF Holds, IsTree
    <3>11. dirs'[d] \in [Children(d) -> Kinds]
      <4>1. \A q \in Children(d) : Kind(a[q]) \in Kinds
        BY <3>10, EntryFacts DEF Kinds, Children
      <4> QED
        BY <3>1, <3>9, <4>1
    <3>12. Lists(a, d, dirs'[d])
      BY <3>8, <3>9, <3>10, <3>11, ListsIf
    <3>13. Lists(server, d, dirs'[d])
      BY <3>3, <3>12 DEF Lists, SameDir
    <3>14. Lists(server, d, dirs[d])'
      BY <1>0, <3>13 DEF Lists, Listing, DirsOf
    <3> QED
      BY <3>14 DEF DirGood, DirRight
  <2> QED
    BY <2>5, <2>6
<1>17. CASE d = Front(to)
  <2>1. CASE metas[to] = None
    <3>1. dirs' = [f EXCEPT ![Front(to)] = NoListing] /\ DOMAIN f = DirPaths
      BY <1>6, <1>8, <2>1 DEF AreListings
    <3>2. dirs'[d] = NoListing
      BY <1>2, <1>17, <3>1
    <3> QED
      BY <3>2 DEF DirGood
  <2>2. CASE metas[to] # None
    <3>1. dirs' = Relist(f, to, Kind(metas[to]))
      BY <1>6, <2>2
    <3>2. /\ AreListings(dirs')
          /\ f[d] = NoListing => dirs'[d] = NoListing
          /\ f[d] # NoListing => dirs'[d] = [f[d] EXCEPT ![to] = Kind(metas[to])]
      BY <1>2, <1>7, <1>8, <1>17, <3>1, RelistFacts
    <3>3. /\ dirs[d] = NoListing => f[d] = NoListing
          /\ dirs[d] # NoListing => f[d] = IF d = Front(p) THEN [dirs[d] EXCEPT ![p] = "none"] ELSE dirs[d]
      BY <1>2, <1>5, <1>8, <1>17
    <3>4. CASE \/ dirs[d] = NoListing \/ DirKey(d) \in tainted' \/ Covered(DirKey(d))
      BY <1>12, <3>2, <3>3, <3>4 DEF DirGood, DirRight
    <3>5. CASE ~(dirs[d] = NoListing \/ DirKey(d) \in tainted' \/ Covered(DirKey(d)))
      <4>1. DirKey(d) \notin tainted \cup main.dirty /\ MetaKey(to) \notin tainted
        <5>1. DirKey(d) \in DirKeys({Front(to)})
          BY <1>17, KeyFacts
        <5> QED
          BY <1>0, <1>10, <1>13, <1>17, <3>5, <5>1
      <4>2. ~Covered(MetaKey(to))
        <5>1. ASSUME Covered(MetaKey(to)) PROVE Covered(DirKey(Front(to)))
          <6>1. PICK i \in 1..Len(feed) : MetaKey(to) \in EventKeys(feed[i])
            BY <5>1 DEF Covered
          <6>2. /\ feed[i].kind \in {"changed", "replaced", "reset"}
                /\ feed[i].kind # "reset" => feed[i].path \in Paths
            <7> DEFINE Events == [kind : {"changed", "replaced", "reset"}, path : Paths \cup {Root}]
            <7>1. /\ feed \in Seq(Events)
                  /\ feed[i].kind # "reset" => feed[i].path \in Paths
              BY DEF Typed, FeedTyped
            <7> HIDE DEF Events
            <7>2. feed[i] \in Events
              BY <7>1
            <7> QED
              BY <7>1, <7>2 DEF Events
          <6>3. DirKey(Front(to)) \in EventKeys(feed[i])
            BY <1>2, <6>1, <6>2, EventKeyFacts
          <6> QED
            BY <6>3 DEF Covered
        <5> QED
          BY <1>17, <3>5, <5>1
      <4>3. metas[to] = server[to]
        <5>1. Landing(to)
          BY <1>0, <1>1 DEF Landing
        <5>2. ~MetaOpen(to)
          BY <1>0 DEF MetaOpen
        <5>3. MetaGood(b, to)
          BY <1>2 DEF Holds
        <5> QED
          BY <2>2, <4>1, <4>2, <5>1, <5>2, <5>3 DEF MetaGood, MetaRight
      <4>4. /\ d \in DirsOf(server)
            /\ \A q \in Children(d) : Kind(server[q]) = Kind(a[q])
            /\ \A q \in Children(d) : q \notin {p, to} => dirs[d][q] = Kind(server[q])
        BY <1>0, <1>1, <1>2, <1>3, <1>17, <3>5, <4>1, ParentListing
      <4>5. dirs[d] \in [Children(d) -> Kinds] /\ to \in Children(d)
        BY <1>0, <1>2, <1>17, <3>5 DEF AreListings
      <4>6. f[d] \in [Children(d) -> Kinds] /\ \A q \in Children(d) : q # to => f[d][q] = Kind(server[q])
        <5>1. CASE d # Front(p)
          <6>1. f[d] = dirs[d] /\ p \notin Children(d)
            BY <3>3, <3>5, <5>1 DEF Children
          <6> QED
            BY <4>4, <4>5, <6>1
        <5>2. CASE d = Front(p)
          <6>1. f[d] = [dirs[d] EXCEPT ![p] = "none"] /\ p \in Children(d)
            BY <1>2, <3>3, <3>5, <5>2
          <6>2. Kind(server[p]) = "none"
            BY <1>2, <1>3, <4>1, <4>4, <6>1, EntryFacts
          <6>3. f[d] \in [Children(d) -> Kinds] /\ f[d][p] = "none"
            BY <1>7, <4>5, <6>1
          <6>4. \A q \in Children(d) : q # p => f[d][q] = dirs[d][q]
            BY <4>5, <6>1
          <6> QED
            BY <4>4, <6>2, <6>3, <6>4
        <5> QED
          BY <5>1, <5>2
      <4>7. f[d] # NoListing
        <5>1. DOMAIN NoListing = {}
          BY DEF NoListing
        <5>2. DOMAIN f[d] # {}
          BY <4>5, <4>6
        <5> QED
          BY <5>1, <5>2
      <4>8. dirs'[d] = [f[d] EXCEPT ![to] = Kind(metas[to])]
        BY <3>2, <4>7
      <4>9. /\ dirs'[d] \in [Children(d) -> Kinds]
            /\ \A q \in Children(d) : dirs'[d][q] = Kind(server[q])
        BY <1>7, <4>3, <4>5, <4>6, <4>8
      <4>10. server \in [Paths -> Entries]
        BY DEF Typed, ServerTyped, IsTree
      <4>11. Lists(server, d, dirs'[d])
        BY <4>4, <4>9, <4>10, ListsIf
      <4>12. Lists(server, d, dirs[d])'
        BY <1>0, <4>11 DEF Lists, Listing, DirsOf
      <4> QED
        BY <4>12 DEF DirGood, DirRight
    <3> QED
      BY <3>4, <3>5
  <2> QED
    BY <2>1, <2>2
<1>18. CASE d = Front(p) /\ DirKey(d) \in main.dirty
  BY <1>13, <1>18 DEF DirGood
<1> QED
  BY <1>4, <1>14, <1>15, <1>16, <1>17, <1>18

\* Listings that the mutation is not about stay.
LEMMA OtherDirs ==
  ASSUME Typed, MutateDirs, NEW d \in DirPaths, DirKey(d) \notin main.keys
  PROVE  dirs'[d] = dirs[d] /\ DirKey(d) \notin WholeDirs
<1>0. /\ MainTyped /\ CachesTyped /\ main.pc = "dirs" /\ main.path \in Paths /\ main.keys = OpKeys(main)
      /\ dirs' = NewDirs /\ AreListings(dirs) /\ main.op \in Ops /\ main.op \notin {"chmod", "truncate"}
      /\ metas \in [Paths -> Entries]
  BY DEF Typed, MutateDirs, MainTyped, CachesTyped
<1>p. PICK p \in Paths : p = main.path
  BY <1>0
<1>1. "none" \in Kinds /\ "file" \in Kinds /\ "dir" \in Kinds
  BY DEF Kinds
<1>r. ASSUME NEW f, AreListings(f), NEW q \in Paths, d # Front(q), NEW k \in Kinds
      PROVE  AreListings(Relist(f, q, k)) /\ Relist(f, q, k)[d] = f[d]
  <2>1. AreListings(Relist(f, q, k)) /\ \A c \in DirPaths : c # Front(q) => Relist(f, q, k)[c] = f[c]
    BY <1>r, RelistFacts
  <2> QED
    BY <1>r, <2>1
<1>2. CASE main.op = "create"
  <2>1. d # Front(p)
    BY <1>0, <1>p, <1>2, OpKeysAre, MainAsked
  <2>2. dirs' = Relist(dirs, p, "file") /\ WholeDirs = {}
    BY <1>0, <1>p, <1>2 DEF NewDirs, WholeDirs
  <2> QED
    BY <1>0, <1>1, <1>r, <2>1, <2>2
<1>3. CASE main.op = "mkdir"
  <2>1. d # Front(p) /\ d # p
    BY <1>0, <1>p, <1>3, OpKeysAre, MainAsked
  <2> DEFINE g == Relist(dirs, p, "dir")
  <2>2. dirs' = [g EXCEPT ![p] = [q \in Children(p) |-> "none"]] /\ WholeDirs = DirKeys({p})
    BY <1>0, <1>p, <1>3 DEF NewDirs, WholeDirs
  <2>3. AreListings(g) /\ g[d] = dirs[d]
    BY <1>0, <1>1, <1>r, <2>1
  <2> HIDE DEF g
  <2>4. dirs'[d] = g[d]
    BY <2>1, <2>2, <2>3 DEF AreListings
  <2> QED
    BY <2>1, <2>2, <2>3, <2>4, KeyFacts
<1>4. CASE main.op \in {"unlink", "rmdir"}
  <2>1. d # Front(p) /\ d \notin Under(p)
    BY <1>0, <1>p, <1>4, OpKeysAre, MainAsked, TreeKeyFacts
  <2> DEFINE g == DropDirs(DirKeys(Under(p)))
  <2>2. dirs' = Relist(g, p, "none") /\ WholeDirs = DirKeys(Under(p))
    BY <1>0, <1>p, <1>4 DEF NewDirs, WholeDirs
  <2>3. DirKey(d) \notin DirKeys(Under(p))
    BY <2>1, KeyFacts
  <2>4. AreListings(g) /\ g[d] = dirs[d]
    BY <1>0, <2>3, DropFacts
  <2> HIDE DEF g
  <2>5. Relist(g, p, "none")[d] = g[d]
    BY <1>1, <1>r, <2>1, <2>4
  <2> QED
    BY <2>2, <2>3, <2>4, <2>5
<1>5. CASE main.op = "rename"
  <2>1. PICK to \in Paths : to = main.to /\ Apart(p, to)
    BY <1>0, <1>p, <1>5 DEF MainTyped
  <2>2. d # Front(p) /\ d # Front(to) /\ d \notin Under(p) \cup Under(to)
    BY <1>0, <1>p, <1>5, <2>1, OpKeysAre, MainAsked, TreeKeyFacts
  <2> DEFINE g == MovedDirs(p, to)
             f == Relist(g, p, "none")
  <2>3. /\ dirs' = IF metas[to] # None THEN Relist(f, to, Kind(metas[to]))
                   ELSE [f EXCEPT ![Front(to)] = NoListing]
        /\ WholeDirs = DirKeys(Under(p) \cup Under(to))
    BY <1>0, <1>p, <1>5, <2>1 DEF NewDirs, WholeDirs
  <2>4. AreListings(g) /\ g[d] = dirs[d]
    BY <1>0, <2>1, <2>2, MovedDirsFacts
  <2> HIDE DEF g
  <2>5. AreListings(f) /\ f[d] = g[d]
    BY <1>1, <1>r, <2>2, <2>4
  <2> HIDE DEF f
  <2>6. dirs'[d] = f[d]
    <3>1. CASE metas[to] # None
      <4>1. PICK k \in Kinds : k = Kind(metas[to])
        <5>1. metas[to] \in Entries
          BY <1>0, <2>1
        <5> QED
          BY <5>1, EntryFacts DEF Kinds
      <4>2. Relist(f, to, k)[d] = f[d]
        BY <1>r, <2>1, <2>2, <2>5
      <4> QED
        BY <2>3, <3>1, <4>1, <4>2
    <3>2. CASE metas[to] = None
      BY <2>2, <2>3, <2>5, <3>2 DEF AreListings
    <3> QED
      BY <3>1, <3>2
  <2> QED
    BY <2>2, <2>3, <2>4, <2>5, <2>6, KeyFacts
<1> QED
  BY <1>0, <1>2, <1>3, <1>4, <1>5 DEF Ops

\* The listings follow the mutation, which is then over.
LEMMA MutateDirsKeeps ==
  ASSUME NEW b, NEW a, Typed, Holds(b, a), MutateDirs
  PROVE  Holds(b, a)'
<1> DEFINE K == OpDirs
<1>0. /\ MainTyped /\ ReadersTyped /\ main.pc = "dirs" /\ main.op \in Ops
      /\ main.op \notin {"chmod", "truncate"}
  BY DEF Typed, MutateDirs, MainTyped
<1>1. /\ UNCHANGED <<server, pending, feed>> /\ UNCHANGED metas
      /\ tainted' = (tainted \ WholeDirs) \cup SuspectDirs /\ Overtake(K) /\ main'.pc = "idle"
  BY IdleFacts DEF MutateDirs, OpDirs
<1> HIDE DEF K
<1>2. ~Working' /\ Flushed'
  BY <1>1 DEF Working, Flushed
<1>3. StillThere(a)' /\ Did(b, a)'
  BY <1>2, NoMutation
<1>4. Disturbs(K)
  <2>1. Only(server, server', K)
    BY <1>1, OnlySame
  <2>2. \A key : Covered(key) => Covered(key)'
    BY <1>1 DEF Covered
  <2>3. (\A p : ~MetaOpen(p)) /\ \A d : DirOpen(d) => DirKey(d) \in K
    BY <1>0, OpPartFacts DEF MetaOpen, DirOpen, K
  <2>4. \A p : ~Landing(p)'
    BY <1>1 DEF Landing
  <2> QED
    BY <2>1, <2>2, <2>3, <2>4 DEF Disturbs
<1>5. ASSUME NEW p \in Paths PROVE MetaGood(b, p)'
  <2>1. MetaKey(p) \notin K
    BY OpPartFacts DEF K
  <2>2. MetaKey(p) \notin WholeDirs
    BY <1>0, KeyFacts DEF WholeDirs, Ops
  <2> QED
    BY <1>1, <1>4, <2>1, <2>2, MetaKept
<1>6. ASSUME NEW d \in DirPaths PROVE DirGood(b, d)'
  <2>1. CASE DirKey(d) \notin main.keys
    <3>1. DirKey(d) \notin K
      BY <2>1, OpPartFacts DEF K
    <3>2. dirs'[d] = dirs[d] /\ DirKey(d) \notin WholeDirs
      BY <2>1, OtherDirs
    <3> QED
      BY <1>1, <1>4, <3>1, <3>2, DirKept
  <2> QED
    BY <1>0, <2>1, MadeDirsGood, CutDirsGood, MovedDirsGood DEF Ops
<1>7. ASSUME NEW r \in Readers
      PROVE  (StatGood(b, reader[r]) /\ ListGood(b, reader[r]) /\ LeftGood(b, reader[r]))'
  BY <1>0, <1>1, <1>4, OvertakeFacts, ReadersKept
<1> QED
  BY <1>2, <1>3, <1>5, <1>6, <1>7, HoldsFrom DEF Holds

-----------------------------------------------------------------------------
(* Coherence. *)

\* The mount starts with what the server has.
LEMMA InitHolds ==
  ASSUME Init
  PROVE  Inv
<1>1. IsTree(server) /\ server \in [Paths -> Entries]
  BY TreesAssumption DEF Init, IsTree
<1>2. main.pc = "idle" /\ \A r \in Readers : reader[r].pc = "idle"
  BY DEF Init, Idle, NoAnswer
<1>3. \A p \in Paths : MetaGood(server, p)
  <2>1. \A p \in Paths : pending[p] = None /\ metas[p] = server[p]
    BY DEF Init
  <2> QED
    BY <2>1 DEF MetaGood, MetaRight
<1>4. \A d \in DirPaths : DirGood(server, d)
  BY DEF Init, DirGood, DirRight, Lists
<1>5. \A r \in Readers :
        StatGood(server, reader[r]) /\ ListGood(server, reader[r]) /\ LeftGood(server, reader[r])
  BY <1>2 DEF StatGood, ListGood, LeftGood
<1>6. StillThere(server) /\ Did(server, server) /\ Flushed
  BY <1>2 DEF StillThere, Did, Working, Flushed
<1>7. Holds(server, server)
  BY <1>1, <1>3, <1>4, <1>5, <1>6 DEF Holds
<1> QED
  BY <1>1, <1>7 DEF Inv

\* Every step keeps the invariant.
LEMMA NextHolds ==
  ASSUME Typed, LateTyped, Inv, [Next]_vars
  PROVE  Inv'
<1>1. PICK b \in [Paths -> Entries], a \in [Paths -> Entries] : Holds(b, a)
  BY DEF Inv
<1>2. Holds(b, a)' => Inv'
  BY DEF Inv, Entries
<1>3. CASE RemoteStep
  <2>1. /\ \E K : Only(server, server', K) /\ \A key \in K : Covered(key)'
        /\ \A key : Covered(key) => Covered(key)'
        /\ UNCHANGED <<metas, dirs, tainted, pending, main, reader>>
    BY <1>3, RemoteTyped DEF Typed
  <2> QED
    BY <1>1, <1>2, <2>1, OutsideKeeps
<1>4. CASE LoseEvents
  <2>1. UNCHANGED <<server, metas, dirs, tainted, pending, main, reader>>
    BY <1>4 DEF LoseEvents, caches
  <2>2. \A key \in Keys : Covered(key)'
    BY <1>4, LoseTyped
  <2>3. Only(server, server', {})
    BY <2>1, OnlySame
  <2> QED
    BY <1>1, <1>2, <2>1, <2>2, <2>3, OutsideKeeps
<1>5. CASE UNCHANGED vars
  <2>1. UNCHANGED <<server, metas, dirs, tainted, pending, main, reader, feed>>
    BY <1>5 DEF vars
  <2>2. \A key \in Keys : Covered(key) => Covered(key)'
    BY <2>1 DEF Covered
  <2>3. Only(server, server', {})
    BY <2>1, OnlySame
  <2> QED
    BY <1>1, <1>2, <2>1, <2>2, <2>3, OutsideKeeps
<1>6. CASE ApplyChange \/ InvalidateAll
  BY <1>1, <1>2, <1>6, ApplyKeeps
<1>7. CASE \E p \in Paths : Upload(p)
  BY <1>1, <1>2, <1>7, UploadKeeps
<1>8. CASE \E r \in Readers : ReaderStep(r)
  <2>1. PICK r \in Readers : ReaderStep(r)
    BY <1>8
  <2>2. CASE \/ \E p \in Paths : StatRead(r, p)
             \/ \E d \in DirPaths : ListRead(r, d)
             \/ ListDone(r)
    BY <1>1, <1>2, <2>2, ReadKeeps
  <2>3. CASE StatStore(r)
    BY <1>1, <1>2, <2>3, StatStoreKeeps
  <2>4. CASE ListStore(r)
    BY <1>1, <1>2, <2>4, ListStoreKeeps
  <2>5. CASE ListEntry(r)
    BY <1>1, <1>2, <2>5, ListEntryKeeps
  <2> QED
    BY <2>1, <2>2, <2>3, <2>4, <2>5 DEF ReaderStep
<1>9. CASE MainStep
  <2>1. ASSUME NEW p \in Paths,
               \/ Create(p) \/ RemoveEntry(p) \/ Setattr(p, "chmod") \/ Setattr(p, "truncate")
               \/ p \in DirPaths /\ Mkdir(p)
               \/ \E q \in Paths : Rename(p, q)
        PROVE  Inv'
    BY <1>1, <1>2, <2>1, BeginKeeps
  <2>2. ASSUME NEW p \in Paths, LocalWrite(p) PROVE Inv'
    BY <1>1, <1>2, <2>2, LocalWriteKeeps
  <2>3. CASE RmdirCheck
    BY <1>1, <1>2, <2>3, CheckKeeps
  <2>4. CASE DropWrites
    BY <1>1, <1>2, <2>4, DropWritesKeeps
  <2>5. CASE ServerOp
    BY <1>1, <1>2, <2>5, ServerOpCases, RefusedKeeps, DoneKeeps
  <2>6. CASE MutateMetas
    BY <1>1, <1>2, <2>6, MutateMetasKeeps
  <2>7. CASE MutateDirs
    BY <1>1, <1>2, <2>7, MutateDirsKeeps
  <2>8. CASE TransportFails
    BY <1>1, <1>2, <2>8, TransportCases, FailedKeeps, RecoveredKeeps
  <2>9. ASSUME NEW p \in Paths, CarryWrite(p) PROVE Inv'
    BY <1>1, <1>2, <2>9, CarryKeeps
  <2> QED
    BY <1>9, <2>1, <2>2, <2>3, <2>4, <2>5, <2>6, <2>7, <2>8, <2>9 DEF MainStep
<1>10. CASE \E m \in late : LateEffect(m)
  BY <1>1, <1>2, <1>10, LateKeeps DEF LateTyped
<1> QED
  BY <1>3, <1>4, <1>5, <1>6, <1>7, <1>8, <1>9, <1>10 DEF Next

\* The invariant gives coherence.
LEMMA InvGives ==
  ASSUME Inv
  PROVE  Coherent
<1>1. PICK b, a : Holds(b, a)
  BY DEF Inv
<1>2. ASSUME NEW p \in Paths, metas[p] \notin {None, server[p]}, pending[p] = None
      PROVE  Excused(<<"meta", p>>)
  <2>1. MetaGood(b, p)
    BY <1>1 DEF Holds
  <2>2. MetaKey(p) \in tainted \/ Covered(MetaKey(p)) \/ MetaOpen(p)
    BY <1>2, <2>1 DEF MetaGood, MetaRight
  <2> QED
    BY <2>2 DEF Excused, MetaOpen, MetaKey
<1>3. ASSUME NEW d \in DirPaths, dirs[d] \notin {NoListing, Listing(server, d)}
      PROVE  Excused(<<"dir", d>>)
  <2>1. DirGood(b, d)
    BY <1>1 DEF Holds
  <2>2. DirKey(d) \in tainted \/ Covered(DirKey(d)) \/ DirOpen(d)
    BY <1>3, <2>1 DEF DirGood, DirRight, Lists
  <2> QED
    BY <2>2 DEF Excused, DirOpen, DirKey
<1> QED
  BY <1>2, <1>3 DEF Coherent

\* What the attribute and directory caches hold agrees with the server, unless
\* one of the excuses of Coherent applies: for every tree of paths, every number
\* of workers, every interleaving of their answers with the feed, the uploads
\* and the mutations of the mount (vfs.rs), and of changes by others.
THEOREM NamespaceCoherent == Spec => []Coherent
<1>1. Init => Typed /\ LateTyped /\ Inv
  BY InitTyped, InitHolds
<1>2. Typed /\ LateTyped /\ Inv /\ [Next]_vars => Typed' /\ LateTyped' /\ Inv'
  BY NextTyped, NextHolds
<1>3. Inv => Coherent
  BY InvGives
<1> QED
  BY <1>1, <1>2, <1>3, PTL DEF Spec
-----------------------------------------------------------------------------
(***************************************************************************)
(* The inode table, for any set of names and of handlers and any bounds:   *)
(* the two maps stay inverse, the root keeps its place, and a number is    *)
(* never handed out twice.                                                 *)
(***************************************************************************)

\* remove and rename only ever hold paths child_path built, and those end in a
\* name: this is why the root is out of their reach.
CallsBelowRoot ==
  \A t \in Threads :
    /\ call[t].op \in {"remove", "rename_from", "rename"} => call[t].path # <<>>
    /\ call[t].op = "rename" => call[t].to # <<>>

CallsInv == TableTypeOK /\ MapsInverse /\ RootPinned /\ CallsBelowRoot

-----------------------------------------------------------------------------
(* Paths. *)

\* The suffix arithmetic of Inodes::rename: what it builds for a key below from
\* is a path below to, and the same arithmetic the other way gives the key back.
LEMMA MovedBack ==
  ASSUME NEW from \in AllPaths, NEW to \in AllPaths, NEW key \in AllPaths, StartsWith(from, key)
  PROVE  /\ Rebased(from, to, key) \in AllPaths
         /\ StartsWith(to, Rebased(from, to, key))
         /\ Rebased(to, from, Rebased(from, to, key)) = key
<1> DEFINE rest == SubSeq(key, Len(from) + 1, Len(key))
<1> DEFINE there == to \o rest
<1> DEFINE back == SubSeq(there, Len(to) + 1, Len(there))
<1>1. rest \in AllPaths /\ Len(rest) = Len(key) - Len(from)
  BY DEF StartsWith, AllPaths
<1>2. there \in AllPaths /\ Len(there) = Len(to) + Len(rest)
  BY <1>1 DEF AllPaths
<1>3. \A i \in 1..Len(rest) : rest[i] = key[Len(from) + i]
  BY <1>1 DEF StartsWith, AllPaths
<1>4. back \in AllPaths /\ Len(back) = Len(rest)
  BY <1>1, <1>2 DEF AllPaths
<1>5. \A i \in 1..Len(back) : back[i] = rest[i]
  BY <1>1, <1>2, <1>4 DEF AllPaths
<1>6. from \o back \in AllPaths /\ Len(from \o back) = Len(key)
  BY <1>1, <1>4 DEF StartsWith, AllPaths
<1>7. \A i \in 1..Len(key) : (from \o back)[i] = key[i]
  BY <1>1, <1>3, <1>4, <1>5, <1>6 DEF StartsWith, AllPaths
<1>8. from \o back = key
  BY <1>6, <1>7 DEF AllPaths
<1>9. StartsWith(to, there)
  BY <1>1, <1>2 DEF StartsWith, AllPaths
<1> QED
  BY <1>2, <1>8, <1>9 DEF Rebased
-----------------------------------------------------------------------------
(* The table operations. *)

TableInv ==
  /\ DOMAIN by_path \subseteq AllPaths
  /\ \A p \in DOMAIN by_path : by_path[p] \in Nat
  /\ \A i \in DOMAIN by_ino : i \in Nat /\ i < next /\ by_ino[i] \in AllPaths
  /\ next \in Nat
  /\ MapsInverse
  /\ RootPinned

\* Inodes::ino keeps the table a bijection and only adds the number next.
LEMMA InoKeepsTable ==
  ASSUME TableInv, NEW path \in AllPaths, Ino(path)
  PROVE  /\ TableInv'
         /\ \A i \in DOMAIN by_ino' \ DOMAIN by_ino : i >= next /\ i < next'
<1>1. CASE path \in DOMAIN by_path
  BY <1>1 DEF Ino, TableInv, MapsInverse, RootPinned
<1>2. CASE path \notin DOMAIN by_path
  <2>1. next \notin DOMAIN by_ino
    BY DEF TableInv
  <2>2. /\ DOMAIN by_path' = DOMAIN by_path \cup {path}
        /\ by_path'[path] = next
        /\ \A p \in DOMAIN by_path : by_path'[p] = by_path[p]
    BY <1>2 DEF Ino
  <2>3. /\ DOMAIN by_ino' = DOMAIN by_ino \cup {next}
        /\ by_ino'[next] = path
        /\ \A i \in DOMAIN by_ino : by_ino'[i] = by_ino[i]
    BY <1>2, <2>1 DEF Ino
  <2>4. next' = next + 1
    BY <1>2 DEF Ino
  <2>5. MapsInverse'
    BY <1>2, <2>1, <2>2, <2>3 DEF TableInv, MapsInverse
  <2>6. RootPinned'
    BY <2>2, <2>3 DEF TableInv, RootPinned
  <2> QED
    BY <2>2, <2>3, <2>4, <2>5, <2>6 DEF TableInv
<1> QED
  BY <1>1, <1>2

\* Inodes::remove_tree of anything but the root keeps the table a bijection.
LEMMA RemoveTreeKeepsTable ==
  ASSUME TableInv, NEW path \in AllPaths, path # <<>>, RemoveTree(path)
  PROVE  TableInv' /\ DOMAIN by_ino' \subseteq DOMAIN by_ino /\ next' = next
<1> DEFINE doomed == subtree_keys(path)
<1> DEFINE inos == {by_path[key] : key \in doomed}
<1>1. doomed \subseteq DOMAIN by_path
  BY DEF subtree_keys
<1>2. <<>> \notin doomed
  BY DEF subtree_keys, StartsWith, AllPaths
<1>3. /\ DOMAIN by_path' = DOMAIN by_path \ doomed
      /\ \A p \in DOMAIN by_path' : by_path'[p] = by_path[p]
  BY DEF RemoveTree, RestrictTo
<1>4. /\ DOMAIN by_ino' = DOMAIN by_ino \ inos
      /\ \A i \in DOMAIN by_ino' : by_ino'[i] = by_ino[i]
  BY DEF RemoveTree, RestrictTo
<1>5. next' = next
  BY DEF RemoveTree
<1> HIDE DEF doomed
<1>6. \A p \in DOMAIN by_path : p \notin doomed => by_path[p] \notin inos
  BY <1>1 DEF TableInv, MapsInverse
<1>7. \A i \in DOMAIN by_ino : i \notin inos => by_ino[i] \notin doomed
  BY <1>1 DEF TableInv, MapsInverse
<1> HIDE DEF inos
<1>8. MapsInverse'
  BY <1>3, <1>4, <1>6, <1>7 DEF TableInv, MapsInverse
<1>9. RootPinned'
  BY <1>2, <1>3, <1>4, <1>6 DEF TableInv, RootPinned
<1> QED
  BY <1>3, <1>4, <1>5, <1>8, <1>9 DEF TableInv

\* Inodes::rename keeps the table a bijection, whatever from and to are (one may
\* lie below the other, or they may be equal), as long as neither is the root.
LEMMA RenameKeepsTable ==
  ASSUME TableInv, NEW from \in AllPaths, NEW to \in AllPaths, from # <<>>, to # <<>>,
         RenameTree(from, to)
  PROVE  TableInv' /\ DOMAIN by_ino' \subseteq DOMAIN by_ino /\ next' = next
<1> DEFINE gone == subtree_keys(to)
<1> DEFINE goneInos == {by_path[key] : key \in gone}
<1> DEFINE moving == subtree_keys(from) \ gone
<1> DEFINE movingInos == {by_path[key] : key \in moving}
<1> DEFINE landed == {Rebased(from, to, key) : key \in moving}
<1>1. /\ gone \subseteq DOMAIN by_path
      /\ moving \subseteq DOMAIN by_path \ gone
  BY DEF subtree_keys
<1>2. \A p \in DOMAIN by_path \ gone : ~ StartsWith(to, p)
  BY DEF subtree_keys
<1>3. \A key \in moving : key \in AllPaths /\ StartsWith(from, key)
  BY DEF subtree_keys, StartsWith, TableInv, AllPaths
<1>4. \A key \in moving : /\ Rebased(from, to, key) \in AllPaths
                          /\ StartsWith(to, Rebased(from, to, key))
                          /\ Rebased(to, from, Rebased(from, to, key)) = key
  BY <1>3, MovedBack
<1>5. <<>> \notin gone /\ <<>> \notin moving
  BY DEF subtree_keys, StartsWith, AllPaths
<1>6. /\ DOMAIN by_path' = ((DOMAIN by_path \ gone) \ moving) \cup landed
      /\ \A p \in landed : by_path'[p] = by_path[Rebased(to, from, p)]
      /\ \A p \in (DOMAIN by_path \ gone) \ moving : p \notin landed => by_path'[p] = by_path[p]
  BY DEF RenameTree
<1>7. /\ DOMAIN by_ino' = DOMAIN by_ino \ goneInos
      /\ \A i \in DOMAIN by_ino' : i \in movingInos => by_ino'[i] = Rebased(from, to, by_ino[i])
      /\ \A i \in DOMAIN by_ino' : i \notin movingInos => by_ino'[i] = by_ino[i]
  BY DEF RenameTree
<1>8. next' = next
  BY DEF RenameTree
<1> HIDE DEF gone, moving
<1>9. \A p \in DOMAIN by_path \ gone : p \notin landed
  BY <1>2, <1>4
<1>10. \A p \in DOMAIN by_path \ gone : by_path[p] \in DOMAIN by_ino \ goneInos
  BY <1>1 DEF TableInv, MapsInverse
<1>11. \A p \in DOMAIN by_path \ moving : by_path[p] \notin movingInos
  BY <1>1 DEF TableInv, MapsInverse
<1>12. \A i \in DOMAIN by_ino \ goneInos : by_ino[i] \in DOMAIN by_path \ gone
  BY <1>1 DEF TableInv, MapsInverse
<1>13. \A key \in moving : by_path'[Rebased(from, to, key)] = by_path[key]
  BY <1>4, <1>6
<1>14. \A key \in moving : /\ by_path[key] \in DOMAIN by_ino'
                           /\ by_ino'[by_path[key]] = Rebased(from, to, key)
  <2> SUFFICES ASSUME NEW key \in moving
               PROVE  /\ by_path[key] \in DOMAIN by_ino'
                      /\ by_ino'[by_path[key]] = Rebased(from, to, key)
    OBVIOUS
  <2>1. by_path[key] \in movingInos /\ by_ino[by_path[key]] = key
    BY <1>1 DEF TableInv, MapsInverse
  <2>2. by_path[key] \in DOMAIN by_ino'
    BY <1>1, <1>7, <1>10
  <2> QED
    BY <1>7, <2>1, <2>2
<1>15. \A p \in DOMAIN by_path' : by_path'[p] \in DOMAIN by_ino' /\ by_ino'[by_path'[p]] = p
  <2> SUFFICES ASSUME NEW p \in DOMAIN by_path'
               PROVE  by_path'[p] \in DOMAIN by_ino' /\ by_ino'[by_path'[p]] = p
    OBVIOUS
  <2>1. CASE p \in landed
    BY <2>1, <1>13, <1>14
  <2>2. CASE p \notin landed
    <3>1. p \in DOMAIN by_path \ gone /\ p \notin moving
      BY <2>2, <1>6
    <3>2. by_path'[p] = by_path[p]
      BY <2>2, <3>1, <1>6
    <3>3. by_path[p] \in DOMAIN by_ino' /\ by_path[p] \notin movingInos
      BY <3>1, <1>7, <1>10, <1>11
    <3>4. by_ino[by_path[p]] = p
      BY <3>1 DEF TableInv, MapsInverse
    <3> QED
      BY <3>2, <3>3, <3>4, <1>7
  <2> QED
    BY <2>1, <2>2
<1>16. \A i \in DOMAIN by_ino' : by_ino'[i] \in DOMAIN by_path' /\ by_path'[by_ino'[i]] = i
  <2> SUFFICES ASSUME NEW i \in DOMAIN by_ino'
               PROVE  by_ino'[i] \in DOMAIN by_path' /\ by_path'[by_ino'[i]] = i
    OBVIOUS
  <2>1. /\ by_ino[i] \in DOMAIN by_path \ gone
        /\ by_path[by_ino[i]] = i
    BY <1>7, <1>12 DEF TableInv, MapsInverse
  <2>2. CASE by_ino[i] \in moving
    <3>1. by_ino'[i] = Rebased(from, to, by_ino[i])
      BY <2>1, <2>2, <1>14
    <3> QED
      BY <2>1, <2>2, <3>1, <1>6, <1>13
  <2>3. CASE by_ino[i] \notin moving
    <3>1. by_ino'[i] = by_ino[i]
      BY <2>1, <2>3, <1>7, <1>11
    <3> QED
      BY <2>1, <2>3, <3>1, <1>6, <1>9
  <2> QED
    BY <2>2, <2>3
<1>17. MapsInverse'
  BY <1>15, <1>16 DEF MapsInverse
<1>18. RootPinned'
  <2>1. <<>> \in DOMAIN by_path /\ by_path[<<>>] = ROOT_INO
    BY DEF TableInv, RootPinned
  <2>2. <<>> \in DOMAIN by_path' /\ by_path'[<<>>] = ROOT_INO
    BY <2>1, <1>5, <1>6, <1>9
  <2> QED
    BY <2>2, <1>17 DEF RootPinned, MapsInverse
<1>19. DOMAIN by_path' \subseteq AllPaths
  BY <1>4, <1>6 DEF TableInv
<1>20. DOMAIN by_ino' \subseteq DOMAIN by_ino
  BY <1>7
<1>21. \A p \in DOMAIN by_path' : by_path'[p] \in Nat
  BY <1>15, <1>20 DEF TableInv
<1>22. \A i \in DOMAIN by_ino' : i \in Nat /\ i < next' /\ by_ino'[i] \in AllPaths
  BY <1>8, <1>16, <1>19, <1>20 DEF TableInv
<1> QED
  BY <1>8, <1>17, <1>18, <1>19, <1>20, <1>21, <1>22 DEF TableInv
-----------------------------------------------------------------------------
(* The specification. *)

\* The freshly built table (Inodes::new) satisfies the inductive invariant.
LEMMA InitCallsInv == TableInit => CallsInv
<1> SUFFICES ASSUME TableInit PROVE CallsInv
  OBVIOUS
<1>1. <<>> \in AllPaths
  BY DEF AllPaths
<1>2. TableTypeOK
  BY <1>1 DEF TableInit, TableTypeOK, CallOK, NoCall, ROOT_INO
<1>3. MapsInverse /\ RootPinned
  BY DEF TableInit, MapsInverse, RootPinned, ROOT_INO
<1>4. CallsBelowRoot
  BY DEF TableInit, CallsBelowRoot, NoCall
<1> QED
  BY <1>2, <1>3, <1>4 DEF CallsInv

\* A request that only resolves paths or fails leaves the table alone, and what
\* it writes down are paths, non-empty where the table operation needs it.
LEMMA ResolveKeepsCallsInv ==
  ASSUME CallsInv, NEW t \in Threads, UNCHANGED <<by_path, by_ino, next>>,
         NEW c, call' = [call EXCEPT ![t] = c], CallOK(c),
         c.op \in {"remove", "rename_from", "rename"} => c.path # <<>>,
         c.op = "rename" => c.to # <<>>
  PROVE  CallsInv'
<1>1. TableTypeOK'
  BY DEF CallsInv, TableTypeOK
<1>2. MapsInverse' /\ RootPinned'
  BY DEF CallsInv, MapsInverse, RootPinned
<1>3. CallsBelowRoot'
  BY DEF CallsInv, CallsBelowRoot, TableTypeOK
<1> QED
  BY <1>1, <1>2, <1>3 DEF CallsInv

\* A request that ends having changed the table keeps the invariant as soon as
\* the table operation does.
LEMMA FinishKeepsCallsInv ==
  ASSUME CallsInv, NEW t \in Threads, TableInv', call' = [call EXCEPT ![t] = NoCall]
  PROVE  CallsInv'
<1>1. TableTypeOK'
  BY DEF CallsInv, TableTypeOK, TableInv, CallOK
<1>2. CallsBelowRoot'
  BY DEF CallsInv, CallsBelowRoot, TableTypeOK, NoCall
<1> QED
  BY <1>1, <1>2 DEF CallsInv, TableInv

\* Every step of every request preserves the inductive invariant, and hands out
\* only numbers that were never handed out before.
LEMMA NextCallsInv ==
  ASSUME CallsInv, [TableNext]_tableVars
  PROVE  /\ CallsInv'
         /\ \A i \in DOMAIN by_ino' \ DOMAIN by_ino : i >= next /\ i < next'
<1> USE DEF CallsInv
<1>0. TableInv
  BY DEF TableTypeOK, TableInv
<1>1. ASSUME NEW t \in Threads, NEW parent \in DOMAIN by_ino, NEW name \in Names,
             ChildPath(t, parent, name)
      PROVE  CallsInv' /\ by_ino' = by_ino
  <2>1. by_ino[parent] \in AllPaths
    BY DEF TableTypeOK
  <2>2. /\ Append(by_ino[parent], name) \in AllPaths
        /\ Append(by_ino[parent], name) # <<>>
    BY <2>1 DEF AllPaths
  <2>3. PICK op \in {"ino", "remove", "rename_from"} :
          call' = [call EXCEPT ![t] = [op |-> op, path |-> Append(by_ino[parent], name)]]
    BY <1>1 DEF ChildPath
  <2> DEFINE c == [op |-> op, path |-> Append(by_ino[parent], name)]
  <2>4. CallOK(c)
    BY <2>2 DEF CallOK
  <2>5. c.op # "rename" /\ c.path # <<>>
    BY <2>2
  <2>6. UNCHANGED <<by_path, by_ino, next>>
    BY <1>1 DEF ChildPath
  <2> QED
    BY <2>3, <2>4, <2>5, <2>6, ResolveKeepsCallsInv
<1>2. ASSUME NEW t \in Threads, NEW ino \in DOMAIN by_ino, ParentOf(t, ino)
      PROVE  CallsInv' /\ by_ino' = by_ino
  <2> DEFINE c == [op |-> "ino", path |-> SubSeq(by_ino[ino], 1, Len(by_ino[ino]) - 1)]
  <2>1. by_ino[ino] \in AllPaths
    BY DEF TableTypeOK
  <2>2. \A s \in Seq(Names) : SubSeq(s, 1, Len(s) - 1) \in Seq(Names)
    OBVIOUS
  <2>3. c.path \in AllPaths
    BY <2>1, <2>2 DEF AllPaths
  <2>4. CallOK(c)
    BY <2>3 DEF CallOK
  <2>5. call' = [call EXCEPT ![t] = c] /\ UNCHANGED <<by_path, by_ino, next>>
    BY <1>2 DEF ParentOf
  <2>6. c.op = "ino"
    OBVIOUS
  <2> HIDE DEF c
  <2> QED
    BY <2>4, <2>5, <2>6, ResolveKeepsCallsInv
<1>3. ASSUME NEW t \in Threads, NEW parent \in DOMAIN by_ino, NEW name \in Names,
             RenameTarget(t, parent, name)
      PROVE  CallsInv' /\ by_ino' = by_ino
  <2> DEFINE c == [op |-> "rename", path |-> call[t].path,
                   to |-> Append(by_ino[parent], name)]
  <2>1. by_ino[parent] \in AllPaths
    BY DEF TableTypeOK
  <2>2. c.to \in AllPaths /\ c.to # <<>>
    BY <2>1 DEF AllPaths
  <2>3. call[t].op = "rename_from" /\ CallOK(call[t])
    BY <1>3 DEF RenameTarget, TableTypeOK
  <2>4. c.path \in AllPaths /\ c.path # <<>>
    BY <2>3 DEF CallOK, NoCall, CallsBelowRoot
  <2>5. CallOK(c)
    BY <2>2, <2>4 DEF CallOK
  <2>6. call' = [call EXCEPT ![t] = c] /\ UNCHANGED <<by_path, by_ino, next>>
    BY <1>3 DEF RenameTarget
  <2> HIDE DEF c
  <2> QED
    BY <2>2, <2>4, <2>5, <2>6, ResolveKeepsCallsInv
<1>4. ASSUME NEW t \in Threads, FinishIno(t)
      PROVE  CallsInv' /\ \A i \in DOMAIN by_ino' \ DOMAIN by_ino : i >= next /\ i < next'
  <2>1. call[t].path \in AllPaths
    BY <1>4 DEF FinishIno, TableTypeOK, CallOK, NoCall
  <2>2. /\ TableInv'
        /\ \A i \in DOMAIN by_ino' \ DOMAIN by_ino : i >= next /\ i < next'
    BY <1>0, <1>4, <2>1, InoKeepsTable DEF FinishIno
  <2>3. CallsInv'
    BY <1>4, <2>2, FinishKeepsCallsInv DEF FinishIno
  <2> QED
    BY <2>2, <2>3
<1>5. ASSUME NEW t \in Threads, FinishRemove(t)
      PROVE  CallsInv' /\ DOMAIN by_ino' \subseteq DOMAIN by_ino
  <2>1. call[t].path \in AllPaths /\ call[t].path # <<>>
    BY <1>5 DEF FinishRemove, TableTypeOK, CallOK, NoCall, CallsBelowRoot
  <2>2. TableInv' /\ DOMAIN by_ino' \subseteq DOMAIN by_ino
    BY <1>0, <1>5, <2>1, RemoveTreeKeepsTable DEF FinishRemove
  <2>3. CallsInv'
    BY <1>5, <2>2, FinishKeepsCallsInv DEF FinishRemove
  <2> QED
    BY <2>2, <2>3
<1>6. ASSUME NEW t \in Threads, FinishRename(t)
      PROVE  CallsInv' /\ DOMAIN by_ino' \subseteq DOMAIN by_ino
  <2>1. /\ call[t].path \in AllPaths /\ call[t].path # <<>>
        /\ call[t].to \in AllPaths /\ call[t].to # <<>>
    BY <1>6 DEF FinishRename, TableTypeOK, CallOK, NoCall, CallsBelowRoot
  <2>2. TableInv' /\ DOMAIN by_ino' \subseteq DOMAIN by_ino
    BY <1>0, <1>6, <2>1, RenameKeepsTable DEF FinishRename
  <2>3. CallsInv'
    BY <1>6, <2>2, FinishKeepsCallsInv DEF FinishRename
  <2> QED
    BY <2>2, <2>3
<1>7. ASSUME NEW t \in Threads, Fail(t)
      PROVE  CallsInv' /\ by_ino' = by_ino
  BY <1>7, ResolveKeepsCallsInv DEF Fail, CallOK, NoCall
<1>8. CASE UNCHANGED tableVars
  BY <1>8 DEF tableVars, TableTypeOK, MapsInverse, RootPinned, CallsBelowRoot
<1> QED
  BY <1>1, <1>2, <1>3, <1>4, <1>5, <1>6, <1>7, <1>8 DEF TableNext

\* Whatever requests run, with whatever paths they resolved before others
\* changed the table: types are kept, by_path and by_ino stay inverse, and the
\* root keeps its number.
THEOREM TableCorrect == TableSpec => [](TableTypeOK /\ MapsInverse /\ RootPinned)
<1>1. TableInit => CallsInv
  BY InitCallsInv
<1>2. CallsInv /\ [TableNext]_tableVars => CallsInv'
  BY NextCallsInv
<1>3. CallsInv => TableTypeOK /\ MapsInverse /\ RootPinned
  BY DEF CallsInv
<1> QED
  BY <1>1, <1>2, <1>3, PTL DEF TableSpec

\* The table's types: in particular a number below the counter for every path.
THEOREM TableTypes == TableSpec => []TableTypeOK
BY TableCorrect, PTL

\* No request, whatever it renames or removes, moves the root off its number.
THEOREM RootStays == TableSpec => []RootPinned
BY TableCorrect, PTL

\* Inode numbers are never reused: every number that enters the table is one
\* the counter had not reached.
THEOREM NumbersNotReused == TableSpec => NoReuse
<1>1. TableInit => CallsInv
  BY InitCallsInv
<1>2. CallsInv /\ [TableNext]_tableVars => CallsInv'
  BY NextCallsInv
<1>3. CallsInv /\ [TableNext]_tableVars =>
        [\A i \in DOMAIN by_ino' \ DOMAIN by_ino : i >= next /\ i < next']_tableVars
  BY NextCallsInv
<1> QED
  BY <1>1, <1>2, <1>3, PTL DEF TableSpec, NoReuse
=============================================================================
