-------------------------- MODULE BlockCacheProofs --------------------------
(***************************************************************************)
(* The block cache, for any files, workers, block size, capacity and       *)
(* number of changes.  What is cached is accounted for and every block has *)
(* one fetcher, whatever happens; and a cached block that is out of date   *)
(* has an invalidation on its way, or is in missed for one of its reasons. *)
(***************************************************************************)
EXTENDS BlockCache, FiniteSetTheorems, SequenceTheorems, WellFoundedInduction, TLAPS

Claiming == {"lead", "read", "insert", "unclaim"}
Fetching == [pc : Claiming \cup {"finish"}, run : BOOLEAN, path : Files, first : Nat, n : Nat,
             floor : Nat, gen : Nat, data : Seq(Contents), pos : Nat]
Asking == [pc : {"miss"}, key : Keys, floor : Nat]
Following == [pc : {"wait", "woken", "direct"}, key : Keys, floor : Nat, on : Workers]
Returning == [pc : {"done"}, key : Keys, data : Contents, floor : Nat]
Task == {Idle} \cup Fetching \cup Asking \cup Following \cup Returning

\* A fetch is of one block or more, all of the file; a fetch that inserts has
\* data left, and begins with the first block.
FlightOK(t) ==
  /\ t.n >= 1 /\ \A i \in t.first..(t.first + t.n - 1) : i \in Indexes
  /\ Len(t.data) <= t.n
  /\ t.pc = "insert" => t.pos \in 1..Len(t.data)
  /\ t.pc \in {"lead", "read"} => t.pos = 1
  /\ IF t.run THEN t.floor = 0 ELSE t.n = 1

ServerOK ==
  /\ size \in [Files -> 0..MaxSize] /\ changes \in 0..MaxChanges
  /\ ver \in [Keys -> Nat] /\ floor \in [Keys -> Nat]
  /\ \A k \in Keys : ver[k] <= changes /\ floor[k] <= ver[k]
  /\ missed \subseteq Keys
StoreOK ==
  /\ DOMAIN blocks \subseteq Keys /\ \A k \in DOMAIN blocks : blocks[k] \in Contents
  /\ generations \in [Files \cup {Dir} -> Nat]
TasksOK ==
  /\ DOMAIN inflight \subseteq Keys /\ \A k \in DOMAIN inflight : inflight[k] \in Workers
  /\ task \in [Workers -> Task]
  /\ \A w \in Workers : task[w] \in Fetching => FlightOK(task[w])

\* An invalidation announces no more than the server has, and there are no more
\* of them than changes that were not delivered yet.
NoticeOK(e) ==
  /\ e = [id |-> e.id, feed |-> e.feed, inv |-> e.inv, news |-> e.news]
  /\ DOMAIN e.news \subseteq Keys
  /\ \A k \in DOMAIN e.news : e.news[k] \in Nat /\ e.news[k] <= ver[k]
PendingOK ==
  /\ IsFiniteSet(pending) /\ \A e \in pending : NoticeOK(e)
  /\ \A p \in Files \cup {Dir} : generations[p] + Cardinality(pending) <= changes

\* The inductive invariant of the cache's book-keeping.
IInv == ServerOK /\ StoreOK /\ TasksOK /\ PendingOK /\ Accounting /\ SingleFlight

\* Delivering inv drops block k, and its path gets a new generation, unless the
\* whole cache is cleared.
Drops(inv, k) ==
  \/ /\ inv.kind = "range" /\ k[1] = inv.path
     /\ k[2] \in (inv.offset \div BLOCK_SIZE)..((inv.offset + Max({inv.len, 1}) - 1) \div BLOCK_SIZE)
  \/ inv.kind = "path" /\ k[1] = inv.path
  \/ inv.kind = "tree" /\ k[1] \in Below(inv.path)
  \/ inv.kind = "where" /\ k[1] \in inv.paths
  \/ inv.kind = "clear"

\* Content c of block k is the server's, or an invalidation that drops it is on
\* its way; one that announces the block and does not drop it has nothing new.
NewsOf(k) == \E e \in pending : k \in DOMAIN e.news /\ Drops(e.inv, k)
NotNews(k, c) ==
  \A e \in pending : k \in DOMAIN e.news /\ ~Drops(e.inv, k) => c.ver >= e.news[k]
UpToDate(k, c) ==
  /\ c.ver >= floor[k]
  /\ k \in missed \/ ((c = Content(k) \/ NewsOf(k)) /\ NotNews(k, c))
KeyAt(t, i) == <<t.path, t.first + i - 1>>

CacheFresh == \A k \in DOMAIN blocks : UpToDate(k, blocks[k])

\* Data on its way into the cache is as good as what is in the cache, unless
\* its path has got a new generation meanwhile.
TaskFresh(t) ==
  t \in Fetching /\ t.pc # "lead" =>
    /\ t.gen <= generations[t.path]
    /\ t.pc = "insert" /\ t.gen = generations[t.path] =>
         \A i \in 1..Len(t.data) : UpToDate(KeyAt(t, i), t.data[i])
FlightsFresh == \A w \in Workers : TaskFresh(task[w])

\* What had been announced when a fetch began.
FloorOK(t) ==
  /\ t \in Asking \cup Following => t.floor <= floor[t.key]
  /\ t \in Fetching =>
       /\ t.floor <= floor[<<t.path, t.first>>]
       /\ \A i \in 1..Len(t.data) : t.data[i].ver >= t.floor
  /\ t \in Returning => t.data.ver >= t.floor
FloorsOK == \A w \in Workers : FloorOK(task[w])

CInv == CacheFresh /\ FlightsFresh /\ FloorsOK

-----------------------------------------------------------------------------
(* Lengths and orders. *)

\* A set of numbers that is not empty has a least one.
LEMMA LeastOf ==
  ASSUME NEW S, S \subseteq Nat, S # {}
  PROVE  \E m \in S : \A x \in S : m <= x
<1> DEFINE Less == {p \in Nat \X Nat : p[1] < p[2]}
<1>1. IsWellFoundedOn(Less, Nat)
  BY NatLessThanWellFounded DEF OpToRel
<1>2. \A x, y \in Nat : x < y => <<x, y>> \in Less
  OBVIOUS
<1> HIDE DEF Less
<1>3. PICK m \in S : \A y \in S : ~(<<y, m>> \in Less)
  BY <1>1, WFMin
<1>4. ASSUME NEW y \in S PROVE m <= y
  <2>1. y \in Nat /\ m \in Nat /\ <<y, m>> \notin Less
    BY <1>3
  <2>2. ~(y < m)
    BY <1>2, <2>1
  <2> QED
    BY <2>1, <2>2
<1> QED
  BY <1>4

\* The larger of two numbers.
LEMMA MaxOfTwo ==
  ASSUME NEW a \in Nat, NEW b \in Nat
  PROVE  Max({a, b}) \in {a, b} /\ Max({a, b}) >= a /\ Max({a, b}) >= b
<1>1. \E x \in {a, b} : \A y \in {a, b} : x >= y
  <2>1. CASE a >= b
    BY <2>1
  <2>2. CASE b >= a
    BY <2>2
  <2> QED
    BY <2>1, <2>2
<1> QED
  BY <1>1 DEF Max

\* The smaller of two numbers.
LEMMA MinOfTwo ==
  ASSUME NEW a \in Nat, NEW b \in Nat
  PROVE  Min({a, b}) \in {a, b} /\ Min({a, b}) <= a /\ Min({a, b}) <= b
<1>1. \E x \in {a, b} : \A y \in {a, b} : x <= y
  <2>1. CASE a <= b
    BY <2>1
  <2>2. CASE b <= a
    BY <2>2
  <2> QED
    BY <2>1, <2>2
<1> QED
  BY <1>1 DEF Min

\* The blocks of all files.
LEMMA KeysAre == IsFiniteSet(Keys) /\ Keys = Files \X Indexes /\ Indexes \subseteq Nat
<1>1. (MaxSize - 1) \div BLOCK_SIZE \in Int
  BY CacheAssumption
<1>2. IsFiniteSet(Indexes) /\ Indexes \subseteq Nat
  BY <1>1, FS_Interval DEF Indexes
<1> QED
  BY <1>2, FS_Product, CacheAssumption DEF Keys

Units(bs, keys) == UNION {{key} \X (1..bs[key].len) : key \in keys}

\* The units of blocks that are kept and of those that are dropped.
LEMMA TotalSplit ==
  ASSUME NEW S \in SUBSET Keys, NEW T \in SUBSET S, NEW bs, \A k \in S : bs[k] \in Contents
  PROVE  /\ TotalLen(bs, S) \in Nat /\ TotalLen(bs, T) \in Nat /\ TotalLen(bs, S \ T) \in Nat
         /\ TotalLen(bs, S \ T) = TotalLen(bs, S) - TotalLen(bs, T)
<1>1. Units(bs, S) \subseteq Keys \X (1..BLOCK_SIZE)
  <2> SUFFICES ASSUME NEW k \in S, NEW u \in {k} \X (1..bs[k].len)
               PROVE  u \in Keys \X (1..BLOCK_SIZE)
    BY DEF Units
  <2>1. bs[k].len \in 0..BLOCK_SIZE /\ BLOCK_SIZE \in Nat
    BY CacheAssumption DEF Contents
  <2>2. 1..bs[k].len \subseteq 1..BLOCK_SIZE
    BY <2>1
  <2> QED
    BY <2>2
<1>2. IsFiniteSet(Keys \X (1..BLOCK_SIZE))
  <2>1. BLOCK_SIZE \in Int /\ 1 \in Int
    BY CacheAssumption
  <2> QED
    BY <2>1, KeysAre, FS_Interval, FS_Product
<1>3. IsFiniteSet(Units(bs, S))
  BY <1>1, <1>2, FS_Subset
<1>4. /\ Units(bs, S) \cap Units(bs, T) = Units(bs, T)
      /\ Units(bs, S) \ Units(bs, T) = Units(bs, S \ T)
  <2>1. \A u : u \in Units(bs, S) <=> \E k \in S : u \in {k} \X (1..bs[k].len)
    BY DEF Units
  <2>2. \A u : u \in Units(bs, T) <=> \E k \in T : u \in {k} \X (1..bs[k].len)
    BY DEF Units
  <2>3. \A u : u \in Units(bs, S \ T) <=> \E k \in S \ T : u \in {k} \X (1..bs[k].len)
    BY DEF Units
  <2>4. \A k, j, u : u \in {k} \X (1..bs[k].len) /\ u \in {j} \X (1..bs[j].len) => k = j
    OBVIOUS
  <2>5. \A u : u \in Units(bs, T) => u \in Units(bs, S)
    BY <2>1, <2>2
  <2>6. \A u : u \in Units(bs, S \ T) <=> u \in Units(bs, S) /\ u \notin Units(bs, T)
    <3> TAKE u
    <3>1. ASSUME u \in Units(bs, S \ T) PROVE u \in Units(bs, S) /\ u \notin Units(bs, T)
      <4>1. PICK k \in S \ T : u \in {k} \X (1..bs[k].len)
        BY <2>3, <3>1
      <4>2. u \in Units(bs, S)
        BY <2>1, <4>1
      <4>3. ASSUME NEW j \in T, u \in {j} \X (1..bs[j].len) PROVE FALSE
        <5>1. k = j
          BY <2>4, <4>1, <4>3
        <5> QED
          BY <4>1, <5>1
      <4> QED
        BY <2>2, <4>2, <4>3
    <3>2. ASSUME u \in Units(bs, S), u \notin Units(bs, T) PROVE u \in Units(bs, S \ T)
      <4>1. PICK k \in S : u \in {k} \X (1..bs[k].len)
        BY <2>1, <3>2
      <4>2. k \notin T
        BY <2>2, <3>2, <4>1
      <4> QED
        BY <2>3, <4>1, <4>2
    <3> QED
      BY <3>1, <3>2
  <2> QED
    BY <2>5, <2>6
<1>5. /\ IsFiniteSet(Units(bs, S) \ Units(bs, T)) /\ IsFiniteSet(Units(bs, S) \cap Units(bs, T))
      /\ Cardinality(Units(bs, S) \ Units(bs, T))
           = Cardinality(Units(bs, S)) - Cardinality(Units(bs, S) \cap Units(bs, T))
  BY <1>3, FS_Difference, FS_Intersection
<1>6. \A R : TotalLen(bs, R) = Cardinality(Units(bs, R))
  BY DEF TotalLen, Units
<1> QED
  BY <1>3, <1>4, <1>5, <1>6, FS_CardinalityType

\* The length counts what the blocks in question are.
LEMMA TotalSame ==
  ASSUME NEW S, NEW bs, NEW cs, \A k \in S : bs[k] = cs[k]
  PROVE  TotalLen(bs, S) = TotalLen(cs, S)
<1>1. \A k \in S : {k} \X (1..bs[k].len) = {k} \X (1..cs[k].len)
  OBVIOUS
<1>2. {{k} \X (1..bs[k].len) : k \in S} = {{k} \X (1..cs[k].len) : k \in S}
  BY <1>1
<1> QED
  BY <1>2 DEF TotalLen

\* The length of one block.
LEMMA TotalOne ==
  ASSUME NEW k, NEW bs, bs[k] \in Contents
  PROVE  TotalLen(bs, {k}) = bs[k].len
<1>1. bs[k].len \in Nat
  BY CacheAssumption DEF Contents
<1>2. TotalLen(bs, {k}) = Cardinality({k} \X (1..bs[k].len))
  <2>1. UNION {{j} \X (1..bs[j].len) : j \in {k}} = {k} \X (1..bs[k].len)
    OBVIOUS
  <2> QED
    BY <2>1 DEF TotalLen
<1>3. IsFiniteSet({k}) /\ Cardinality({k}) = 1
  BY FS_Singleton
<1>4. IsFiniteSet(1..bs[k].len) /\ Cardinality(1..bs[k].len) = bs[k].len
  <2> DEFINE n == bs[k].len
  <2>1. n \in Nat
    BY <1>1
  <2> HIDE DEF n
  <2>2. IsFiniteSet(1..n) /\ Cardinality(1..n) = n
    BY <2>1, FS_Interval
  <2> QED
    BY <2>2 DEF n
<1>5. Cardinality({k} \X (1..bs[k].len)) = Cardinality({k}) * Cardinality(1..bs[k].len)
  BY <1>3, <1>4, FS_Product
<1> QED
  BY <1>1, <1>2, <1>3, <1>4, <1>5

\* A block that is used comes last in the order.
LEMMA UsedLinear ==
  ASSUME NEW S, NEW order, Linear(order, S), NEW key
  PROVE  Linear(Used(order, key), S \cup {key})
<1> DEFINE new == Used(order, key)
<1>1. \A a, b : <<a, b>> \in new <=> \/ a # key /\ b # key /\ <<a, b>> \in order
                                     \/ b = key /\ (a \in S \/ a = key)
  <2>1. {p[1] : p \in order} = S
    <3>1. \A a \in S : <<a, a>> \in order /\ <<a, a>>[1] = a
      BY DEF Linear
    <3>2. \A p \in order : p[1] \in S
      BY DEF Linear
    <3> QED
      BY <3>1, <3>2
  <2>2. \A a, b : <<a, b>> \in {p \in order : p[1] # key /\ p[2] # key}
                    <=> a # key /\ b # key /\ <<a, b>> \in order
    OBVIOUS
  <2>3. \A a, b : <<a, b>> \in {<<k, key>> : k \in S \cup {key}} <=> b = key /\ (a \in S \/ a = key)
    OBVIOUS
  <2> QED
    BY <2>1, <2>2, <2>3 DEF Used
<1>2. new \subseteq (S \cup {key}) \X (S \cup {key})
  BY DEF Used, Linear
<1> HIDE DEF new
<1>3. \A a, b \in S \cup {key} : <<a, b>> \in new \/ <<b, a>> \in new
  BY <1>1 DEF Linear
<1>4. \A a, b \in S \cup {key} : <<a, b>> \in new /\ <<b, a>> \in new => a = b
  BY <1>1 DEF Linear
<1>5. \A a, b, c \in S \cup {key} : <<a, b>> \in new /\ <<b, c>> \in new => <<a, c>> \in new
  BY <1>1 DEF Linear
<1> QED
  BY <1>2, <1>3, <1>4, <1>5 DEF Linear, new

\* What is left of an order is an order.
LEMMA UnusedLinear ==
  ASSUME NEW S, NEW order, Linear(order, S), NEW T
  PROVE  Linear(Unused(order, T), S \ T)
<1>1. \A a, b : <<a, b>> \in Unused(order, T) <=> a \notin T /\ b \notin T /\ <<a, b>> \in order
  BY DEF Unused
<1>2. Unused(order, T) \subseteq (S \ T) \X (S \ T)
  BY DEF Unused, Linear
<1> QED
  BY <1>1, <1>2 DEF Linear

\* Of some blocks, one was used before all the others.
LEMMA Oldest ==
  ASSUME NEW S, IsFiniteSet(S), NEW order, Linear(order, S), NEW R \in SUBSET S, R # {}
  PROVE  \E k \in R : \A j \in R : <<k, j>> \in order
<1> DEFINE before(k) == {j \in S : <<j, k>> \in order}
           counts == {Cardinality(before(k)) : k \in R}
<1>1. \A k : before(k) \in SUBSET S /\ IsFiniteSet(before(k)) /\ Cardinality(before(k)) \in Nat
  BY FS_Subset, FS_CardinalityType
<1>2. PICK k \in R : \A j \in R : Cardinality(before(k)) <= Cardinality(before(j))
  <2>1. counts \subseteq Nat /\ counts # {}
    BY <1>1
  <2>2. PICK m \in counts : \A x \in counts : m <= x
    <3> HIDE DEF counts
    <3> QED
      BY <2>1, LeastOf
  <2> QED
    BY <2>2
<1>3. ASSUME NEW j \in R, <<k, j>> \notin order PROVE FALSE
  <2>1. <<j, k>> \in order /\ <<k, k>> \in order
    BY <1>3 DEF Linear
  <2>2. before(j) \subseteq before(k) /\ k \in before(k) /\ k \notin before(j)
    BY <1>3, <2>1 DEF Linear
  <2>3. Cardinality(before(j)) <= Cardinality(before(k)) /\ Cardinality(before(j)) # Cardinality(before(k))
    <3> HIDE DEF before
    <3> QED
      BY <1>1, <2>2, FS_Subset
  <2> HIDE DEF before
  <2> QED
    BY <1>1, <1>2, <2>3
<1> QED
  BY <1>3

-----------------------------------------------------------------------------
(* The store. *)

\* The eviction loop of insert leaves no more than the capacity.
LEMMA EvictionFits ==
  ASSUME NEW S \in SUBSET Keys, NEW bs, DOMAIN bs = S, \A k \in S : bs[k] \in Contents,
         NEW order, Linear(order, S), NEW total, total = TotalLen(bs, S)
  PROVE  LET victims == Victims(bs, order, total)
         IN /\ victims \subseteq S
            /\ total - TotalLen(bs, victims) = TotalLen(bs, S \ victims)
            /\ TotalLen(bs, S \ victims) <= capacity
<1> DEFINE V == Victims(bs, order, total)
           before(k) == {j \in S : j # k /\ <<j, k>> \in order}
<1>1. V = {k \in S : total - TotalLen(bs, before(k)) > capacity}
  BY DEF Victims
<1> HIDE DEF V
<1>2. V \subseteq S
  BY <1>1
<1>3. /\ TotalLen(bs, S) \in Nat /\ TotalLen(bs, V) \in Nat /\ TotalLen(bs, S \ V) \in Nat
      /\ TotalLen(bs, S \ V) = TotalLen(bs, S) - TotalLen(bs, V)
  BY <1>2, TotalSplit
<1>4. TotalLen(bs, S \ V) <= capacity
  <2>1. CASE S \ V = {}
    <3>1. TotalLen(bs, {}) = 0
      <4>1. UNION {{k} \X (1..bs[k].len) : k \in {}} = {}
        OBVIOUS
      <4> QED
        BY <4>1, FS_EmptySet DEF TotalLen
    <3>2. TotalLen(bs, S \ V) = TotalLen(bs, {})
      BY <2>1
    <3>3. 0 <= capacity
      BY CacheAssumption
    <3> QED
      BY <3>1, <3>2, <3>3
  <2>2. CASE S \ V # {}
    <3>1. IsFiniteSet(S)
      BY KeysAre, FS_Subset
    <3>2. PICK k \in S \ V : \A j \in S \ V : <<k, j>> \in order
      BY <2>2, <3>1, Oldest
    <3>3. before(k) \subseteq V
      BY <3>2 DEF Linear
    <3>4. before(k) \subseteq V /\ V \subseteq Keys /\ \A j \in V : bs[j] \in Contents
      BY <1>2, <3>3
    <3> HIDE DEF before
    <3>5. /\ TotalLen(bs, before(k)) \in Nat /\ TotalLen(bs, V \ before(k)) \in Nat
          /\ TotalLen(bs, V \ before(k)) = TotalLen(bs, V) - TotalLen(bs, before(k))
      BY <3>4, TotalSplit
    <3>6. ~(total - TotalLen(bs, before(k)) > capacity)
      BY <1>1, <3>2
    <3> QED
      BY <1>3, <3>5, <3>6, CacheAssumption
  <2> QED
    BY <2>1, <2>2
<1> QED
  BY <1>2, <1>3, <1>4 DEF V

\* insert keeps the accounts and puts in nothing but the block.
LEMMA PutKeeps ==
  ASSUME StoreOK, Accounting, NEW key \in Keys, NEW c \in Contents, Put(key, c)
  PROVE  /\ Accounting'
         /\ DOMAIN blocks' \subseteq DOMAIN blocks \cup {key}
         /\ \A k \in DOMAIN blocks' : blocks'[k] = IF k = key THEN c ELSE blocks[k]
<1> DEFINE D == DOMAIN blocks
           S == D \cup {key}
           old == IF key \in D THEN blocks[key].len ELSE 0
           bs == [k \in S |-> IF k = key THEN c ELSE blocks[k]]
           order == Used(lru, key)
           total == bytes - old + c.len
           V == Victims(bs, order, total)
<1>1. /\ blocks' = Restrict(bs, DOMAIN bs \ V) /\ lru' = Unused(order, V)
      /\ bytes' = total - TotalLen(bs, V)
  BY DEF Put
<1>2. /\ D \subseteq Keys /\ (\A k \in D : blocks[k] \in Contents) /\ S \in SUBSET Keys
      /\ bytes = TotalLen(blocks, D) /\ Linear(lru, D)
  BY DEF StoreOK, Accounting
<1>3. /\ DOMAIN bs = S /\ (\A k \in S : bs[k] \in Contents) /\ bs[key] = c
      /\ \A k \in D \ {key} : bs[k] = blocks[k]
  BY <1>2
<1>4. Linear(order, S)
  BY <1>2, UsedLinear
<1> HIDE DEF D, order
<1>5. total = TotalLen(bs, S)
  <2>1. /\ TotalLen(bs, S) \in Nat /\ TotalLen(bs, {key}) \in Nat
        /\ TotalLen(bs, S \ {key}) = TotalLen(bs, S) - TotalLen(bs, {key})
    <3> HIDE DEF bs
    <3>1. {key} \in SUBSET S
      OBVIOUS
    <3> QED
      BY <1>2, <1>3, <3>1, TotalSplit
  <2>2. TotalLen(bs, {key}) = c.len
    <3> HIDE DEF bs
    <3> QED
      BY <1>3, TotalOne
  <2>3. TotalLen(bs, S \ {key}) = TotalLen(blocks, D \ {key})
    <3>1. S \ {key} = D \ {key}
      OBVIOUS
    <3> HIDE DEF bs
    <3> QED
      BY <1>3, <3>1, TotalSame
  <2>4. TotalLen(blocks, D \ {key}) = TotalLen(blocks, D) - old /\ TotalLen(blocks, D) \in Nat /\ old \in Nat
    <3>1. CASE key \in D
      <4>1. {key} \in SUBSET D /\ D \in SUBSET Keys /\ old = blocks[key].len
        BY <1>2, <3>1
      <4>2. /\ TotalLen(blocks, D \ {key}) = TotalLen(blocks, D) - TotalLen(blocks, {key})
            /\ TotalLen(blocks, D) \in Nat /\ TotalLen(blocks, {key}) \in Nat
        BY <1>2, <4>1, TotalSplit
      <4>3. TotalLen(blocks, {key}) = blocks[key].len
        BY <1>2, <3>1, TotalOne
      <4> QED
        BY <4>1, <4>2, <4>3
    <3>2. CASE key \notin D
      <4>1. D \ {key} = D /\ D \in SUBSET D /\ D \in SUBSET Keys
        BY <1>2, <3>2
      <4>2. TotalLen(blocks, D) \in Nat
        BY <1>2, <4>1, TotalSplit
      <4> QED
        BY <3>2, <4>1, <4>2
    <3> QED
      BY <3>1, <3>2
  <2>5. c.len \in Nat
    BY CacheAssumption DEF Contents
  <2> HIDE DEF bs, old
  <2> QED
    BY <1>2, <2>1, <2>2, <2>3, <2>4, <2>5
<1> HIDE DEF total, bs
<1>6. /\ V \subseteq S /\ total - TotalLen(bs, V) = TotalLen(bs, S \ V)
      /\ TotalLen(bs, S \ V) <= capacity
  BY <1>2, <1>3, <1>4, <1>5, EvictionFits
<1> HIDE DEF V
<1>7. DOMAIN blocks' = S \ V /\ \A k \in S \ V : blocks'[k] = bs[k]
  BY <1>1, <1>3 DEF Restrict
<1>8. Accounting'
  <2>1. TotalLen(blocks', S \ V) = TotalLen(bs, S \ V)
    BY <1>7, TotalSame
  <2>2. Linear(lru', S \ V)
    BY <1>1, <1>4, UnusedLinear
  <2>3. bytes' = TotalLen(blocks', DOMAIN blocks') /\ bytes' <= capacity /\ Linear(lru', DOMAIN blocks')
    BY <1>1, <1>6, <1>7, <2>1, <2>2
  <2> QED
    BY <2>3 DEF Accounting, TotalLen, Linear
<1>9. DOMAIN blocks' \subseteq DOMAIN blocks \cup {key}
  BY <1>7 DEF D
<1>10. \A k \in DOMAIN blocks' : blocks'[k] = IF k = key THEN c ELSE blocks[k]
  BY <1>7 DEF bs
<1> QED
  BY <1>8, <1>9, <1>10

\* The blocks a call of invalidate_where removes.
Doomed(paths, keep) == {key \in DOMAIN blocks : key[1] \in paths /\ key[2] \notin keep}

\* invalidate_where keeps the accounts.
LEMMA InvalidateKeeps ==
  ASSUME StoreOK, Accounting, NEW paths, NEW keep, InvalidateWhere(paths, keep)
  PROVE  /\ Accounting'
         /\ DOMAIN blocks' = DOMAIN blocks \ Doomed(paths, keep)
         /\ \A k \in DOMAIN blocks' : blocks'[k] = blocks[k]
         /\ generations' = [p \in Files \cup {Dir} |-> generations[p] + (IF p \in paths THEN 1 ELSE 0)]
<1> DEFINE D == DOMAIN blocks
           V == Doomed(paths, keep)
<1>1. /\ blocks' = Restrict(blocks, D \ V) /\ lru' = Unused(lru, V)
      /\ bytes' = bytes - TotalLen(blocks, V)
      /\ generations' = [p \in DOMAIN generations |-> generations[p] + (IF p \in paths THEN 1 ELSE 0)]
  BY DEF InvalidateWhere, Doomed
<1>2. /\ D \in SUBSET Keys /\ (\A k \in D : blocks[k] \in Contents) /\ V \in SUBSET D
      /\ bytes = TotalLen(blocks, D) /\ bytes <= capacity /\ Linear(lru, D)
      /\ DOMAIN generations = Files \cup {Dir}
  BY DEF StoreOK, Accounting, Doomed
<1> HIDE DEF V
<1>3. DOMAIN blocks' = D \ V /\ \A k \in D \ V : blocks'[k] = blocks[k]
  BY <1>1 DEF Restrict
<1>4. /\ TotalLen(blocks, D) \in Nat /\ TotalLen(blocks, V) \in Nat
      /\ TotalLen(blocks, D \ V) = TotalLen(blocks, D) - TotalLen(blocks, V)
  BY <1>2, TotalSplit
<1>5. Accounting'
  <2>1. TotalLen(blocks', D \ V) = TotalLen(blocks, D \ V)
    BY <1>3, TotalSame
  <2>2. Linear(lru', D \ V)
    BY <1>1, <1>2, UnusedLinear
  <2>3. bytes' <= capacity
    BY <1>1, <1>2, <1>4, CacheAssumption
  <2>4. bytes' = TotalLen(blocks', DOMAIN blocks') /\ bytes' <= capacity /\ Linear(lru', DOMAIN blocks')
    BY <1>1, <1>2, <1>3, <1>4, <2>1, <2>2, <2>3
  <2> QED
    BY <2>4 DEF Accounting, TotalLen, Linear
<1> QED
  BY <1>1, <1>2, <1>3, <1>5 DEF V

\* get of a block that is there keeps the accounts.
LEMMA HitKeeps ==
  ASSUME StoreOK, Accounting, NEW key, GetHit(key)
  PROVE  Accounting'
<1>1. key \in DOMAIN blocks /\ lru' = Used(lru, key) /\ UNCHANGED <<blocks, bytes>>
  BY DEF GetHit
<1>2. Linear(Used(lru, key), DOMAIN blocks \cup {key}) /\ DOMAIN blocks \cup {key} = DOMAIN blocks
  BY <1>1, UsedLinear DEF Accounting
<1>3. Linear(lru', DOMAIN blocks')
  BY <1>1, <1>2
<1> QED
  BY <1>1, <1>3 DEF Accounting, TotalLen, Linear

\* clear empties the cache.
LEMMA ClearKeeps ==
  ASSUME Clear
  PROVE  Accounting' /\ DOMAIN blocks' = {}
<1>1. DOMAIN blocks' = {} /\ lru' = {} /\ bytes' = 0
  BY DEF Clear
<1>2. UNION {{k} \X (1..blocks'[k].len) : k \in {}} = {}
  OBVIOUS
<1>3. bytes' = TotalLen(blocks', DOMAIN blocks')
  BY <1>1, <1>2, FS_EmptySet DEF TotalLen
<1>4. Linear(lru', DOMAIN blocks')
  BY <1>1 DEF Linear
<1> QED
  BY <1>1, <1>3, <1>4, CacheAssumption DEF Accounting, TotalLen, Linear

-----------------------------------------------------------------------------
(* The workers. *)

\* The program counter tells what a worker is doing.
LEMMA TaskIs ==
  ASSUME NEW x \in Task
  PROVE  /\ x.pc \in Claiming \cup {"finish"} <=> x \in Fetching
         /\ x.pc = "miss" <=> x \in Asking
         /\ x.pc \in {"wait", "woken", "direct"} <=> x \in Following
         /\ x.pc = "done" <=> x \in Returning
         /\ x.pc = "idle" <=> x = Idle
<1>1. CASE x = Idle
  BY <1>1 DEF Idle, Fetching, Asking, Following, Returning, Claiming
<1>2. CASE x \in Fetching
  BY <1>2 DEF Idle, Fetching, Asking, Following, Returning, Claiming
<1>3. CASE x \in Asking
  BY <1>3 DEF Idle, Fetching, Asking, Following, Returning, Claiming
<1>4. CASE x \in Following
  BY <1>4 DEF Idle, Fetching, Asking, Following, Returning, Claiming
<1>5. CASE x \in Returning
  BY <1>5 DEF Idle, Fetching, Asking, Following, Returning, Claiming
<1> QED
  BY <1>1, <1>2, <1>3, <1>4, <1>5 DEF Task

\* Worker w goes on to x; workers that wait may be woken.
Moves(w, x) ==
  /\ task' = [v \in Workers |-> task'[v]]
  /\ task'[w] = x
  /\ \A v \in Workers \ {w} :
       \/ task'[v] = task[v]
       \/ task[v].pc = "wait" /\ task'[v] = [task[v] EXCEPT !.pc = "woken"]

\* A worker goes on by itself.
LEMMA MovesAlone ==
  ASSUME TasksOK, NEW w \in Workers, NEW x, task' = [task EXCEPT ![w] = x]
  PROVE  Moves(w, x)
BY DEF TasksOK, Moves

\* A worker goes on and wakes its followers.
LEMMA MovesWaking ==
  ASSUME TasksOK, NEW w \in Workers, NEW x, x.pc # "wait", task' = Wake([task EXCEPT ![w] = x], w)
  PROVE  Moves(w, x)
BY DEF TasksOK, Moves, Wake

\* What the others are doing.
LEMMA OthersStay ==
  ASSUME TasksOK, NEW w \in Workers, NEW x, Moves(w, x), NEW v \in Workers \ {w}
  PROVE  /\ task'[v] \in Task
         /\ \/ task'[v] = task[v]
            \/ /\ task[v] \in Following /\ task'[v] \in Following
               /\ task'[v].key = task[v].key /\ task'[v].floor = task[v].floor
<1>1. task[v] \in Task
  BY DEF TasksOK
<1>2. CASE task'[v] = task[v]
  BY <1>1, <1>2
<1>3. CASE task[v].pc = "wait" /\ task'[v] = [task[v] EXCEPT !.pc = "woken"]
  <2>1. task[v] \in Following
    BY <1>1, <1>3, TaskIs
  <2>2. task'[v] \in Following /\ task'[v].key = task[v].key /\ task'[v].floor = task[v].floor
    BY <1>3, <2>1 DEF Following
  <2> QED
    BY <2>1, <2>2 DEF Task
<1> QED
  BY <1>2, <1>3 DEF Moves

\* The tasks stay well formed.
LEMMA MoveTyped ==
  ASSUME TasksOK, NEW w \in Workers, NEW x \in Task, x \in Fetching => FlightOK(x), Moves(w, x),
         DOMAIN inflight' \subseteq Keys, \A k \in DOMAIN inflight' : inflight'[k] \in Workers
  PROVE  /\ TasksOK'
         /\ \A v \in Workers \ {w} : /\ task'[v].pc \in Claiming <=> task[v].pc \in Claiming
                                     /\ task[v].pc \in Claiming => task'[v] = task[v]
<1>1. \A v \in Workers \ {w} :
        /\ task'[v] \in Task
        /\ task'[v] = task[v] \/ (task[v] \in Following /\ task'[v] \in Following)
  BY OthersStay
<1>2. \A y \in Following : y.pc \notin Claiming /\ y \notin Fetching
  BY DEF Following, Fetching, Claiming
<1>3. task'[w] = x /\ task' = [v \in Workers |-> task'[v]]
  BY DEF Moves
<1>4. task' \in [Workers -> Task]
  BY <1>1, <1>3
<1>5. \A v \in Workers : task'[v] \in Fetching => FlightOK(task'[v])
  BY <1>1, <1>2, <1>3 DEF TasksOK
<1> QED
  BY <1>1, <1>2, <1>4, <1>5 DEF TasksOK, FlightOK

\* A worker that claims no blocks and gives none back.
LEMMA MoveKeeps ==
  ASSUME TasksOK, SingleFlight, NEW w \in Workers, NEW x \in Task, x \in Fetching => FlightOK(x),
         Moves(w, x), UNCHANGED inflight,
         x.pc \in Claiming <=> task[w].pc \in Claiming,
         x.pc \in Claiming => RunKeys(x) = RunKeys(task[w])
  PROVE  TasksOK' /\ SingleFlight'
<1>1. /\ TasksOK' /\ task'[w] = x
      /\ \A v \in Workers \ {w} : /\ task'[v].pc \in Claiming <=> task[v].pc \in Claiming
                                  /\ task[v].pc \in Claiming => task'[v] = task[v]
  BY MoveTyped DEF TasksOK, Moves
<1>2. \A v \in Workers : task'[v].pc \in Claiming <=> task[v].pc \in Claiming
  BY <1>1
<1>3. \A v \in Workers : task[v].pc \in Claiming => RunKeys(task'[v]) = RunKeys(task[v])
  BY <1>1
<1>4. \A k \in DOMAIN inflight :
        task'[inflight[k]].pc \in Claiming /\ k \in RunKeys(task'[inflight[k]])
  BY <1>2, <1>3 DEF SingleFlight, TasksOK, Claiming
<1>5. \A v \in Workers : task'[v].pc \in Claiming =>
        \A k \in RunKeys(task'[v]) : k \in DOMAIN inflight /\ inflight[k] = v
  BY <1>2, <1>3 DEF SingleFlight, Claiming
<1> QED
  BY <1>1, <1>4, <1>5 DEF SingleFlight, Claiming, RunKeys

\* A worker that claims blocks nobody is fetching.
LEMMA ClaimKeeps ==
  ASSUME TasksOK, SingleFlight, NEW w \in Workers, NEW x \in Fetching, FlightOK(x), Moves(w, x),
         task[w].pc \notin Claiming, x.pc = "lead",
         RunKeys(x) \subseteq Keys, RunKeys(x) \cap DOMAIN inflight = {},
         inflight' = [k \in DOMAIN inflight \cup RunKeys(x) |-> IF k \in RunKeys(x) THEN w ELSE inflight[k]]
  PROVE  TasksOK' /\ SingleFlight'
<1>1. /\ DOMAIN inflight' = DOMAIN inflight \cup RunKeys(x)
      /\ \A k \in RunKeys(x) : inflight'[k] = w
      /\ \A k \in DOMAIN inflight : inflight'[k] = inflight[k]
  OBVIOUS
<1>2. x \in Task /\ DOMAIN inflight' \subseteq Keys /\ \A k \in DOMAIN inflight' : inflight'[k] \in Workers
  BY <1>1 DEF Task, TasksOK
<1>3. /\ TasksOK' /\ task'[w] = x
      /\ \A v \in Workers \ {w} : /\ task'[v].pc \in Claiming <=> task[v].pc \in Claiming
                                  /\ task[v].pc \in Claiming => task'[v] = task[v]
  BY <1>2, MoveTyped DEF Moves
<1>4. ASSUME NEW k \in DOMAIN inflight'
      PROVE  task'[inflight'[k]].pc \in Claiming /\ k \in RunKeys(task'[inflight'[k]])
  <2>1. CASE k \in RunKeys(x)
    BY <1>1, <1>3, <2>1 DEF Claiming
  <2>2. CASE k \in DOMAIN inflight
    <3>1. inflight[k] \in Workers /\ task[inflight[k]].pc \in Claiming /\ k \in RunKeys(task[inflight[k]])
      BY <2>2 DEF TasksOK, SingleFlight, Claiming
    <3> QED
      BY <1>1, <1>3, <2>2, <3>1
  <2> QED
    BY <1>1, <2>1, <2>2
<1>5. ASSUME NEW v \in Workers, task'[v].pc \in Claiming, NEW k \in RunKeys(task'[v])
      PROVE  k \in DOMAIN inflight' /\ inflight'[k] = v
  <2>1. CASE v = w
    BY <1>1, <1>3, <1>5, <2>1
  <2>2. CASE v # w
    <3>1. task[v].pc \in Claiming /\ k \in RunKeys(task[v])
      BY <1>3, <1>5, <2>2
    <3>2. k \in DOMAIN inflight /\ inflight[k] = v
      BY <3>1 DEF SingleFlight, Claiming
    <3> QED
      BY <1>1, <3>2
  <2> QED
    BY <2>1, <2>2
<1> QED
  BY <1>3, <1>4, <1>5 DEF SingleFlight, Claiming, RunKeys

\* A worker that gives its blocks back.
LEMMA UnclaimKeeps ==
  ASSUME TasksOK, SingleFlight, NEW w \in Workers, NEW x \in Task, x \in Fetching => FlightOK(x),
         Moves(w, x), task[w].pc \in Claiming, x.pc \notin Claiming,
         inflight' = Restrict(inflight, DOMAIN inflight \ RunKeys(task[w]))
  PROVE  TasksOK' /\ SingleFlight'
<1>1. /\ DOMAIN inflight' = DOMAIN inflight \ RunKeys(task[w])
      /\ \A k \in DOMAIN inflight' : inflight'[k] = inflight[k]
  BY DEF Restrict
<1>2. DOMAIN inflight' \subseteq Keys /\ \A k \in DOMAIN inflight' : inflight'[k] \in Workers
  BY <1>1 DEF TasksOK
<1>3. /\ TasksOK' /\ task'[w] = x
      /\ \A v \in Workers \ {w} : /\ task'[v].pc \in Claiming <=> task[v].pc \in Claiming
                                  /\ task[v].pc \in Claiming => task'[v] = task[v]
  BY <1>2, MoveTyped DEF Moves
<1>4. ASSUME NEW k \in DOMAIN inflight'
      PROVE  task'[inflight'[k]].pc \in Claiming /\ k \in RunKeys(task'[inflight'[k]])
  <2>1. inflight[k] \in Workers /\ task[inflight[k]].pc \in Claiming /\ k \in RunKeys(task[inflight[k]])
    BY <1>1 DEF TasksOK, SingleFlight, Claiming
  <2>2. inflight[k] # w
    BY <1>1, <2>1
  <2> QED
    BY <1>1, <1>3, <2>1, <2>2
<1>5. ASSUME NEW v \in Workers, task'[v].pc \in Claiming, NEW k \in RunKeys(task'[v])
      PROVE  k \in DOMAIN inflight' /\ inflight'[k] = v
  <2>1. v # w
    BY <1>3, <1>5
  <2>2. task[v].pc \in Claiming /\ k \in RunKeys(task[v])
    BY <1>3, <1>5, <2>1
  <2>3. k \in DOMAIN inflight /\ inflight[k] = v
    BY <2>2 DEF SingleFlight, Claiming
  <2>4. k \notin RunKeys(task[w])
    BY <2>1, <2>3 DEF SingleFlight, Claiming
  <2> QED
    BY <1>1, <2>3, <2>4
<1> QED
  BY <1>3, <1>4, <1>5 DEF SingleFlight, Claiming, RunKeys

-----------------------------------------------------------------------------
(* The steps keep the book-keeping invariant. *)

\* Of what no worker does but read.
LEMMA RestKeeps ==
  ASSUME IInv, UNCHANGED <<others, blocks, generations>>
  PROVE  ServerOK' /\ StoreOK' /\ PendingOK'
<1>1. UNCHANGED <<size, ver, changes, pending, floor, missed, blocks, generations>>
  BY DEF server, others
<1>2. ServerOK' /\ StoreOK'
  BY <1>1 DEF IInv, ServerOK, StoreOK, Contents
<1>3. PendingOK'
  BY <1>1 DEF IInv, PendingOK, NoticeOK
<1> QED
  BY <1>2, <1>3

\* The length of a block.
LEMMA BlockLenIs ==
  ASSUME NEW n \in Nat, NEW i \in Nat
  PROVE  BlockLen(n, i) \in 0..BLOCK_SIZE
<1>1. BLOCK_SIZE \in Nat /\ (i + 1) * BLOCK_SIZE = i * BLOCK_SIZE + BLOCK_SIZE /\ i * BLOCK_SIZE \in Nat
  BY CacheAssumption
<1>2. PICK a \in Nat : a = i * BLOCK_SIZE /\ a + BLOCK_SIZE = (i + 1) * BLOCK_SIZE
  BY <1>1
<1>3. BlockLen(n, i) = IF n >= a + BLOCK_SIZE THEN BLOCK_SIZE ELSE IF n <= a THEN 0 ELSE n - a
  BY <1>2 DEF BlockLen
<1> QED
  BY <1>1, <1>3

\* The content of a block.
LEMMA ContentIs ==
  ASSUME ServerOK, NEW k \in Keys
  PROVE  Content(k) \in Contents /\ Content(k).ver = ver[k]
<1>1. k[1] \in Files /\ k[2] \in Nat
  BY KeysAre
<1>2. size[k[1]] \in Nat /\ ver[k] \in Nat
  BY <1>1, CacheAssumption DEF ServerOK
<1>3. BlockLen(size[k[1]], k[2]) \in 0..BLOCK_SIZE
  BY <1>1, <1>2, BlockLenIs
<1> QED
  BY <1>2, <1>3 DEF Content, Contents

\* A change on the server of the blocks keys.  The invalidation that is on its
\* way, if there is one, drops all of them but those that are lost.
Changing(inv, feed, keys, lost, newSize) ==
  /\ keys \in SUBSET Keys /\ lost \in SUBSET Keys /\ newSize \in [Files -> 0..MaxSize]
  /\ Change(keys, newSize)
  /\ \/ Announce(inv, feed, keys, lost) /\ \A k \in keys \ lost : Drops(inv, k)
     \/ UNCHANGED pending /\ missed' = missed \cup lost /\ keys = lost
  /\ \A k \in Keys \ keys : BlockLen(newSize[k[1]], k[2]) = BlockLen(size[k[1]], k[2])

\* By a change on the server.
LEMMA ChangeKeeps ==
  ASSUME IInv, NEW inv, NEW feed, NEW keys, NEW lost, NEW newSize,
         Changing(inv, feed, keys, lost, newSize)
  PROVE  IInv'
<1> DEFINE news == [k \in keys |-> ver[k] + 1]
           e == [id |-> changes, feed |-> feed, inv |-> inv, news |-> news]
<1>1. /\ changes < MaxChanges /\ changes' = changes + 1 /\ size' = newSize
      /\ ver' = [k \in Keys |-> ver[k] + (IF k \in keys THEN 1 ELSE 0)]
      /\ pending' = pending \cup {e} \/ pending' = pending
      /\ missed' = missed \cup lost
      /\ UNCHANGED <<blocks, lru, bytes, generations, inflight, task, floor>>
      /\ keys \in SUBSET Keys /\ lost \in SUBSET Keys /\ newSize \in [Files -> 0..MaxSize]
  BY DEF Changing, Change, Announce, Bumped, store
<1>2. /\ ServerOK /\ StoreOK /\ PendingOK /\ changes \in Nat /\ MaxChanges \in Nat
      /\ ver \in [Keys -> Nat] /\ floor \in [Keys -> Nat]
      /\ \A k \in Keys : ver[k] \in Nat /\ floor[k] \in Nat /\ ver[k] <= changes /\ floor[k] <= ver[k]
  BY CacheAssumption DEF IInv, ServerOK
<1>3. \A k \in Keys : ver'[k] \in Nat /\ ver'[k] >= ver[k] /\ ver'[k] <= ver[k] + 1
                      /\ (k \in keys => ver'[k] = ver[k] + 1)
  BY <1>1, <1>2
<1>4. ServerOK'
  <2>1. \A k \in Keys : ver'[k] <= changes' /\ floor'[k] <= ver'[k]
    BY <1>1, <1>2, <1>3
  <2>2. ver' \in [Keys -> Nat] /\ changes' \in 0..MaxChanges
    BY <1>1, <1>2
  <2> QED
    BY <1>1, <1>2, <2>1, <2>2 DEF ServerOK
<1>5. e = [id |-> e.id, feed |-> e.feed, inv |-> e.inv, news |-> e.news] /\ e.news = news
  OBVIOUS
<1>6. DOMAIN news = keys /\ \A k \in keys : news[k] \in Nat /\ news[k] <= ver'[k]
  BY <1>1, <1>2, <1>3
<1> HIDE DEF e, news
<1>g. PICK g : /\ pending' = pending \cup {g} \/ pending' = pending
               /\ g = [id |-> g.id, feed |-> g.feed, inv |-> g.inv, news |-> g.news]
               /\ DOMAIN g.news \subseteq Keys
               /\ \A k \in DOMAIN g.news : g.news[k] \in Nat /\ g.news[k] <= ver'[k]
  BY <1>1, <1>5, <1>6
<1>7. PendingOK'
  <2>1. /\ IsFiniteSet(pending) /\ IsFiniteSet(pending') /\ Cardinality(pending) \in Nat
        /\ Cardinality(pending') \in Nat /\ Cardinality(pending') <= Cardinality(pending) + 1
    <3>1. IsFiniteSet(pending) /\ Cardinality(pending) \in Nat
      BY <1>2, FS_CardinalityType DEF PendingOK
    <3>2. /\ IsFiniteSet(pending \cup {g})
          /\ Cardinality(pending \cup {g}) = IF g \in pending THEN Cardinality(pending) ELSE Cardinality(pending) + 1
      BY <3>1, FS_AddElement
    <3>3. CASE pending' = pending
      BY <3>1, <3>3
    <3>4. CASE pending' = pending \cup {g}
      BY <3>1, <3>2, <3>4
    <3> QED
      BY <1>g, <3>3, <3>4
  <2>2. ASSUME NEW f \in pending PROVE NoticeOK(f)'
    <3>1. NoticeOK(f)
      BY <1>2 DEF PendingOK
    <3>2. \A k \in DOMAIN f.news : f.news[k] \in Nat /\ f.news[k] <= ver'[k]
      BY <1>2, <1>3, <3>1 DEF NoticeOK
    <3> QED
      BY <3>1, <3>2 DEF NoticeOK
  <2>3. NoticeOK(g)'
    BY <1>g DEF NoticeOK
  <2>4. ASSUME NEW p \in Files \cup {Dir} PROVE generations'[p] + Cardinality(pending') <= changes'
    <3>1. generations[p] \in Nat /\ generations[p] + Cardinality(pending) <= changes
      BY <1>2 DEF StoreOK, PendingOK
    <3> QED
      BY <1>1, <1>2, <2>1, <3>1
  <2>5. \A f \in pending' : NoticeOK(f)'
    BY <1>g, <2>2, <2>3
  <2> QED
    BY <2>1, <2>4, <2>5 DEF PendingOK
<1>8. StoreOK' /\ Accounting'
  BY <1>1 DEF IInv, StoreOK, Accounting, TotalLen
<1>9. TasksOK' /\ SingleFlight'
  BY <1>1 DEF IInv, TasksOK, SingleFlight
<1> QED
  BY <1>4, <1>7, <1>8, <1>9 DEF IInv

\* What a delivery does to the store: blocks leave, generations go up by one at
\* most.
LEMMA DeliverStore ==
  ASSUME StoreOK, Accounting, NEW e, Deliver(e)
  PROVE  /\ Accounting' /\ DOMAIN blocks' \subseteq DOMAIN blocks
         /\ \A k \in DOMAIN blocks' : blocks'[k] = blocks[k]
         /\ generations' \in [Files \cup {Dir} -> Nat]
         /\ \A p \in Files \cup {Dir} : generations'[p] \in {generations[p], generations[p] + 1}
<1>1. ASSUME NEW paths, NEW keep, InvalidateWhere(paths, keep)
      PROVE  /\ Accounting' /\ DOMAIN blocks' \subseteq DOMAIN blocks
             /\ \A k \in DOMAIN blocks' : blocks'[k] = blocks[k]
             /\ generations' \in [Files \cup {Dir} -> Nat]
             /\ \A p \in Files \cup {Dir} : generations'[p] \in {generations[p], generations[p] + 1}
  <2>1. /\ Accounting' /\ DOMAIN blocks' \subseteq DOMAIN blocks
        /\ \A k \in DOMAIN blocks' : blocks'[k] = blocks[k]
        /\ generations' = [p \in Files \cup {Dir} |-> generations[p] + (IF p \in paths THEN 1 ELSE 0)]
    BY <1>1, InvalidateKeeps
  <2>2. \A p \in Files \cup {Dir} : generations[p] \in Nat
    BY DEF StoreOK
  <2> QED
    BY <2>1, <2>2
<1>2. ASSUME Clear
      PROVE  /\ Accounting' /\ DOMAIN blocks' \subseteq DOMAIN blocks
             /\ \A k \in DOMAIN blocks' : blocks'[k] = blocks[k]
             /\ generations' \in [Files \cup {Dir} -> Nat]
             /\ \A p \in Files \cup {Dir} : generations'[p] \in {generations[p], generations[p] + 1}
  <2>1. Accounting' /\ DOMAIN blocks' = {}
    BY <1>2, ClearKeeps
  <2>2. PICK paths : generations' = [p \in DOMAIN generations |-> generations[p] + (IF p \in paths THEN 1 ELSE 0)]
    BY <1>2 DEF Clear
  <2>3. generations \in [Files \cup {Dir} -> Nat]
    BY DEF StoreOK
  <2> QED
    BY <2>1, <2>2, <2>3
<1> QED
  BY <1>1, <1>2 DEF Deliver, InvalidateRange, InvalidatePath

\* By the delivery of an invalidation.
LEMMA DeliverKeeps ==
  ASSUME IInv, NEW e \in pending, Deliver(e)
  PROVE  /\ IInv'
         /\ \A k \in Keys : floor'[k] \in Nat /\ floor'[k] >= floor[k]
         /\ \A k \in Keys : floor'[k] = floor[k] \/ (k \in DOMAIN e.news \ missed' /\ floor'[k] = e.news[k])
         /\ missed' \subseteq Keys
<1>1. /\ pending' = pending \ {e} /\ Raise(e.news)
      /\ UNCHANGED <<size, ver, changes, inflight, task>>
  BY DEF Deliver, server, others
<1>2. /\ Accounting' /\ DOMAIN blocks' \subseteq DOMAIN blocks
      /\ \A k \in DOMAIN blocks' : blocks'[k] = blocks[k]
      /\ generations' \in [Files \cup {Dir} -> Nat]
      /\ \A p \in Files \cup {Dir} : generations'[p] \in {generations[p], generations[p] + 1}
  BY DeliverStore DEF IInv
<1>3. /\ ServerOK /\ StoreOK /\ PendingOK /\ NoticeOK(e)
      /\ \A k \in Keys : ver[k] \in Nat /\ floor[k] \in Nat /\ floor[k] <= ver[k]
  BY DEF IInv, PendingOK, ServerOK
<1>4. StoreOK'
  BY <1>2, <1>3 DEF StoreOK, Contents
<1>5. ASSUME NEW k \in Keys
      PROVE  /\ floor'[k] \in Nat /\ floor'[k] >= floor[k] /\ floor'[k] <= ver[k]
             /\ floor'[k] = floor[k] \/ (k \in DOMAIN e.news \ missed' /\ floor'[k] = e.news[k])
  <2>1. floor'[k] = IF k \in DOMAIN e.news \ missed' THEN Max({floor[k], e.news[k]}) ELSE floor[k]
    BY <1>1 DEF Raise
  <2>2. CASE k \in DOMAIN e.news \ missed'
    <3>1. e.news[k] \in Nat /\ e.news[k] <= ver[k] /\ floor[k] \in Nat /\ floor[k] <= ver[k] /\ ver[k] \in Nat
      BY <1>3, <2>2 DEF NoticeOK
    <3>2. /\ Max({floor[k], e.news[k]}) \in {floor[k], e.news[k]}
          /\ Max({floor[k], e.news[k]}) >= floor[k]
      BY <3>1, MaxOfTwo
    <3> QED
      BY <2>1, <2>2, <3>1, <3>2
  <2>3. CASE k \notin DOMAIN e.news \ missed'
    BY <1>3, <2>1, <2>3
  <2> QED
    BY <2>2, <2>3
<1>6. floor' \in [Keys -> Nat]
  <2>1. floor' = [k \in Keys |-> floor'[k]]
    BY <1>1 DEF Raise
  <2> QED
    BY <1>5, <2>1
<1>m. missed' \subseteq Keys
  <2>1. missed \subseteq Keys
    BY <1>3 DEF ServerOK
  <2>2. \A paths, keep : InvalidateWhere(paths, keep) => missed' \subseteq Keys
    BY <2>1 DEF InvalidateWhere
  <2>3. Clear => missed' \subseteq Keys
    BY DEF Clear, Loaded
  <2> QED
    BY <2>2, <2>3 DEF Deliver, InvalidateRange, InvalidatePath
<1>7. ServerOK'
  BY <1>1, <1>3, <1>5, <1>6, <1>m DEF ServerOK
<1>8. PendingOK'
  <2>1. /\ IsFiniteSet(pending') /\ Cardinality(pending) \in Nat /\ Cardinality(pending') \in Nat
        /\ Cardinality(pending') = Cardinality(pending) - 1
    BY <1>1, <1>3, FS_RemoveElement, FS_CardinalityType DEF PendingOK
  <2>2. ASSUME NEW p \in Files \cup {Dir} PROVE generations'[p] + Cardinality(pending') <= changes'
    <3>1. generations[p] \in Nat /\ generations[p] + Cardinality(pending) <= changes /\ changes \in Nat
      BY <1>3, CacheAssumption DEF StoreOK, PendingOK, ServerOK
    <3> QED
      BY <1>1, <1>2, <2>1, <3>1
  <2>3. \A f \in pending' : NoticeOK(f)'
    BY <1>1, <1>3 DEF PendingOK, NoticeOK
  <2> QED
    BY <2>1, <2>2, <2>3 DEF PendingOK
<1>9. TasksOK' /\ SingleFlight'
  BY <1>1 DEF IInv, TasksOK, SingleFlight
<1> QED
  BY <1>2, <1>4, <1>5, <1>7, <1>8, <1>9, <1>m DEF IInv

\* An invalidation that is exchanged for another one of the same blocks.
LEMMA SwapKeeps ==
  ASSUME IInv, NEW e \in pending, NEW g, NEW lost \in SUBSET Keys,
         g = [id |-> g.id, feed |-> g.feed, inv |-> g.inv, news |-> g.news], g.news = e.news,
         pending' = (pending \ {e}) \cup {g} \/ pending' = pending \ {e},
         missed' = missed \cup lost,
         UNCHANGED <<size, ver, changes, blocks, lru, bytes, generations, inflight, task, floor>>
  PROVE  IInv'

<1>2. PendingOK /\ NoticeOK(e)
  BY DEF IInv, PendingOK
<1>4. PendingOK'
  <2>1. /\ IsFiniteSet(pending \ {e}) /\ Cardinality(pending) \in Nat
        /\ Cardinality(pending \ {e}) = Cardinality(pending) - 1
    BY <1>2, FS_RemoveElement, FS_CardinalityType DEF PendingOK
  <2>2. /\ IsFiniteSet(pending') /\ Cardinality(pending') \in Nat
        /\ Cardinality(pending') <= Cardinality(pending)
    <3>1. /\ IsFiniteSet((pending \ {e}) \cup {g}) /\ Cardinality(pending \ {e}) \in Nat
          /\ Cardinality((pending \ {e}) \cup {g}) = IF g \in pending \ {e} THEN Cardinality(pending \ {e})
                                                     ELSE Cardinality(pending \ {e}) + 1
      BY <2>1, FS_AddElement, FS_CardinalityType
    <3>2. CASE pending' = pending \ {e}
      BY <2>1, <3>1, <3>2
    <3>3. CASE pending' = (pending \ {e}) \cup {g}
      BY <2>1, <3>1, <3>3
    <3> QED
      BY <3>2, <3>3
  <2>3. ASSUME NEW p \in Files \cup {Dir} PROVE generations'[p] + Cardinality(pending') <= changes'
    <3>1. generations[p] \in Nat /\ generations[p] + Cardinality(pending) <= changes /\ changes \in Nat
      BY <1>2, CacheAssumption DEF IInv, StoreOK, PendingOK, ServerOK
    <3> QED
      BY <2>1, <2>2, <3>1
  <2>4. NoticeOK(g)'
    BY <1>2 DEF NoticeOK
  <2>5. \A h \in pending : NoticeOK(h)'
    BY <1>2 DEF PendingOK, NoticeOK
  <2>6. \A h \in pending' : NoticeOK(h)'
    BY <2>4, <2>5
  <2> QED
    BY <2>2, <2>3, <2>6 DEF PendingOK
<1>5. ServerOK' /\ StoreOK' /\ Accounting'
  BY DEF IInv, ServerOK, StoreOK, Accounting, TotalLen
<1>6. TasksOK' /\ SingleFlight'
  BY DEF IInv, TasksOK, SingleFlight
<1> QED
  BY <1>4, <1>5, <1>6 DEF IInv

\* What the head of apply_change makes of an event.
LEMMA ApplyIs ==
  ASSUME IInv, NEW e \in pending, NEW writing, ApplyChange(e, writing)
  PROVE  \E g : \E lost \in SUBSET Keys :
           /\ g = [id |-> g.id, feed |-> g.feed, inv |-> g.inv, news |-> g.news]
           /\ g.news = e.news /\ g.inv = e.inv /\ missed' = missed \cup lost
           /\ \/ pending' = (pending \ {e}) \cup {g} /\ lost = {}
              \/ pending' = pending \ {e} /\ lost = DOMAIN e.news
           /\ UNCHANGED <<size, ver, changes, blocks, lru, bytes, generations, inflight, task, floor>>
<1>b. PICK b : b = FALSE
  OBVIOUS
<1> DEFINE f == [e EXCEPT !.feed = b]
<1>1. NoticeOK(e)
  BY DEF IInv, PendingOK
<1>2. /\ f = [id |-> f.id, feed |-> f.feed, inv |-> f.inv, news |-> f.news]
      /\ f.news = e.news /\ f.inv = e.inv
  <2>0. e = [id |-> e.id, feed |-> e.feed, inv |-> e.inv, news |-> e.news]
    BY <1>1 DEF NoticeOK
  <2>1. f = [id |-> e.id, feed |-> b, inv |-> e.inv, news |-> e.news]
    BY <2>0
  <2> HIDE DEF f
  <2> QED
    BY <2>1
<1>3. /\ \/ pending' = pending \ {e} /\ missed' = missed \cup DOMAIN e.news
         \/ pending' = (pending \ {e}) \cup {f} /\ missed' = missed
      /\ UNCHANGED <<size, ver, changes, blocks, lru, bytes, generations, inflight, task, floor>>
  <2>1. [e EXCEPT !.feed = FALSE] = f
    BY <1>b, Zenon
  <2> HIDE DEF f
  <2> QED
    BY <2>1 DEF ApplyChange, server, store
<1> HIDE DEF f
<1>4. DOMAIN e.news \in SUBSET Keys
  BY <1>1 DEF NoticeOK
<1>5. CASE missed' = missed \cup DOMAIN e.news /\ pending' = pending \ {e}
  BY <1>2, <1>3, <1>4, <1>5
<1>6. CASE pending' = (pending \ {e}) \cup {f} /\ missed' = missed
  <2>1. {} \in SUBSET Keys /\ missed' = missed \cup {}
    BY <1>6
  <2> QED
    BY <1>2, <1>3, <1>6, <2>1
<1> QED
  BY <1>3, <1>5, <1>6

\* What the first half of invalidate_tree makes of an invalidation.
LEMMA CollectIs ==
  ASSUME IInv, NEW e \in pending, CollectTree(e)
  PROVE  \E g : \E lost \in SUBSET Keys :
           /\ g = [id |-> g.id, feed |-> g.feed, inv |-> g.inv, news |-> g.news]
           /\ g.news = e.news /\ missed' = missed \cup lost
           /\ g.inv.kind = "where" /\ g.inv.paths = TreePaths(e.inv.path) /\ e.inv.kind = "tree"
           /\ lost = Loaded(Below(e.inv.path) \ g.inv.paths)
           /\ pending' = (pending \ {e}) \cup {g}
           /\ UNCHANGED <<size, ver, changes, blocks, lru, bytes, generations, inflight, task, floor>>
<1> DEFINE paths == TreePaths(e.inv.path)
           inv == [kind |-> "where", paths |-> paths]
           f == [e EXCEPT !.inv = inv]
<1>1. /\ pending' = (pending \ {e}) \cup {f} /\ e.inv.kind = "tree"
      /\ missed' = missed \cup Loaded(Below(e.inv.path) \ paths)
      /\ UNCHANGED <<size, ver, changes, blocks, lru, bytes, generations, inflight, task, floor>>
  BY DEF CollectTree, server, store
<1>2. inv.kind = "where" /\ inv.paths = paths
  OBVIOUS
<1>3. f = [id |-> f.id, feed |-> f.feed, inv |-> f.inv, news |-> f.news] /\ f.news = e.news /\ f.inv = inv
  <2> HIDE DEF inv
  <2>1. f = [id |-> e.id, feed |-> e.feed, inv |-> inv, news |-> e.news]
    BY DEF IInv, PendingOK, NoticeOK
  <2> HIDE DEF f
  <2> QED
    BY <2>1
<1>4. Loaded(Below(e.inv.path) \ paths) \in SUBSET Keys
  BY DEF Loaded
<1> HIDE DEF f, inv, paths
<1>5. PICK lost \in SUBSET Keys : lost = Loaded(Below(e.inv.path) \ paths)
  BY <1>4
<1> QED
  BY <1>1, <1>2, <1>3, <1>5 DEF paths

\* By either of them.
LEMMA TakeKeeps ==
  ASSUME IInv, NEW e \in pending, NEW writing, ApplyChange(e, writing) \/ CollectTree(e)
  PROVE  IInv'
<1>1. CASE ApplyChange(e, writing)
  BY <1>1, ApplyIs, SwapKeeps
<1>2. CASE CollectTree(e)
  BY <1>2, CollectIs, SwapKeeps
<1> QED
  BY <1>1, <1>2

-----------------------------------------------------------------------------
(* Steps of workers. *)

GoodTask(x) == x \in Task /\ (x \in Fetching => FlightOK(x))

\* A worker goes on to x, and the cache gets nothing but blocks that are up to
\* date.
LEMMA WorkerFresh ==
  ASSUME IInv, CInv, NEW w \in Workers, NEW x, Moves(w, x),
         UNCHANGED <<size, ver, pending, floor, missed, generations>>,
         \A k \in DOMAIN blocks' : \/ k \in DOMAIN blocks /\ blocks'[k] = blocks[k]
                                   \/ UpToDate(k, blocks'[k]),
         TaskFresh(x), FloorOK(x)
  PROVE  CInv'
<1>2. \A k, c : UpToDate(k, c)' <=> UpToDate(k, c)
  BY DEF UpToDate, NewsOf, NotNews, Content
<1>3. CacheFresh'
  <2>1. \A k \in DOMAIN blocks' : UpToDate(k, blocks'[k])
    BY DEF CInv, CacheFresh
  <2> QED
    BY <2>1 DEF CacheFresh, UpToDate, NewsOf, NotNews, Content
<1>4. ASSUME NEW v \in Workers PROVE TaskFresh(task'[v]) /\ FloorOK(task'[v])
  <2>1. CASE v = w
    BY <2>1 DEF Moves
  <2>2. CASE v # w
    <3>1. \/ task'[v] = task[v]
          \/ /\ task[v] \in Following /\ task'[v] \in Following
             /\ task'[v].key = task[v].key /\ task'[v].floor = task[v].floor
      BY <2>2, OthersStay DEF IInv
    <3>2. TaskFresh(task[v]) /\ FloorOK(task[v])
      BY DEF CInv, FlightsFresh, FloorsOK
    <3>3. \A y \in Following : y \notin Fetching /\ y \notin Returning
      BY DEF Following, Fetching, Returning, Claiming
    <3> QED
      BY <3>1, <3>2, <3>3 DEF TaskFresh, FloorOK
  <2> QED
    BY <2>1, <2>2
<1>5. FlightsFresh'
  BY <1>4 DEF FlightsFresh, TaskFresh, UpToDate, NewsOf, NotNews, Content, KeyAt
<1>6. FloorsOK'
  BY <1>4 DEF FloorsOK, FloorOK
<1> QED
  BY <1>3, <1>5, <1>6 DEF CInv

\* A worker goes on to x and leaves everything else alone.
LEMMA QuietMove ==
  ASSUME IInv, NEW w \in Workers, NEW x, GoodTask(x), Moves(w, x),
         UNCHANGED <<others, store, inflight>>,
         x.pc \in Claiming <=> task[w].pc \in Claiming,
         x.pc \in Claiming => RunKeys(x) = RunKeys(task[w]),
         CInv => TaskFresh(x) /\ FloorOK(x)
  PROVE  IInv' /\ (CInv => CInv')
<1>1. UNCHANGED <<size, ver, changes, pending, blocks, lru, bytes, generations, inflight, floor, missed>>
  BY DEF server, others, store
<1>2. ServerOK' /\ StoreOK' /\ PendingOK'
  BY <1>1, RestKeeps DEF server, others
<1>3. Accounting'
  BY <1>1 DEF IInv, Accounting, TotalLen
<1>4. TasksOK' /\ SingleFlight'
  BY <1>1, MoveKeeps DEF IInv, GoodTask
<1>5. ASSUME CInv PROVE CInv'
  BY <1>1, <1>5, WorkerFresh
<1> QED
  BY <1>2, <1>3, <1>4, <1>5 DEF IInv

\* By a fetch that hits, whether at once or after the wait for a flight.
LEMMA HitStep ==
  ASSUME IInv, NEW w \in Workers, NEW key \in Keys, NEW since \in Nat, GetHit(key),
         task' = [task EXCEPT ![w] = Done(key, blocks[key], since)],
         task[w].pc \notin Claiming, CInv => since <= floor[key],
         UNCHANGED <<others, inflight>>
  PROVE  IInv' /\ (CInv => CInv')
<1> DEFINE x == Done(key, blocks[key], since)
<1>1. /\ key \in DOMAIN blocks
      /\ UNCHANGED <<size, ver, changes, pending, blocks, bytes, generations, inflight, floor, missed>>
  BY DEF GetHit, server, others
<1>2. blocks[key] \in Contents /\ blocks[key].ver \in Nat
  BY <1>1 DEF IInv, StoreOK, Contents
<1>3. /\ x \in Returning /\ x \in Task /\ x \notin Fetching /\ x \notin Asking \cup Following
      /\ x.pc \notin Claiming /\ x.data = blocks[key] /\ x.floor = since
  BY <1>2 DEF Done, Returning, Task, Fetching, Asking, Following, Claiming
<1>4. Moves(w, x)
  BY MovesAlone DEF IInv
<1> HIDE DEF x
<1>5. TasksOK' /\ SingleFlight'
  BY <1>1, <1>3, <1>4, MoveKeeps DEF IInv
<1>6. ServerOK' /\ StoreOK' /\ PendingOK'
  BY <1>1, RestKeeps DEF server, others
<1>7. Accounting'
  BY HitKeeps DEF IInv
<1>8. ASSUME CInv PROVE CInv'
  <2>1. blocks[key].ver >= floor[key] /\ floor[key] \in Nat
    BY <1>1, <1>8 DEF CInv, CacheFresh, UpToDate, IInv, ServerOK
  <2>2. TaskFresh(x) /\ FloorOK(x)
    BY <1>2, <1>3, <1>8, <2>1 DEF TaskFresh, FloorOK
  <2> QED
    BY <1>1, <1>4, <1>8, <2>2, WorkerFresh
<1> QED
  BY <1>5, <1>6, <1>7, <1>8 DEF IInv

\* By fetch, up to the claim.
LEMMA FetchStep ==
  ASSUME IInv, NEW w \in Workers, NEW key \in Keys, FetchHit(w, key) \/ FetchMiss(w, key)
  PROVE  IInv' /\ (CInv => CInv')
<1>1. /\ task[w].pc = "idle" /\ floor[key] \in Nat /\ TasksOK
  BY DEF FetchHit, FetchMiss, IInv, ServerOK
<1>2. CASE FetchHit(w, key)
  <2>1. /\ GetHit(key) /\ task' = [task EXCEPT ![w] = Done(key, blocks[key], floor[key])]
        /\ UNCHANGED <<others, inflight>>
    BY <1>2 DEF FetchHit
  <2>2. task[w].pc \notin Claiming /\ floor[key] <= floor[key]
    BY <1>1 DEF Claiming
  <2> QED
    BY <1>1, <2>1, <2>2, HitStep
<1>3. CASE FetchMiss(w, key)
  <2> DEFINE x == [pc |-> "miss", key |-> key, floor |-> floor[key]]
  <2>1. /\ x \in Asking /\ x.pc = "miss" /\ x \notin Fetching /\ x \notin Returning
        /\ x.key = key /\ x.floor = floor[key]
    BY <1>1 DEF Asking, Fetching, Returning, Claiming
  <2>2. Moves(w, x)
    BY <1>1, <1>3, MovesAlone DEF FetchMiss
  <2> HIDE DEF x
  <2>3. GoodTask(x) /\ TaskFresh(x) /\ FloorOK(x)
    BY <1>1, <2>1 DEF GoodTask, Task, TaskFresh, FloorOK
  <2> QED
    BY <1>1, <1>3, <2>1, <2>2, <2>3, QuietMove DEF FetchMiss, Claiming
<1> QED
  BY <1>2, <1>3

Begun(x, run, path, first, n, since) ==
  /\ x \in Fetching /\ x.pc = "lead" /\ x.run = run /\ x.path = path /\ x.first = first
  /\ x.n = n /\ x.floor = since /\ Len(x.data) = 0 /\ x.pos = 1
  /\ RunKeys(x) = {<<path, i>> : i \in first..(first + n - 1)}

\* A flight at its start.
LEMMA FlightIs ==
  ASSUME NEW run \in BOOLEAN, NEW path \in Files, NEW first \in Nat, NEW n \in Nat, NEW since \in Nat
  PROVE  Begun(Flight(run, path, first, n, since), run, path, first, n, since)
<1> DEFINE x == Flight(run, path, first, n, since)
<1>1. <<>> \in Seq(Contents) /\ Len(<<>>) = 0
  OBVIOUS
<1>2. x \in Fetching
  BY <1>1 DEF Flight, Fetching, Claiming
<1>3. /\ x.pc = "lead" /\ x.run = run /\ x.path = path /\ x.first = first
      /\ x.n = n /\ x.floor = since /\ x.data = <<>> /\ x.pos = 1
  BY DEF Flight
<1> HIDE DEF x
<1>4. RunKeys(x) = {<<path, i>> : i \in first..(first + n - 1)}
  BY <1>3 DEF RunKeys
<1> QED
  BY <1>1, <1>2, <1>3, <1>4 DEF x, Begun

\* A worker leads a flight for blocks that nobody is fetching.
LEMMA LeadStep ==
  ASSUME IInv, NEW w \in Workers, task[w].pc \notin Claiming,
         NEW run \in BOOLEAN, NEW path \in Files, NEW first \in Nat, NEW n \in Nat, n >= 1,
         NEW since \in Nat, IF run THEN since = 0 ELSE n = 1,
         \A i \in first..(first + n - 1) : i \in Indexes /\ <<path, i>> \notin DOMAIN inflight,
         CInv => since <= floor[<<path, first>>],
         task' = [task EXCEPT ![w] = Flight(run, path, first, n, since)],
         LET new == RunKeys(Flight(run, path, first, n, since))
         IN inflight' = [k \in DOMAIN inflight \cup new |-> IF k \in new THEN w ELSE inflight[k]],
         UNCHANGED <<others, store>>
  PROVE  IInv' /\ (CInv => CInv')
<1> DEFINE x == Flight(run, path, first, n, since)
<1>b. Begun(x, run, path, first, n, since)
  BY FlightIs
<1>2. Moves(w, x)
  BY MovesAlone DEF IInv
<1>3. inflight' = [k \in DOMAIN inflight \cup RunKeys(x) |-> IF k \in RunKeys(x) THEN w ELSE inflight[k]]
  OBVIOUS
<1> HIDE DEF x
<1>1. /\ x \in Fetching /\ x.pc = "lead" /\ x.run = run /\ x.path = path /\ x.first = first
      /\ x.n = n /\ x.floor = since /\ Len(x.data) = 0 /\ x.pos = 1
      /\ RunKeys(x) = {<<path, i>> : i \in first..(first + n - 1)}
  BY <1>b DEF Begun
<1>4. FlightOK(x)
  <2>1. IF x.run THEN x.floor = 0 ELSE x.n = 1
    BY <1>1, Zenon
  <2>2. \A i \in first..(first + n - 1) : i \in Indexes
    OBVIOUS
  <2>3. \A i \in x.first..(x.first + x.n - 1) : i \in Indexes
    BY <1>1, <2>2, Zenon
  <2>4. 0 <= n
    OBVIOUS
  <2>5. x.n >= 1 /\ Len(x.data) <= x.n
    BY <1>1, <2>4, Zenon
  <2>6. x.pc # "insert" /\ x.pos = 1
    BY <1>1
  <2> QED
    BY <2>1, <2>3, <2>5, <2>6, Zenon DEF FlightOK
<1>5. RunKeys(x) \subseteq Keys /\ RunKeys(x) \cap DOMAIN inflight = {}
  BY <1>1, KeysAre
<1>6. TasksOK' /\ SingleFlight'
  BY <1>1, <1>2, <1>3, <1>4, <1>5, ClaimKeeps DEF IInv
<1>7. UNCHANGED <<size, ver, changes, pending, blocks, lru, bytes, generations, floor, missed>>
  BY DEF server, others, store
<1>8. ServerOK' /\ StoreOK' /\ PendingOK'
  BY <1>7, RestKeeps DEF server, others
<1>9. Accounting'
  BY <1>7 DEF IInv, Accounting, TotalLen
<1>10. ASSUME CInv PROVE CInv'
  <2>1. x \notin Asking /\ x \notin Following /\ x \notin Returning
    BY <1>1 DEF Fetching, Asking, Following, Returning, Claiming
  <2>2. TaskFresh(x) /\ FloorOK(x)
    BY <1>1, <1>10, <2>1 DEF TaskFresh, FloorOK
  <2> QED
    BY <1>2, <1>7, <1>10, <2>2, WorkerFresh
<1> QED
  BY <1>6, <1>8, <1>9, <1>10 DEF IInv

\* By fetch under the inflight lock.
LEMMA ClaimStep ==
  ASSUME IInv, NEW w \in Workers, FetchClaim(w)
  PROVE  IInv' /\ (CInv => CInv')
<1> DEFINE t == task[w]
<1>1. /\ TasksOK /\ t \in Asking /\ t.pc = "miss" /\ t.key \in Keys /\ t.floor \in Nat
      /\ UNCHANGED <<others, store>>
  <2>1. t \in Asking /\ t.pc = "miss"
    BY TaskIs DEF FetchClaim, IInv, TasksOK
  <2> QED
    BY <2>1 DEF IInv, Asking, FetchClaim
<1>2. CInv => t.floor <= floor[t.key]
  BY <1>1 DEF CInv, FloorsOK, FloorOK
<1>3. CASE t.key \in DOMAIN inflight
  <2> DEFINE x == [pc |-> "wait", key |-> t.key, floor |-> t.floor, on |-> inflight[t.key]]
  <2>1. Moves(w, x) /\ UNCHANGED inflight
    BY <1>1, <1>3, MovesAlone DEF FetchClaim
  <2>2. /\ x \in Following /\ x.pc = "wait" /\ x \notin Fetching /\ x \notin Returning
        /\ x.key = t.key /\ x.floor = t.floor
    BY <1>1, <1>3 DEF TasksOK, Following, Fetching, Returning, Claiming
  <2> HIDE DEF x
  <2>3. GoodTask(x) /\ (CInv => TaskFresh(x) /\ FloorOK(x))
    BY <1>2, <2>2 DEF GoodTask, Task, TaskFresh, FloorOK
  <2> QED
    BY <1>1, <2>1, <2>2, <2>3, QuietMove DEF Claiming
<1>4. CASE t.key \notin DOMAIN inflight
  <2>0. PICK path \in Files, first \in Indexes : t.key = <<path, first>>
    <3>1. t.key \in Files \X Indexes
      BY <1>1, KeysAre
    <3> HIDE DEF t
    <3> QED
      BY <3>1
  <2> DEFINE x == Flight(FALSE, path, first, 1, t.floor)
  <2>1. first \in Nat /\ t.key[1] = path /\ t.key[2] = first
    BY <2>0, KeysAre
  <2>2. RunKeys(x) = {t.key}
    <3>1. Begun(x, FALSE, path, first, 1, t.floor)
      BY <1>1, <2>1, FlightIs
    <3>2. first..(first + 1 - 1) = {first}
      BY <2>1
    <3> HIDE DEF x
    <3> QED
      BY <2>0, <3>1, <3>2 DEF Begun
  <2>3. task' = [task EXCEPT ![w] = x]
    BY <1>4, <2>1 DEF FetchClaim
  <2>4. inflight' = [k \in DOMAIN inflight \cup RunKeys(x) |-> IF k \in RunKeys(x) THEN w ELSE inflight[k]]
    <3>1. inflight' = [k \in DOMAIN inflight \cup {t.key} |-> IF k = t.key THEN w ELSE inflight[k]]
      BY <1>4 DEF FetchClaim
    <3> HIDE DEF x, t
    <3> QED
      BY <2>2, <3>1
  <2>5. \A i \in first..(first + 1 - 1) : i \in Indexes /\ <<path, i>> \notin DOMAIN inflight
    BY <1>4, <2>0, <2>1
  <2>6. task[w].pc \notin Claiming /\ (CInv => t.floor <= floor[<<path, first>>])
    BY <1>1, <1>2, <2>0 DEF Claiming
  <2>7. /\ FALSE \in BOOLEAN /\ 1 \in Nat /\ 1 >= 1 /\ IF FALSE THEN t.floor = 0 ELSE 1 = 1
        /\ t.floor \in Nat /\ UNCHANGED <<others, store>>
    BY <1>1
  <2> HIDE DEF t
  <2> QED
    BY <2>1, <2>3, <2>4, <2>5, <2>6, <2>7, LeadStep
<1> QED
  BY <1>3, <1>4

\* By the claim of fetch_run.
LEMMA RunStep ==
  ASSUME IInv, NEW w \in Workers, NEW path \in Files, NEW first \in Indexes, NEW last \in Indexes,
         FetchRun(w, path, first, last + 1 - first)
  PROVE  IInv' /\ (CInv => CInv')
<1>1. PICK n \in 1..(last + 1 - first) :
        /\ \A i \in first..(first + n - 1) : <<path, i>> \notin DOMAIN inflight
        /\ task' = [task EXCEPT ![w] = Flight(TRUE, path, first, n, 0)]
        /\ LET new == RunKeys(Flight(TRUE, path, first, n, 0))
           IN inflight' = [k \in DOMAIN inflight \cup new |-> IF k \in new THEN w ELSE inflight[k]]
  BY DEF FetchRun
<1>2. first \in Nat /\ last \in Nat /\ (MaxSize - 1) \div BLOCK_SIZE \in Int
  BY KeysAre, CacheAssumption
<1>3. n \in Nat /\ n >= 1 /\ \A i \in first..(first + n - 1) : i \in Indexes
  BY <1>2 DEF Indexes
<1>4. <<path, first>> \in Keys /\ floor[<<path, first>>] \in Nat
  BY KeysAre DEF IInv, ServerOK
<1>5. task[w].pc \notin Claiming /\ UNCHANGED <<others, store>>
  BY DEF FetchRun, Claiming
<1>6. 0 <= floor[<<path, first>>] /\ TRUE \in BOOLEAN /\ 0 \in Nat
  BY <1>4
<1> QED
  BY <1>1, <1>2, <1>3, <1>5, <1>6, LeadStep

\* A fetch that is under way.
LEMMA FlightHas ==
  ASSUME IInv, NEW w \in Workers, task[w].pc \in Claiming \cup {"finish"}
  PROVE  /\ task[w] \in Fetching /\ FlightOK(task[w]) /\ task[w].run \in BOOLEAN
         /\ task[w].path \in Files /\ task[w].first \in Nat /\ task[w].n \in Nat
         /\ task[w].floor \in Nat /\ task[w].gen \in Nat /\ task[w].data \in Seq(Contents)
         /\ task[w].pos \in Nat
         /\ \A i \in 1..task[w].n : KeyAt(task[w], i) \in Keys
<1> DEFINE t == task[w]
<1>1. t \in Fetching /\ FlightOK(t)
  BY TaskIs DEF IInv, TasksOK
<1> HIDE DEF t
<1>2. /\ t.run \in BOOLEAN /\ t.path \in Files /\ t.first \in Nat /\ t.n \in Nat /\ t.floor \in Nat
      /\ t.gen \in Nat /\ t.data \in Seq(Contents) /\ t.pos \in Nat
  BY <1>1 DEF Fetching
<1>3. ASSUME NEW i \in 1..t.n PROVE KeyAt(t, i) \in Keys
  <2>1. t.first + i - 1 \in t.first..(t.first + t.n - 1)
    BY <1>2
  <2>2. t.first + i - 1 \in Indexes
    BY <1>1, <2>1 DEF FlightOK
  <2> QED
    BY <1>2, <2>2, KeysAre DEF KeyAt
<1> QED
  BY <1>1, <1>2, <1>3 DEF t

SameFlight(x, t) ==
  x.run = t.run /\ x.path = t.path /\ x.first = t.first /\ x.n = t.n /\ x.floor = t.floor

\* A fetch that goes on with the same blocks.
LEMMA FlightGoes ==
  ASSUME IInv, NEW w \in Workers, task[w].pc \in Claiming \cup {"finish"},
         NEW x \in Fetching, SameFlight(x, task[w]), Len(x.data) <= x.n,
         x.pc = "insert" => x.pos \in 1..Len(x.data),
         x.pc \in {"lead", "read"} => x.pos = 1
  PROVE  /\ GoodTask(x) /\ RunKeys(x) = RunKeys(task[w])
         /\ CInv /\ (\A i \in 1..Len(x.data) : x.data[i].ver >= x.floor) => FloorOK(x)
<1> DEFINE t == task[w]
<1>1. t \in Fetching /\ FlightOK(t)
  BY FlightHas
<1>2. x.run = t.run /\ x.path = t.path /\ x.first = t.first /\ x.n = t.n /\ x.floor = t.floor
  BY DEF SameFlight
<1>3. CInv => FloorOK(t)
  BY DEF CInv, FloorsOK
<1> HIDE DEF t
<1>4. FlightOK(x)
  <2>1. IF x.run THEN x.floor = 0 ELSE x.n = 1
    BY <1>1, <1>2, Zenon DEF FlightOK
  <2>2. x.n >= 1 /\ \A i \in x.first..(x.first + x.n - 1) : i \in Indexes
    BY <1>1, <1>2, Zenon DEF FlightOK
  <2> QED
    BY <2>1, <2>2, Zenon DEF FlightOK
<1>5. GoodTask(x)
  BY <1>4 DEF GoodTask, Task
<1>6. RunKeys(x) = RunKeys(t)
  BY <1>2 DEF RunKeys
<1>7. x \notin Asking /\ x \notin Following /\ x \notin Returning
  BY DEF Fetching, Asking, Following, Returning, Claiming
<1>8. ASSUME CInv, \A i \in 1..Len(x.data) : x.data[i].ver >= x.floor PROVE FloorOK(x)
  <2>1. x.floor <= floor[<<x.path, x.first>>]
    BY <1>1, <1>2, <1>3, <1>8 DEF FloorOK
  <2> QED
    BY <1>7, <1>8, <2>1 DEF FloorOK
<1> QED
  BY <1>5, <1>6, <1>8 DEF t

\* By the look at the generation.
LEMMA ReadGenerationStep ==
  ASSUME IInv, NEW w \in Workers, ReadGeneration(w)
  PROVE  IInv' /\ (CInv => CInv')
<1> DEFINE t == task[w]
           x == [t EXCEPT !.pc = "read", !.gen = generations[t.path]]
<1>1. t.pc = "lead" /\ UNCHANGED <<others, store, inflight>>
  BY DEF ReadGeneration
<1>2. t \in Fetching /\ FlightOK(t) /\ t.path \in Files
  BY <1>1, FlightHas DEF Claiming
<1>3. Moves(w, x)
  <2>1. task' = [task EXCEPT ![w] = x]
    BY <1>2 DEF ReadGeneration, IInv, TasksOK
  <2> HIDE DEF x
  <2> QED
    BY <2>1, MovesAlone DEF IInv
<1>4. generations[t.path] \in Nat /\ generations[t.path] <= generations[t.path]
  BY <1>2 DEF IInv, StoreOK
<1>5. CInv => \A i \in 1..Len(t.data) : t.data[i].ver >= t.floor
  BY <1>2 DEF CInv, FloorsOK, FloorOK
<1> HIDE DEF t
<1>6. /\ x \in Fetching /\ x.pc = "read" /\ x.gen = generations[t.path] /\ x.data = t.data
      /\ x.pos = t.pos /\ x.path = t.path /\ SameFlight(x, t)
  BY <1>2, <1>4 DEF Fetching, SameFlight, Claiming
<1> HIDE DEF x
<1>7. x.pos = 1 /\ Len(x.data) <= x.n
  BY <1>1, <1>2, <1>6 DEF FlightOK, SameFlight
<1>8. TaskFresh(x)
  BY <1>4, <1>6 DEF TaskFresh
<1>9. /\ GoodTask(x) /\ RunKeys(x) = RunKeys(t)
      /\ CInv /\ (\A i \in 1..Len(x.data) : x.data[i].ver >= x.floor) => FloorOK(x)
  BY <1>1, <1>6, <1>7, FlightGoes DEF t, Claiming
<1>10. CInv => FloorOK(x)
  BY <1>5, <1>6, <1>9 DEF SameFlight
<1>11. x.pc \in Claiming /\ t.pc \in Claiming
  BY <1>1, <1>6 DEF Claiming
<1> QED
  BY <1>1, <1>3, <1>8, <1>9, <1>10, <1>11, QuietMove DEF t

\* By a read that fails.
LEMMA ReadFailsStep ==
  ASSUME IInv, NEW w \in Workers, ReadFails(w)
  PROVE  IInv' /\ (CInv => CInv')
<1> DEFINE t == task[w]
           x == [t EXCEPT !.pc = "unclaim"]
<1>1. t.pc = "read" /\ UNCHANGED <<others, store, inflight>>
  BY DEF ReadFails
<1>2. t \in Fetching /\ FlightOK(t) /\ t.path \in Files
  BY <1>1, FlightHas DEF Claiming
<1>3. Moves(w, x)
  <2>1. task' = [task EXCEPT ![w] = x]
    BY <1>2 DEF ReadFails, IInv, TasksOK
  <2> HIDE DEF x
  <2> QED
    BY <2>1, MovesAlone DEF IInv
<1>5. CInv => /\ \A i \in 1..Len(t.data) : t.data[i].ver >= t.floor
              /\ t.gen <= generations[t.path]
  BY <1>1, <1>2 DEF CInv, FloorsOK, FloorOK, FlightsFresh, TaskFresh
<1> HIDE DEF t
<1>6. /\ x \in Fetching /\ x.pc = "unclaim" /\ x.gen = t.gen /\ x.data = t.data
      /\ x.path = t.path /\ SameFlight(x, t)
  BY <1>2 DEF Fetching, SameFlight, Claiming
<1> HIDE DEF x
<1>7. Len(x.data) <= x.n
  BY <1>2, <1>6 DEF FlightOK, SameFlight
<1>8. CInv => TaskFresh(x)
  BY <1>5, <1>6 DEF TaskFresh
<1>9. /\ GoodTask(x) /\ RunKeys(x) = RunKeys(t)
      /\ CInv /\ (\A i \in 1..Len(x.data) : x.data[i].ver >= x.floor) => FloorOK(x)
  BY <1>1, <1>6, <1>7, FlightGoes DEF t, Claiming
<1>10. CInv => FloorOK(x)
  BY <1>5, <1>6, <1>9 DEF SameFlight
<1>11. x.pc \in Claiming /\ t.pc \in Claiming
  BY <1>1, <1>6 DEF Claiming
<1> QED
  BY <1>1, <1>3, <1>8, <1>9, <1>10, <1>11, QuietMove DEF t

\* By the answer of the server.
LEMMA ServerReadStep ==
  ASSUME IInv, NEW w \in Workers, ServerRead(w)
  PROVE  IInv' /\ (CInv => CInv')
<1> DEFINE t == task[w]
           block(i) == Content(KeyAt(t, i))
           got == IF t.run THEN Cardinality({i \in 1..t.n : block(i).len > 0}) ELSE t.n
           data == [i \in 1..got |-> block(i)]
           pc == IF got = 0 THEN "unclaim" ELSE "insert"
           x == [t EXCEPT !.pc = pc, !.data = data]
<1>1. t.pc = "read" /\ UNCHANGED <<others, store, inflight>>
  BY DEF ServerRead
<1>2. /\ t \in Fetching /\ FlightOK(t) /\ t.path \in Files /\ t.first \in Nat /\ t.n \in Nat /\ t.floor \in Nat
      /\ \A i \in 1..t.n : KeyAt(t, i) \in Keys
  BY <1>1, FlightHas DEF Claiming
<1>3. Moves(w, x)
  <2>1. task' = [task EXCEPT ![w].pc = pc, ![w].data = data]
    BY DEF ServerRead, KeyAt
  <2> HIDE DEF pc, data
  <2>2. task' = [task EXCEPT ![w] = x]
    BY <1>2, <2>1 DEF IInv, TasksOK
  <2> HIDE DEF x
  <2> QED
    BY <2>2, MovesAlone DEF IInv
<1>4. \A i \in 1..t.n : block(i) \in Contents /\ block(i).ver = ver[KeyAt(t, i)]
  BY <1>2, ContentIs DEF IInv
<1>5. got \in Nat /\ got <= t.n
  <2> DEFINE full == {i \in 1..t.n : block(i).len > 0}
  <2>1. full \subseteq 1..t.n
    OBVIOUS
  <2> HIDE DEF full
  <2>2. IsFiniteSet(1..t.n) /\ Cardinality(1..t.n) = t.n
    <3>1. PICK n \in Nat : n = t.n
      BY <1>2
    <3>2. IsFiniteSet(1..n) /\ Cardinality(1..n) = n
      BY FS_Interval
    <3> QED
      BY <3>1, <3>2
  <2>3. Cardinality(full) \in Nat /\ Cardinality(full) <= t.n
    BY <2>1, <2>2, FS_Subset, FS_CardinalityType
  <2>4. got \in {Cardinality(full), t.n}
    BY DEF full
  <2> HIDE DEF got
  <2> QED
    BY <1>2, <2>3, <2>4
<1> HIDE DEF got
<1>6. data \in Seq(Contents) /\ Len(data) = got /\ \A i \in 1..got : data[i] = block(i)
  <2>1. 1..got \subseteq 1..t.n
    BY <1>2, <1>5
  <2>2. data \in [1..got -> Contents]
    BY <1>4, <2>1
  <2>3. data \in Seq(Contents)
    BY <1>5, <2>2, SeqDef
  <2> QED
    BY <1>5, <2>2, <2>3, LenProperties
<1>7. CInv => t.gen <= generations[t.path] /\ t.floor <= floor[KeyAt(t, 1)]
  <2>1. KeyAt(t, 1) = <<t.path, t.first>>
    BY <1>2 DEF KeyAt
  <2> QED
    BY <1>1, <1>2, <2>1 DEF CInv, FloorsOK, FloorOK, FlightsFresh, TaskFresh
<1>8. \A k \in Keys : floor[k] <= ver[k] /\ floor[k] \in Nat /\ ver[k] \in Nat
  BY DEF IInv, ServerOK
<1>9. pc \in {"unclaim", "insert"} /\ (pc = "insert" => got >= 1)
  BY <1>5
<1> HIDE DEF t, data, pc
<1>10. /\ x \in Fetching /\ x.pc = pc /\ x.gen = t.gen /\ x.data = data /\ x.pos = t.pos
       /\ x.path = t.path /\ x.first = t.first /\ SameFlight(x, t)
  BY <1>2, <1>6, <1>9 DEF Fetching, SameFlight, Claiming
<1> HIDE DEF x, block
<1>11. /\ Len(x.data) <= x.n /\ (x.pc = "insert" => x.pos \in 1..Len(x.data)) /\ x.pc \in {"unclaim", "insert"}
  <2>1. t.pos = 1
    BY <1>1, <1>2 DEF FlightOK
  <2> QED
    BY <1>5, <1>6, <1>9, <1>10, <2>1 DEF SameFlight
<1>12. \A i \in 1..got : /\ i \in 1..t.n /\ KeyAt(t, i) \in Keys /\ x.data[i] = Content(KeyAt(t, i))
                         /\ x.data[i].ver = ver[KeyAt(t, i)]
  BY <1>2, <1>4, <1>5, <1>6, <1>10 DEF block
<1>13. CInv => TaskFresh(x)
  <2>1. \A i \in 1..got : UpToDate(KeyAt(t, i), x.data[i])
    <3> TAKE i \in 1..got
    <3>1. PICK k, c : k \in Keys /\ k = KeyAt(t, i) /\ c = x.data[i] /\ c = Content(k) /\ c.ver = ver[k]
      BY <1>12
    <3>2. NotNews(k, c)
      BY <3>1 DEF NotNews, IInv, PendingOK, NoticeOK
    <3>3. UpToDate(k, c)
      BY <1>8, <3>1, <3>2 DEF UpToDate
    <3> QED
      BY <3>1, <3>3
  <2>2. \A i \in 1..Len(x.data) : UpToDate(KeyAt(x, i), x.data[i])
    BY <1>6, <1>10, <2>1 DEF KeyAt
  <2> QED
    BY <1>7, <1>10, <2>2 DEF TaskFresh
<1>14. ASSUME CInv, NEW i \in 1..Len(x.data) PROVE x.data[i].ver >= x.floor
  <2>1. i \in 1..got /\ x.floor = t.floor /\ x.data[i].ver = ver[KeyAt(t, i)] /\ ver[KeyAt(t, i)] \in Nat
    BY <1>6, <1>8, <1>10, <1>12 DEF SameFlight
  <2>2. CASE t.floor = 0
    BY <2>1, <2>2
  <2>3. CASE t.n = 1
    <3>1. i = 1
      BY <1>5, <2>1, <2>3
    <3>2. KeyAt(t, 1) \in Keys /\ t.floor <= floor[KeyAt(t, 1)]
      BY <1>2, <1>7, <1>14, <2>3
    <3> QED
      BY <1>2, <1>8, <2>1, <3>1, <3>2
  <2>4. t.floor = 0 \/ t.n = 1
    BY <1>2, Zenon DEF FlightOK
  <2> QED
    BY <2>2, <2>3, <2>4
<1>15. /\ GoodTask(x) /\ RunKeys(x) = RunKeys(t)
       /\ CInv /\ (\A i \in 1..Len(x.data) : x.data[i].ver >= x.floor) => FloorOK(x)
  <2>1. x.pc \notin {"lead", "read"}
    BY <1>11
  <2> QED
    BY <1>1, <1>10, <1>11, <2>1, FlightGoes DEF t, Claiming
<1>16. CInv => FloorOK(x)
  BY <1>14, <1>15
<1>17. x.pc \in Claiming /\ t.pc \in Claiming
  BY <1>1, <1>11 DEF Claiming
<1> QED
  BY <1>1, <1>3, <1>13, <1>15, <1>16, <1>17, QuietMove DEF t

\* By the insertion of one block.
LEMMA InsertStep ==
  ASSUME IInv, NEW w \in Workers, InsertNext(w)
  PROVE  IInv' /\ (CInv => CInv')
<1> DEFINE t == task[w]
           key == KeyAt(t, t.pos)
           c == t.data[t.pos]
           pc == IF t.pos = Len(t.data) THEN "unclaim" ELSE "insert"
           x == [t EXCEPT !.pc = pc, !.pos = t.pos + 1]
<1>1. t.pc = "insert" /\ UNCHANGED <<size, ver, changes, pending, inflight, floor, missed>> /\ Insert(key, c, t.gen)
  BY DEF InsertNext, server, others, KeyAt
<1>2. /\ t \in Fetching /\ FlightOK(t) /\ t.path \in Files /\ t.n \in Nat /\ t.data \in Seq(Contents)
      /\ t.pos \in Nat /\ Len(t.data) \in Nat /\ Len(t.data) <= t.n /\ t.pos \in 1..Len(t.data)
      /\ \A i \in 1..t.n : KeyAt(t, i) \in Keys
  BY <1>1, FlightHas DEF Claiming, FlightOK
<1>3. Moves(w, x)
  <2>1. task' = [task EXCEPT ![w].pc = pc, ![w].pos = t.pos + 1]
    BY DEF InsertNext
  <2> HIDE DEF pc
  <2>2. task' = [task EXCEPT ![w] = x]
    BY <1>2, <2>1 DEF IInv, TasksOK
  <2> HIDE DEF x
  <2> QED
    BY <2>2, MovesAlone DEF IInv
<1>4. key \in Keys /\ c \in Contents /\ key[1] = t.path
  <2>1. key \in Keys
    BY <1>2
  <2>2. c \in Contents
    BY <1>2, ElementOfSeq
  <2>3. key[1] = t.path
    BY DEF KeyAt
  <2> QED
    BY <2>1, <2>2, <2>3
<1>5. CInv => /\ \A i \in 1..Len(t.data) : t.data[i].ver >= t.floor
              /\ t.gen <= generations[t.path]
              /\ t.gen = generations[t.path] =>
                   \A i \in 1..Len(t.data) : UpToDate(KeyAt(t, i), t.data[i])
  BY <1>1, <1>2 DEF CInv, FloorsOK, FloorOK, FlightsFresh, TaskFresh
<1>6. CInv /\ t.gen = generations[t.path] => UpToDate(key, c)
  BY <1>2, <1>5
<1>7. pc \in {"unclaim", "insert"} /\ (pc = "insert" => t.pos + 1 \in 1..Len(t.data)) /\ t.pos + 1 \in Nat
  BY <1>2
<1> HIDE DEF t, pc, key, c
<1>8. /\ x \in Fetching /\ x.pc = pc /\ x.gen = t.gen /\ x.data = t.data /\ x.pos = t.pos + 1
      /\ x.path = t.path /\ x.first = t.first /\ SameFlight(x, t)
  BY <1>2, <1>7 DEF Fetching, SameFlight, Claiming
<1> HIDE DEF x
<1>9. /\ Len(x.data) <= x.n /\ (x.pc = "insert" => x.pos \in 1..Len(x.data)) /\ x.pc \in {"unclaim", "insert"}
  BY <1>2, <1>7, <1>8 DEF SameFlight
<1>10. /\ GoodTask(x) /\ RunKeys(x) = RunKeys(t)
       /\ CInv /\ (\A i \in 1..Len(x.data) : x.data[i].ver >= x.floor) => FloorOK(x)
  <2>1. x.pc \notin {"lead", "read"}
    BY <1>9
  <2> QED
    BY <1>1, <1>8, <1>9, <2>1, FlightGoes DEF t, Claiming
<1>11. CInv => FloorOK(x)
  BY <1>5, <1>8, <1>10 DEF SameFlight
<1>12. CInv => TaskFresh(x)
  <2>1. \A i : KeyAt(x, i) = KeyAt(t, i)
    BY <1>8 DEF KeyAt
  <2> QED
    BY <1>5, <1>8, <2>1 DEF TaskFresh
<1>13. x.pc \in Claiming /\ t.pc \in Claiming
  BY <1>1, <1>9 DEF Claiming
<1>14. TasksOK' /\ SingleFlight'
  BY <1>1, <1>3, <1>10, <1>13, MoveKeeps DEF IInv, GoodTask, t
<1>15. /\ Accounting' /\ DOMAIN blocks' \subseteq Keys /\ generations' = generations
       /\ \A k \in DOMAIN blocks' : blocks'[k] \in Contents
       /\ CInv => \A k \in DOMAIN blocks' : \/ k \in DOMAIN blocks /\ blocks'[k] = blocks[k]
                                            \/ UpToDate(k, blocks'[k])
  <2>1. DOMAIN blocks \subseteq Keys /\ \A k \in DOMAIN blocks : blocks[k] \in Contents
    BY DEF IInv, StoreOK
  <2>2. CASE generations[key[1]] = t.gen
    <3>1. /\ Accounting' /\ DOMAIN blocks' \subseteq DOMAIN blocks \cup {key} /\ generations' = generations
          /\ \A k \in DOMAIN blocks' : blocks'[k] = IF k = key THEN c ELSE blocks[k]
      BY <1>1, <1>4, <2>2, PutKeeps DEF IInv, Insert
    <3>2. CInv => UpToDate(key, c)
      BY <1>4, <1>6, <2>2
    <3> QED
      BY <1>4, <2>1, <3>1, <3>2
  <2>3. CASE generations[key[1]] # t.gen
    <3>1. UNCHANGED <<blocks, lru, bytes, generations>>
      BY <1>1, <2>3 DEF Insert
    <3>2. Accounting'
      BY <3>1 DEF IInv, Accounting, TotalLen
    <3> QED
      BY <2>1, <3>1, <3>2
  <2> QED
    BY <2>2, <2>3
<1>16. StoreOK'
  BY <1>15 DEF IInv, StoreOK, Contents
<1>17. ServerOK' /\ PendingOK'
  BY <1>1, <1>15 DEF IInv, ServerOK, PendingOK, NoticeOK
<1>18. ASSUME CInv PROVE CInv'
  BY <1>1, <1>3, <1>11, <1>12, <1>15, <1>18, WorkerFresh
<1> QED
  BY <1>14, <1>15, <1>16, <1>17, <1>18 DEF IInv

\* By the end of the claim.
LEMMA UnclaimStep ==
  ASSUME IInv, NEW w \in Workers, Unclaim(w)
  PROVE  IInv' /\ (CInv => CInv')
<1> DEFINE t == task[w]
           f == [t EXCEPT !.pc = "finish"]
<1>1. /\ t.pc = "unclaim" /\ UNCHANGED <<others, store>>
      /\ inflight' = Restrict(inflight, DOMAIN inflight \ RunKeys(t))
  BY DEF Unclaim
<1>2. t \in Fetching /\ FlightOK(t) /\ t.path \in Files /\ t.pc \in Claiming
  BY <1>1, FlightHas DEF Claiming
<1>3. CInv => /\ \A i \in 1..Len(t.data) : t.data[i].ver >= t.floor
              /\ t.gen <= generations[t.path]
  BY <1>1, <1>2 DEF CInv, FloorsOK, FloorOK, FlightsFresh, TaskFresh
<1>4. PICK x : Moves(w, x) /\ (x = Idle \/ x = f)
  <2>1. CASE t.run
    <3>1. task' = Wake([task EXCEPT ![w] = Idle], w)
      BY <2>1 DEF Unclaim
    <3>2. Idle.pc # "wait"
      BY DEF Idle
    <3> QED
      BY <3>1, <3>2, MovesWaking DEF IInv
  <2>2. CASE ~t.run
    <3>1. task' = [task EXCEPT ![w] = f]
      BY <1>2, <2>2 DEF Unclaim, IInv, TasksOK
    <3> HIDE DEF f
    <3> QED
      BY <3>1, MovesAlone DEF IInv
  <2> QED
    BY <2>1, <2>2
<1> HIDE DEF t
<1>5. /\ f \in Fetching /\ f.pc = "finish" /\ f.gen = t.gen /\ f.data = t.data
      /\ f.path = t.path /\ SameFlight(f, t)
  BY <1>2 DEF Fetching, SameFlight, Claiming
<1> HIDE DEF f
<1>6. Len(f.data) <= f.n
  BY <1>2, <1>5 DEF FlightOK, SameFlight
<1>7. /\ GoodTask(f)
      /\ CInv /\ (\A i \in 1..Len(f.data) : f.data[i].ver >= f.floor) => FloorOK(f)
  BY <1>2, <1>5, <1>6, FlightGoes DEF t
<1>8. CInv => TaskFresh(f) /\ FloorOK(f)
  BY <1>3, <1>5, <1>7 DEF TaskFresh, SameFlight
<1>9. GoodTask(Idle) /\ TaskFresh(Idle) /\ FloorOK(Idle) /\ Idle.pc \notin Claiming
  BY DEF GoodTask, Task, Idle, TaskFresh, FloorOK, Fetching, Asking, Following, Returning, Claiming
<1>10. /\ GoodTask(x) /\ x.pc \notin Claiming /\ (CInv => TaskFresh(x) /\ FloorOK(x))
  BY <1>4, <1>5, <1>7, <1>8, <1>9 DEF Claiming
<1>11. TasksOK' /\ SingleFlight'
  BY <1>1, <1>2, <1>4, <1>10, UnclaimKeeps DEF IInv, GoodTask, t
<1>12. UNCHANGED <<size, ver, changes, pending, blocks, lru, bytes, generations, floor, missed>>
  BY <1>1 DEF server, others, store
<1>13. ServerOK' /\ StoreOK' /\ PendingOK'
  BY <1>12, RestKeeps DEF server, others
<1>14. Accounting'
  BY <1>12 DEF IInv, Accounting, TotalLen
<1>15. ASSUME CInv PROVE CInv'
  BY <1>4, <1>10, <1>12, <1>15, WorkerFresh
<1> QED
  BY <1>11, <1>13, <1>14, <1>15 DEF IInv

\* A worker that has nothing left to do, or something to return.
LEMMA EndStep ==
  ASSUME IInv, NEW w \in Workers, NEW x, Moves(w, x), task[w].pc \notin Claiming,
         \/ x = Idle
         \/ \E key \in Keys, c \in Contents, since \in Nat :
              x = Done(key, c, since) /\ (CInv => c.ver >= since),
         UNCHANGED <<others, store, inflight>>
  PROVE  IInv' /\ (CInv => CInv')
<1>1. GoodTask(x) /\ x.pc \notin Claiming /\ (CInv => TaskFresh(x) /\ FloorOK(x))
  <2>1. CASE x = Idle
    BY <2>1 DEF GoodTask, Task, Idle, TaskFresh, FloorOK, Fetching, Asking, Following, Returning, Claiming
  <2>2. ASSUME NEW key \in Keys, NEW c \in Contents, NEW since \in Nat,
               x = Done(key, c, since), CInv => c.ver >= since
        PROVE  GoodTask(x) /\ x.pc \notin Claiming /\ (CInv => TaskFresh(x) /\ FloorOK(x))
    <3>1. /\ x \in Returning /\ x.data = c /\ x.floor = since /\ x.pc = "done"
          /\ x \notin Fetching /\ x \notin Asking /\ x \notin Following
      BY <2>2 DEF Done, Returning, Fetching, Asking, Following, Claiming
    <3> QED
      BY <2>2, <3>1 DEF GoodTask, Task, TaskFresh, FloorOK, Claiming
  <2> QED
    BY <2>1, <2>2
<1> QED
  BY <1>1, QuietMove

\* By the end of fetch.
LEMMA FinishStep ==
  ASSUME IInv, NEW w \in Workers, FetchFinish(w)
  PROVE  IInv' /\ (CInv => CInv')
<1> DEFINE t == task[w]
           d == Done(<<t.path, t.first>>, t.data[1], t.floor)
           x == IF t.data = <<>> THEN Idle ELSE d
<1>1. /\ t.pc = "finish" /\ UNCHANGED <<others, store, inflight>>
      /\ task' = Wake([task EXCEPT ![w] = x], w)
  BY DEF FetchFinish
<1>2. /\ t \in Fetching /\ FlightOK(t) /\ t.path \in Files /\ t.first \in Nat /\ t.n \in Nat /\ t.floor \in Nat
      /\ t.data \in Seq(Contents) /\ \A i \in 1..t.n : KeyAt(t, i) \in Keys
  BY <1>1, FlightHas DEF Claiming
<1>3. x.pc # "wait"
  BY DEF Done, Idle
<1>4. CInv => \A i \in 1..Len(t.data) : t.data[i].ver >= t.floor
  BY <1>2 DEF CInv, FloorsOK, FloorOK
<1> HIDE DEF t
<1>5. t.data # <<>> => <<t.path, t.first>> \in Keys /\ t.data[1] \in Contents /\ (CInv => t.data[1].ver >= t.floor)
  <2> SUFFICES ASSUME t.data # <<>>
               PROVE  <<t.path, t.first>> \in Keys /\ t.data[1] \in Contents /\ (CInv => t.data[1].ver >= t.floor)
    OBVIOUS
  <2>1. Len(t.data) \in Nat /\ 1 \in 1..Len(t.data)
    BY <1>2, EmptySeq, LenProperties
  <2>2. t.data[1] \in Contents
    BY <1>2, <2>1, ElementOfSeq
  <2>3. 1 \in 1..t.n /\ KeyAt(t, 1) = <<t.path, t.first>>
    BY <1>2 DEF FlightOK, KeyAt
  <2> QED
    BY <1>2, <1>4, <2>1, <2>2, <2>3
<1>6. \/ x = Idle
      \/ \E key \in Keys, c \in Contents, since \in Nat :
           x = Done(key, c, since) /\ (CInv => c.ver >= since)
  BY <1>2, <1>5
<1>7. Moves(w, x) /\ t.pc \notin Claiming
  <2> HIDE DEF x
  <2> QED
    BY <1>1, <1>3, MovesWaking DEF IInv, Claiming
<1> HIDE DEF x
<1> QED
  BY <1>1, <1>6, <1>7, EndStep DEF t

\* By a follower.
LEMMA FollowerStep ==
  ASSUME IInv, NEW w \in Workers, FollowerHit(w) \/ FollowerMiss(w) \/ FollowerRead(w)
  PROVE  IInv' /\ (CInv => CInv')
<1> DEFINE t == task[w]
<1>1. t.pc \in {"woken", "direct"} /\ TasksOK /\ ServerOK
  BY DEF FollowerHit, FollowerMiss, FollowerRead, IInv
<1>2. t \in Following /\ t.key \in Keys /\ t.floor \in Nat /\ t.pc \notin Claiming
  <2>1. t \in Following
    BY <1>1, TaskIs DEF TasksOK
  <2> QED
    BY <1>1, <2>1 DEF Following, Claiming
<1>3. CInv => t.floor <= floor[t.key]
  BY <1>2 DEF CInv, FloorsOK, FloorOK
<1>4. CASE FollowerHit(w)
  <2>1. /\ GetHit(t.key) /\ UNCHANGED <<others, inflight>>
        /\ task' = [task EXCEPT ![w] = Done(t.key, blocks[t.key], t.floor)]
    BY <1>1, <1>4 DEF FollowerHit, TasksOK
  <2> QED
    BY <1>2, <1>3, <2>1, HitStep
<1>5. CASE FollowerMiss(w)
  <2> DEFINE x == [t EXCEPT !.pc = "direct"]
  <2>1. task' = [task EXCEPT ![w] = x] /\ UNCHANGED <<others, store, inflight>>
    BY <1>1, <1>5 DEF FollowerMiss, TasksOK
  <2> HIDE DEF t
  <2>2. /\ x \in Following /\ x.pc = "direct" /\ x \notin Fetching /\ x \notin Returning
        /\ x.key = t.key /\ x.floor = t.floor
    BY <1>2 DEF Following, Fetching, Returning, Claiming
  <2> HIDE DEF x
  <2>3. Moves(w, x)
    BY <1>1, <2>1, MovesAlone
  <2>4. GoodTask(x) /\ (CInv => TaskFresh(x) /\ FloorOK(x))
    BY <1>3, <2>2 DEF GoodTask, Task, TaskFresh, FloorOK
  <2> QED
    BY <1>2, <2>1, <2>2, <2>3, <2>4, QuietMove DEF Claiming, t
<1>6. CASE FollowerRead(w)
  <2> DEFINE d == Done(t.key, Content(t.key), t.floor)
  <2>1. (task' = [task EXCEPT ![w] = d] \/ task' = [task EXCEPT ![w] = Idle])
        /\ UNCHANGED <<others, store, inflight>>
    BY <1>1, <1>6 DEF FollowerRead, TasksOK
  <2>2. Content(t.key) \in Contents /\ (CInv => Content(t.key).ver >= t.floor)
    <3>1. Content(t.key) \in Contents /\ Content(t.key).ver = ver[t.key]
      BY <1>1, <1>2, ContentIs
    <3>2. floor[t.key] <= ver[t.key] /\ floor[t.key] \in Nat /\ ver[t.key] \in Nat
      BY <1>1, <1>2 DEF ServerOK
    <3> QED
      BY <1>2, <1>3, <3>1, <3>2
  <2>3. PICK x : Moves(w, x) /\ (x = d \/ x = Idle)
    <3> HIDE DEF d, t
    <3> QED
      BY <1>1, <2>1, MovesAlone
  <2>4. \/ x = Idle
        \/ \E key \in Keys, c \in Contents, since \in Nat :
             x = Done(key, c, since) /\ (CInv => c.ver >= since)
    BY <1>2, <2>2, <2>3
  <2> QED
    BY <1>2, <2>1, <2>3, <2>4, EndStep
<1> QED
  BY <1>4, <1>5, <1>6

\* By the return from fetch.
LEMMA ReturnStep ==
  ASSUME IInv, NEW w \in Workers, Return(w)
  PROVE  IInv' /\ (CInv => CInv')
<1>1. /\ task[w].pc \notin Claiming /\ task' = [task EXCEPT ![w] = Idle]
      /\ UNCHANGED <<others, store, inflight>>
  BY DEF Return, Claiming
<1>2. Moves(w, Idle)
  BY <1>1, MovesAlone DEF IInv
<1> QED
  BY <1>1, <1>2, EndStep

\* By any step of a worker.
LEMMA WorkerStep ==
  ASSUME IInv, NEW w \in Workers, Starts(w) \/ Goes(w)
  PROVE  IInv' /\ (CInv => CInv')
<1>1. CASE Starts(w)
  BY <1>1, FetchStep, RunStep DEF Starts
<1>2. CASE Goes(w)
  BY <1>2, ClaimStep, ReadGenerationStep, ServerReadStep, ReadFailsStep, InsertStep, UnclaimStep,
     FinishStep, FollowerStep, ReturnStep DEF Goes
<1> QED
  BY <1>1, <1>2

-----------------------------------------------------------------------------
(* Changes and their invalidations keep the cache fresh. *)

\* Whole blocks before and up to an offset.
LEMMA DivIs ==
  ASSUME NEW a \in Nat, NEW i \in Nat
  PROVE  /\ a < (i + 1) * BLOCK_SIZE => a \div BLOCK_SIZE <= i
         /\ i * BLOCK_SIZE <= a => i <= a \div BLOCK_SIZE
         /\ a \div BLOCK_SIZE \in Nat
<1> DEFINE q == a \div BLOCK_SIZE
<1>0. BLOCK_SIZE \in Nat /\ BLOCK_SIZE >= 1
  BY CacheAssumption
<1>1. q \in Nat /\ q * BLOCK_SIZE <= a /\ a < q * BLOCK_SIZE + BLOCK_SIZE
  BY <1>0
<1> HIDE DEF q
<1>2. \A m, n \in Nat : m <= n => m * BLOCK_SIZE <= n * BLOCK_SIZE
  BY <1>0
<1>3. \A m \in Nat : (m + 1) * BLOCK_SIZE = m * BLOCK_SIZE + BLOCK_SIZE /\ m * BLOCK_SIZE \in Nat
  BY <1>0
<1>4. ASSUME a < (i + 1) * BLOCK_SIZE PROVE q <= i
  <2>1. CASE i + 1 <= q
    <3>1. (i + 1) * BLOCK_SIZE <= q * BLOCK_SIZE
      BY <1>1, <1>2, <2>1
    <3>2. (i + 1) * BLOCK_SIZE \in Nat /\ q * BLOCK_SIZE \in Nat
      BY <1>1, <1>3
    <3> QED
      BY <1>1, <1>4, <3>1, <3>2
  <2> QED
    BY <1>1, <2>1
<1>5. ASSUME i * BLOCK_SIZE <= a PROVE i <= q
  <2>1. CASE q + 1 <= i
    <3>1. (q + 1) * BLOCK_SIZE <= i * BLOCK_SIZE
      BY <1>1, <1>2, <2>1
    <3>2. (q + 1) * BLOCK_SIZE = q * BLOCK_SIZE + BLOCK_SIZE /\ q * BLOCK_SIZE \in Nat /\ i * BLOCK_SIZE \in Nat
      BY <1>1, <1>3
    <3> QED
      BY <1>0, <1>1, <1>5, <3>1, <3>2
  <2> QED
    BY <1>1, <2>1
<1> QED
  BY <1>1, <1>4, <1>5 DEF q

\* A block that a range does not touch keeps its length when the file's end
\* moves within that range.
LEMMA UntouchedLen ==
  ASSUME NEW m \in Nat, NEW n \in Nat, NEW from \in Nat, NEW to \in Nat, NEW k \in Keys,
         k \notin Touched(k[1], from, to),
         from < to => from <= m /\ from <= n /\ (m = n \/ (m <= to /\ n <= to)),
         from >= to => m = n
  PROVE  BlockLen(m, k[2]) = BlockLen(n, k[2])
<1>1. PICK i \in Nat : i = k[2]
  BY KeysAre
<1>2. BLOCK_SIZE \in Nat /\ BLOCK_SIZE >= 1 /\ (i + 1) * BLOCK_SIZE = i * BLOCK_SIZE + BLOCK_SIZE /\ i * BLOCK_SIZE \in Nat
  BY CacheAssumption
<1>3. PICK a \in Nat : a = i * BLOCK_SIZE /\ a + BLOCK_SIZE = (i + 1) * BLOCK_SIZE
  BY <1>2
<1>4. \A x \in Nat : BlockLen(x, i) = IF x >= a + BLOCK_SIZE THEN BLOCK_SIZE ELSE IF x <= a THEN 0 ELSE x - a
  BY <1>3 DEF BlockLen
<1>5. ~(from < to /\ a < to /\ from < a + BLOCK_SIZE)
  BY <1>1, <1>3 DEF Touched
<1>6. m = n \/ (m <= a /\ n <= a) \/ (m >= a + BLOCK_SIZE /\ n >= a + BLOCK_SIZE)
  BY <1>2, <1>5
<1> QED
  BY <1>1, <1>2, <1>4, <1>6

\* Every change is one of these.
LEMMA ServerChangesAre ==
  ASSUME ServerOK, ServerChanges
  PROVE  \E inv, feed, keys, lost, newSize : Changing(inv, feed, keys, lost, newSize)
<1>0. /\ size \in [Files -> 0..MaxSize] /\ MaxSize \in Nat /\ Sizes \subseteq 0..MaxSize
      /\ \A r \in Ranges : r[1] \in Nat /\ r[2] \in 1..MaxSize /\ r[1] < r[2]
      /\ \A p \in Files : size[p] \in Nat
  BY CacheAssumption DEF ServerOK
<1>1. \A path, from, to : Touched(path, from, to) \in SUBSET Keys
  BY DEF Touched
<1>2. ASSUME NEW p \in Files, NEW r \in Ranges, NEW feed, WriteFileAt(p, r[1], r[2], feed)
      PROVE  \E inv, keys, lost, newSize : Changing(inv, feed, keys, lost, newSize)
  <2>0. PICK from \in Nat, to \in Nat : from = r[1] /\ to = r[2] /\ from < to
    BY <1>0
  <2>1. size[p] \in Nat /\ to \in 0..MaxSize /\ size[p] \in 0..MaxSize
    BY <1>0, <2>0
  <2> DEFINE new == [size EXCEPT ![p] = Max({size[p], to})]
             told == Touched(p, from, to)
             gap == Touched(p, size[p], from) \ told
             inv == RangeInv(p, from, to)
  <2>2. PICK m \in Nat : m = Max({size[p], to}) /\ m \in {size[p], to} /\ m >= size[p] /\ m >= to
    BY <2>1, MaxOfTwo
  <2>3. Change(told \cup gap, new) /\ Announce(inv, feed, told \cup gap, gap)
    BY <1>2, <2>0 DEF WriteFileAt
  <2>4. ASSUME NEW k \in told PROVE Drops(inv, k)
    <3>1. /\ k[1] = p /\ k[2] \in Nat /\ k[2] * BLOCK_SIZE < to /\ from < (k[2] + 1) * BLOCK_SIZE
      BY KeysAre DEF Touched
    <3>2. to - from \in Nat /\ to - from >= 1 /\ 1 \in Nat
      BY <2>0
    <3>3. Max({to - from, 1}) = to - from
      <4>1. Max({to - from, 1}) \in {to - from, 1} /\ Max({to - from, 1}) >= to - from
        BY <3>2, MaxOfTwo
      <4> QED
        BY <3>2, <4>1
    <3>4. from + (to - from) - 1 = to - 1 /\ to - 1 \in Nat
      BY <2>0
    <3>5. k[2] * BLOCK_SIZE <= to - 1
      <4>1. k[2] * BLOCK_SIZE \in Nat
        BY <3>1, CacheAssumption
      <4> QED
        BY <3>1, <4>1
    <3>6. from \div BLOCK_SIZE <= k[2] /\ k[2] <= (to - 1) \div BLOCK_SIZE
          /\ from \div BLOCK_SIZE \in Nat /\ (to - 1) \div BLOCK_SIZE \in Nat
      BY <3>1, <3>4, <3>5, DivIs
    <3>7. k[2] \in (from \div BLOCK_SIZE)..((from + Max({to - from, 1}) - 1) \div BLOCK_SIZE)
      BY <3>1, <3>3, <3>4, <3>6
    <3>8. inv.kind = "range" /\ inv.path = p /\ inv.offset = from /\ inv.len = to - from
      BY DEF RangeInv
    <3> HIDE DEF inv
    <3> QED
      BY <3>1, <3>7, <3>8 DEF Drops
  <2>5. ASSUME NEW k \in Keys \ (told \cup gap)
        PROVE  BlockLen(new[k[1]], k[2]) = BlockLen(size[k[1]], k[2])
    <3>1. k[1] \in Files
      BY KeysAre
    <3>2. CASE k[1] = p
      <4>2. new[k[1]] = m
        BY <1>0, <2>2, <3>2
      <4>3. k \notin Touched(k[1], from, to) /\ k \notin Touched(k[1], size[p], from)
        BY <3>2
      <4>4. PICK lo \in Nat : lo = (IF from <= size[p] THEN from ELSE size[p])
        BY <2>1
      <4>5. k \notin Touched(k[1], lo, to)
        <5>1. PICK a \in Nat, b \in Nat : a = k[2] * BLOCK_SIZE /\ b = (k[2] + 1) * BLOCK_SIZE
          <6>1. k[2] \in Nat /\ BLOCK_SIZE \in Nat
            BY KeysAre, CacheAssumption
          <6> QED
            BY <6>1
        <5>2. ~(from < to /\ a < to /\ from < b) /\ ~(size[p] < from /\ a < from /\ size[p] < b)
          BY <4>3, <5>1 DEF Touched
        <5>3. a < b
          <6>1. k[2] \in Nat /\ BLOCK_SIZE \in Nat /\ BLOCK_SIZE >= 1 /\ (k[2] + 1) * BLOCK_SIZE = k[2] * BLOCK_SIZE + BLOCK_SIZE
            BY KeysAre, CacheAssumption
          <6> QED
            BY <5>1, <6>1
        <5>4. ~(lo < to /\ a < to /\ lo < b)
          BY <2>0, <2>1, <4>4, <5>2, <5>3
        <5> QED
          BY <5>1, <5>4 DEF Touched
      <4>6. lo < to /\ lo <= m /\ lo <= size[p] /\ (m = size[p] \/ (m <= to /\ size[p] <= to))
        BY <2>0, <2>1, <2>2, <4>4
      <4>7. BlockLen(m, k[2]) = BlockLen(size[p], k[2])
        BY <2>1, <4>5, <4>6, UntouchedLen
      <4> QED
        BY <3>2, <4>2, <4>7
    <3>3. CASE k[1] # p
      BY <1>0, <3>1, <3>3
    <3> QED
      BY <3>2, <3>3
  <2>6. new \in [Files -> 0..MaxSize]
    BY <1>0, <2>1, <2>2
  <2>7. told \cup gap \in SUBSET Keys /\ gap \in SUBSET Keys /\ (told \cup gap) \ gap \subseteq told
    BY <1>1
  <2> HIDE DEF new, inv, told, gap
  <2>8. Changing(inv, feed, told \cup gap, gap, new)
    BY <2>3, <2>4, <2>5, <2>6, <2>7 DEF Changing
  <2> QED
    BY <2>8
<1>3. ASSUME NEW p \in Files, NEW r \in Ranges, NoWrite(p, r[1], r[2])
      PROVE  \E inv, feed, keys, lost, newSize : Changing(inv, feed, keys, lost, newSize)
  <2> DEFINE inv == RangeInv(p, r[1], r[2])
  <2>1. Change({}, size) /\ Announce(inv, FALSE, {}, {})
    BY <1>3 DEF NoWrite
  <2> HIDE DEF inv
  <2>2. Changing(inv, FALSE, {}, {}, size)
    BY <1>0, <2>1 DEF Changing
  <2> QED
    BY <2>2
<1>4. ASSUME NEW p \in Files, NEW n \in Sizes, Truncate(p, n)
      PROVE  \E inv, feed, keys, lost, newSize : Changing(inv, feed, keys, lost, newSize)
  <2>1. PICK s \in Nat, m \in Nat : s = size[p] /\ m = n
    BY <1>0
  <2>2. PICK lo \in Nat, hi \in Nat :
          /\ lo = Min({n, size[p]}) /\ lo \in {m, s} /\ lo <= m /\ lo <= s
          /\ hi = Max({n, size[p]}) /\ hi \in {m, s} /\ hi >= m /\ hi >= s
    BY <2>1, MinOfTwo, MaxOfTwo
  <2> DEFINE new == [size EXCEPT ![p] = n]
             inv == [kind |-> "path", path |-> p]
             keys == Touched(p, lo, hi)
  <2>3. Change(keys, new) /\ Announce(inv, FALSE, keys, {})
    BY <1>4, <2>2 DEF Truncate
  <2>4. \A k \in keys : Drops(inv, k)
    BY DEF Touched, Drops
  <2>5. ASSUME NEW k \in Keys \ keys
        PROVE  BlockLen(new[k[1]], k[2]) = BlockLen(size[k[1]], k[2])
    <3>1. k[1] \in Files
      BY KeysAre
    <3>2. CASE k[1] = p
      <4>1. new[k[1]] = m /\ size[k[1]] = s
        BY <1>0, <2>1, <3>2
      <4>2. k \notin Touched(k[1], lo, hi)
        BY <3>2
      <4>3. /\ lo < hi => lo <= m /\ lo <= s /\ (m = s \/ (m <= hi /\ s <= hi))
            /\ lo >= hi => m = s
        BY <2>2
      <4>4. BlockLen(m, k[2]) = BlockLen(s, k[2])
        BY <4>2, <4>3, UntouchedLen
      <4> QED
        BY <4>1, <4>4
    <3>3. CASE k[1] # p
      BY <1>0, <3>1, <3>3
    <3> QED
      BY <3>2, <3>3
  <2>6. new \in [Files -> 0..MaxSize] /\ keys \in SUBSET Keys
    BY <1>0, <1>1
  <2> HIDE DEF new, inv, keys
  <2>7. Changing(inv, FALSE, keys, {}, new)
    BY <2>3, <2>4, <2>5, <2>6 DEF Changing
  <2> QED
    BY <2>7
<1>5. ASSUME NEW p \in Files, NEW n \in Sizes, NEW feed,
             ReplaceFile(p, n, feed) \/ LostEvents(p, n) \/ LateEffect(p, n)
      PROVE  \E inv, by, keys, lost, newSize : Changing(inv, by, keys, lost, newSize)
  <2> DEFINE new == [size EXCEPT ![p] = n]
             tree == [kind |-> "tree", path |-> p]
             clear == [kind |-> "clear"]
             keys == {key \in Keys : key[1] = p}
  <2>1. /\ Change(keys, new)
        /\ \/ Announce(tree, feed, keys, {})
           \/ Announce(clear, FALSE, keys, {})
           \/ UNCHANGED pending /\ missed' = missed \cup keys
    BY <1>5 DEF ReplaceFile, LostEvents, LateEffect
  <2>2. \A k \in keys : Drops(tree, k) /\ Drops(clear, k)
    BY DEF Drops, Below
  <2>3. \A k \in Keys \ keys : BlockLen(new[k[1]], k[2]) = BlockLen(size[k[1]], k[2])
    BY <1>0, KeysAre
  <2>4. new \in [Files -> 0..MaxSize] /\ keys \in SUBSET Keys
    BY <1>0
  <2> HIDE DEF new, tree, clear, keys
  <2>5. CASE Announce(tree, feed, keys, {})
    <3>1. Changing(tree, feed, keys, {}, new)
      BY <2>1, <2>2, <2>3, <2>4, <2>5 DEF Changing
    <3> QED
      BY <3>1
  <2>6. CASE Announce(clear, FALSE, keys, {})
    <3>1. Changing(clear, FALSE, keys, {}, new)
      BY <2>1, <2>2, <2>3, <2>4, <2>6 DEF Changing
    <3> QED
      BY <3>1
  <2>7. CASE UNCHANGED pending /\ missed' = missed \cup keys
    <3>1. Changing(clear, FALSE, keys, keys, new)
      BY <2>1, <2>3, <2>4, <2>7 DEF Changing
    <3> QED
      BY <3>1
  <2> QED
    BY <2>1, <2>5, <2>6, <2>7
<1>6. ASSUME NEW n \in Sizes, NEW feed, ReplaceDir(n, feed)
      PROVE  \E inv, by, keys, lost, newSize : Changing(inv, by, keys, lost, newSize)
  <2> DEFINE new == [p \in Files |-> n]
             inv == [kind |-> "tree", path |-> Dir]
  <2>1. Change(Keys, new) /\ Announce(inv, feed, Keys, {}) /\ new \in [Files -> 0..MaxSize]
    BY <1>0, <1>6 DEF ReplaceDir
  <2>2. \A k \in Keys : Drops(inv, k)
    BY KeysAre DEF Drops, Below
  <2> HIDE DEF new, inv
  <2>3. Changing(inv, feed, Keys, {}, new)
    BY <2>1, <2>2 DEF Changing
  <2> QED
    BY <2>3
<1> QED
  BY <1>2, <1>3, <1>4, <1>5, <1>6 DEF ServerChanges

\* A change keeps the cache fresh.
LEMMA ChangeFresh ==
  ASSUME IInv, CInv, NEW inv, NEW feed, NEW keys, NEW lost, NEW newSize,
         Changing(inv, feed, keys, lost, newSize)
  PROVE  CInv'
<1> DEFINE news == [k \in keys |-> ver[k] + 1]
           e == [id |-> changes, feed |-> feed, inv |-> inv, news |-> news]
<1>1. /\ size' = newSize /\ missed' = missed \cup lost
      /\ ver' = [k \in Keys |-> ver[k] + (IF k \in keys THEN 1 ELSE 0)]
      /\ UNCHANGED <<blocks, lru, bytes, generations, inflight, task, floor>>
      /\ \A k \in Keys \ keys : BlockLen(newSize[k[1]], k[2]) = BlockLen(size[k[1]], k[2])
  BY DEF Changing, Change, Announce, Bumped, store
<1>2. \/ pending' = pending \cup {e} /\ \A k \in keys \ lost : Drops(inv, k)
      \/ pending' = pending /\ keys = lost
  BY DEF Changing, Announce
<1>3. e.inv = inv /\ DOMAIN e.news = keys
  OBVIOUS
<1> HIDE DEF e
<1>g. PICK g : /\ g.inv = inv /\ DOMAIN g.news = keys
               /\ \/ pending' = pending \cup {g} /\ \A k \in keys \ lost : Drops(g.inv, k)
                  \/ pending' = pending /\ keys = lost
  BY <1>2, <1>3
<1>4. ASSUME NEW k \in Keys, NEW c, UpToDate(k, c) PROVE UpToDate(k, c)'
  <2>1. c.ver >= floor'[k]
    BY <1>1, <1>4 DEF UpToDate
  <2>2. CASE k \in missed'
    BY <2>1, <2>2 DEF UpToDate
  <2>3. CASE k \notin missed'
    <3>1. k \notin missed /\ k \notin lost
      BY <1>1, <2>3
    <3>2. (c = Content(k) \/ NewsOf(k)) /\ NotNews(k, c)
      BY <1>4, <3>1 DEF UpToDate
    <3>3. NotNews(k, c)'
      <4>1. \A f \in pending' : k \in DOMAIN f.news /\ ~Drops(f.inv, k) => c.ver >= f.news[k]
        BY <1>g, <3>1, <3>2 DEF NotNews
      <4> QED
        BY <4>1 DEF NotNews, Drops
    <3>4. NewsOf(k) => NewsOf(k)'
      <4>1. NewsOf(k) => \E f \in pending' : k \in DOMAIN f.news /\ Drops(f.inv, k)
        BY <1>g DEF NewsOf
      <4> QED
        BY <4>1 DEF NewsOf, Drops
    <3>5. CASE k \in keys
      <4>1. \E f \in pending' : k \in DOMAIN f.news /\ Drops(f.inv, k)
        BY <1>g, <3>1, <3>5
      <4>2. NewsOf(k)'
        BY <4>1 DEF NewsOf, Drops
      <4> QED
        BY <2>1, <3>3, <4>2 DEF UpToDate
    <3>6. CASE k \notin keys
      <4>1. ver'[k] = ver[k]
        BY <1>1, <3>6 DEF IInv, ServerOK
      <4>2. Content(k)' = Content(k)
        BY <1>1, <3>6, <4>1 DEF Content
      <4> QED
        BY <2>1, <3>2, <3>3, <3>4, <4>2 DEF UpToDate
    <3> QED
      BY <3>5, <3>6
  <2> QED
    BY <2>2, <2>3
<1>5. CacheFresh'
  <2>1. \A k \in DOMAIN blocks : UpToDate(k, blocks[k])'
    <3>1. \A k \in DOMAIN blocks : k \in Keys /\ UpToDate(k, blocks[k])
      BY DEF CInv, CacheFresh, IInv, StoreOK
    <3> TAKE k \in DOMAIN blocks
    <3>2. PICK c : c = blocks[k]
      OBVIOUS
    <3>3. UpToDate(k, c)'
      BY <1>4, <3>1, <3>2
    <3> QED
      BY <1>1, <3>2, <3>3
  <2> QED
    BY <1>1, <2>1 DEF CacheFresh
<1>6. FlightsFresh'
  <2> SUFFICES ASSUME NEW w \in Workers PROVE TaskFresh(task[w])'
    BY DEF FlightsFresh
  <2>1. PICK t : t = task[w] /\ t = task'[w]
    BY <1>1
  <2>2. TaskFresh(t)
    BY <2>1 DEF CInv, FlightsFresh
  <2>3. TaskFresh(t)'
    <3>1. ASSUME t \in Fetching, t.pc = "insert", t.gen = generations[t.path],
                 NEW i \in 1..Len(t.data)
          PROVE  UpToDate(KeyAt(t, i), t.data[i])'
      <4>1. /\ t.data \in Seq(Contents) /\ t.n \in Nat /\ Len(t.data) <= t.n
            /\ \A j \in 1..t.n : KeyAt(t, j) \in Keys
        BY <2>1, <3>1, FlightHas DEF FlightOK, Claiming
      <4>2. Len(t.data) \in Nat
        BY <4>1, LenProperties
      <4>3. KeyAt(t, i) \in Keys
        BY <4>1, <4>2
      <4>4. UpToDate(KeyAt(t, i), t.data[i])
        BY <2>2, <3>1 DEF TaskFresh
      <4> QED
        BY <1>4, <4>3, <4>4
    <3>2. Fetching' = Fetching
      BY DEF Fetching, Contents
    <3> QED
      BY <1>1, <2>2, <3>1, <3>2 DEF TaskFresh
  <2> QED
    BY <2>1, <2>3
<1>7. FloorsOK'
  BY <1>1 DEF CInv, FloorsOK, FloorOK
<1> QED
  BY <1>5, <1>6, <1>7 DEF CInv

\* A block that an invalidation drops, or that is not missed any more, leaves the
\* cache with the delivery, and its path gets a new generation, or else what is on
\* its way into the cache is missed.
LEMMA DeliveryDrops ==
  ASSUME IInv, NEW e \in pending, Deliver(e), NEW k \in Keys,
         Drops(e.inv, k) \/ k \in missed \ missed'
  PROVE  /\ k \notin DOMAIN blocks'
         /\ generations'[k[1]] = generations[k[1]] + 1 \/ (k \in Loaded({k[1]}) => k \in missed')
<1>1. k[1] \in Files /\ k[1] \in Files \cup {Dir} /\ k[2] \in Indexes
  BY KeysAre
<1>2. ASSUME NEW paths, NEW keep, InvalidateWhere(paths, keep), k[1] \in paths, k[2] \notin keep
      PROVE  k \notin DOMAIN blocks' /\ generations'[k[1]] = generations[k[1]] + 1
  <2>1. /\ DOMAIN blocks' = DOMAIN blocks \ Doomed(paths, keep)
        /\ generations' = [p \in Files \cup {Dir} |-> generations[p] + (IF p \in paths THEN 1 ELSE 0)]
    BY <1>2, InvalidateKeeps DEF IInv
  <2>2. k \in DOMAIN blocks => k \in Doomed(paths, keep)
    BY <1>2 DEF Doomed
  <2> QED
    BY <1>1, <1>2, <2>1, <2>2
<1>3. ASSUME NEW paths, NEW keep, InvalidateWhere(paths, keep), k \in missed \ missed'
      PROVE  k[1] \in paths /\ k[2] \notin keep
  BY <1>3 DEF InvalidateWhere
<1>4. CASE e.inv.kind = "range"
  <2> DEFINE first == e.inv.offset \div BLOCK_SIZE
             last == (e.inv.offset + Max({e.inv.len, 1}) - 1) \div BLOCK_SIZE
  <2>1. InvalidateWhere({e.inv.path}, Indexes \ (first..last))
    BY <1>4 DEF Deliver, InvalidateRange
  <2>2. Drops(e.inv, k) => k[1] = e.inv.path /\ k[2] \in first..last
    BY <1>4 DEF Drops
  <2> HIDE DEF first, last
  <2>3. k[1] \in {e.inv.path} /\ k[2] \notin Indexes \ (first..last)
    BY <1>3, <2>1, <2>2
  <2> QED
    BY <1>2, <2>1, <2>3
<1>5. CASE e.inv.kind = "path"
  <2>1. InvalidateWhere({e.inv.path}, {}) /\ (Drops(e.inv, k) => k[1] = e.inv.path)
    BY <1>5 DEF Deliver, InvalidatePath, Drops
  <2>2. k[1] \in {e.inv.path} /\ k[2] \notin {}
    BY <1>3, <2>1
  <2> QED
    BY <1>2, <2>1, <2>2
<1>6. CASE e.inv.kind = "where"
  <2>1. InvalidateWhere(e.inv.paths, {}) /\ (Drops(e.inv, k) => k[1] \in e.inv.paths)
    BY <1>6 DEF Deliver, Drops
  <2>2. k[1] \in e.inv.paths /\ k[2] \notin {}
    BY <1>3, <2>1
  <2> QED
    BY <1>2, <2>1, <2>2
<1>7. CASE e.inv.kind = "clear"
  <2> DEFINE paths == {key[1] : key \in DOMAIN blocks}
  <2>1. Clear
    BY <1>7 DEF Deliver
  <2>2. /\ DOMAIN blocks' = {} /\ missed' = Loaded(Files \ paths)
        /\ generations' = [p \in DOMAIN generations |-> generations[p] + (IF p \in paths THEN 1 ELSE 0)]
    BY <2>1 DEF Clear
  <2>3. DOMAIN generations = Files \cup {Dir}
    BY DEF IInv, StoreOK
  <2> HIDE DEF paths
  <2>4. CASE k[1] \in paths
    BY <1>1, <2>2, <2>3, <2>4
  <2>5. CASE k[1] \notin paths
    <3>1. k \in Loaded({k[1]}) => k \in Loaded(Files \ paths)
      BY <1>1, <2>5 DEF Loaded
    <3> QED
      BY <2>2, <3>1
  <2> QED
    BY <2>4, <2>5
<1>8. e.inv.kind \in {"range", "path", "where", "clear"}
  BY DEF Deliver
<1> QED
  BY <1>4, <1>5, <1>6, <1>7, <1>8

\* Data on its way into the cache is of these blocks.
LEMMA LoadedHas ==
  ASSUME IInv, NEW w \in Workers, task[w].pc = "insert", NEW i \in 1..Len(task[w].data)
  PROVE  /\ KeyAt(task[w], i) \in Keys /\ KeyAt(task[w], i)[1] = task[w].path
         /\ \A paths : task[w].path \in paths => KeyAt(task[w], i) \in Loaded(paths)
<1>1. PICK t : t = task[w]
  OBVIOUS
<1>2. /\ t.path \in Files /\ t.first \in Nat /\ t.n \in Nat /\ t.data \in Seq(Contents)
      /\ Len(t.data) <= t.n /\ \A j \in 1..t.n : KeyAt(t, j) \in Keys
  BY <1>1, FlightHas DEF FlightOK, Claiming
<1>3. Len(t.data) \in Nat
  BY <1>2, LenProperties
<1>4. i \in 1..t.n /\ i \in 1..Len(t.data)
  BY <1>1, <1>2, <1>3
<1>5. KeyAt(t, i) \in Keys /\ KeyAt(t, i)[1] = t.path /\ KeyAt(t, i)[2] = t.first + i - 1
  BY <1>2, <1>4 DEF KeyAt
<1>6. t.first + i - 1 \in t.first..(t.first + t.n - 1)
  BY <1>2, <1>4
<1> QED
  BY <1>1, <1>5, <1>6 DEF Loaded

\* A delivery keeps what it leaves in the cache fresh.
LEMMA DeliverFresh ==
  ASSUME IInv, CInv, NEW e \in pending, Deliver(e)
  PROVE  CInv'
<1>1. pending' = pending \ {e} /\ UNCHANGED <<size, ver, changes, inflight, task>>
  BY DEF Deliver, server
<1>2. /\ DOMAIN blocks' \subseteq DOMAIN blocks
      /\ \A k \in DOMAIN blocks' : blocks'[k] = blocks[k]
      /\ \A p \in Files \cup {Dir} : generations'[p] \in {generations[p], generations[p] + 1}
  BY DeliverStore DEF IInv
<1>3. /\ \A k \in Keys : floor'[k] \in Nat /\ floor[k] \in Nat /\ floor'[k] >= floor[k]
      /\ \A k \in Keys : floor'[k] = floor[k] \/ (k \in DOMAIN e.news \ missed' /\ floor'[k] = e.news[k])
  BY DeliverKeeps DEF IInv, ServerOK
<1>6. ASSUME NEW k \in Keys, k \in missed' \/ (~Drops(e.inv, k) /\ k \notin missed \ missed'),
             NEW c, UpToDate(k, c)
      PROVE  UpToDate(k, c)'
  <2>1. CASE k \in missed'
    BY <1>3, <1>6, <2>1 DEF UpToDate
  <2>2. CASE k \notin missed'
    <3>1. k \notin missed /\ ~Drops(e.inv, k)
      BY <1>6, <2>2
    <3>2. c.ver >= floor[k] /\ (c = Content(k) \/ NewsOf(k)) /\ NotNews(k, c)
      BY <1>6, <3>1 DEF UpToDate
    <3>3. c.ver >= floor'[k]
      BY <1>3, <3>1, <3>2 DEF NotNews
    <3>4. NewsOf(k) => NewsOf(k)'
      <4>1. NewsOf(k) => \E f \in pending' : k \in DOMAIN f.news /\ Drops(f.inv, k)
        BY <1>1, <3>1 DEF NewsOf
      <4> QED
        BY <4>1 DEF NewsOf, Drops
    <3>5. NotNews(k, c)'
      BY <1>1, <3>2 DEF NotNews, Drops
    <3>6. Content(k)' = Content(k)
      BY <1>1 DEF Content
    <3> QED
      BY <3>2, <3>3, <3>4, <3>5, <3>6 DEF UpToDate
  <2> QED
    BY <2>1, <2>2
<1>7. CacheFresh'
  <2> SUFFICES ASSUME NEW k \in DOMAIN blocks' PROVE UpToDate(k, blocks[k])'
    BY DEF CacheFresh
  <2>1. PICK c : c = blocks[k] /\ c = blocks'[k]
    BY <1>2
  <2>2. k \in Keys /\ UpToDate(k, c)
    BY <1>2, <2>1 DEF CInv, CacheFresh, IInv, StoreOK
  <2>3. ~Drops(e.inv, k) /\ k \notin missed \ missed'
    BY <2>2, DeliveryDrops
  <2>4. UpToDate(k, c)'
    BY <1>6, <2>2, <2>3
  <2> QED
    BY <2>1, <2>4
<1>8. FlightsFresh'
  <2> SUFFICES ASSUME NEW w \in Workers PROVE TaskFresh(task[w])'
    BY DEF FlightsFresh
  <2>1. PICK t : t = task[w] /\ t = task'[w]
    BY <1>1
  <2>2. TaskFresh(t)
    BY <2>1 DEF CInv, FlightsFresh
  <2>3. ASSUME t \in Fetching, t.pc # "lead"
        PROVE  /\ t.gen <= generations'[t.path]
               /\ t.pc = "insert" /\ t.gen = generations'[t.path] =>
                    \A i \in 1..Len(t.data) : UpToDate(KeyAt(t, i), t.data[i])'
    <3>1. t.path \in Files /\ t.gen \in Nat
      BY <2>3 DEF Fetching
    <3>2. generations[t.path] \in Nat /\ t.gen <= generations[t.path] /\ generations'[t.path] \in {generations[t.path], generations[t.path] + 1}
      BY <1>2, <2>2, <2>3, <3>1 DEF IInv, StoreOK, TaskFresh
    <3>3. ASSUME t.pc = "insert", t.gen = generations'[t.path], NEW i \in 1..Len(t.data)
          PROVE  UpToDate(KeyAt(t, i), t.data[i])'
      <4>1. t.gen = generations[t.path] /\ generations'[t.path] = generations[t.path]
        BY <3>1, <3>2, <3>3
      <4>2. UpToDate(KeyAt(t, i), t.data[i])
        BY <2>2, <2>3, <3>3, <4>1 DEF TaskFresh
      <4>3. KeyAt(t, i) \in Keys /\ KeyAt(t, i)[1] = t.path /\ KeyAt(t, i) \in Loaded({t.path})
        BY <2>1, <3>3, LoadedHas
      <4>4. PICK k, c : k \in Keys /\ k = KeyAt(t, i) /\ c = t.data[i] /\ k[1] = t.path /\ UpToDate(k, c) /\ k \in Loaded({k[1]})
        BY <4>2, <4>3
      <4>5. k \in missed' \/ (~Drops(e.inv, k) /\ k \notin missed \ missed')
        <5>1. generations'[k[1]] # generations[k[1]] + 1
          BY <3>2, <4>1, <4>4
        <5> QED
          BY <4>4, <5>1, DeliveryDrops
      <4>6. UpToDate(k, c)'
        BY <1>6, <4>4, <4>5
      <4> QED
        BY <4>4, <4>6
    <3> QED
      BY <3>1, <3>2, <3>3
  <2>4. TaskFresh(t)'
    <3>1. Fetching' = Fetching
      BY DEF Fetching, Contents
    <3> QED
      BY <2>3, <3>1 DEF TaskFresh
  <2> QED
    BY <2>1, <2>4
<1>9. FloorsOK'
  <2> SUFFICES ASSUME NEW w \in Workers PROVE FloorOK(task[w])'
    BY DEF FloorsOK
  <2>1. PICK t : t = task[w] /\ t = task'[w] /\ t \in Task /\ FloorOK(t)
    BY <1>1 DEF CInv, FloorsOK, IInv, TasksOK
  <2>2. ASSUME t \in Asking \cup Following PROVE t.floor <= floor'[t.key]
    <3>1. t.key \in Keys /\ t.floor \in Nat
      BY <2>2 DEF Asking, Following
    <3>2. t.floor <= floor[t.key]
      BY <2>1, <2>2 DEF FloorOK
    <3> QED
      BY <1>3, <3>1, <3>2
  <2>3. ASSUME t \in Fetching PROVE t.floor <= floor'[<<t.path, t.first>>]
    <3>1. t.pc \in Claiming \cup {"finish"}
      BY <2>3 DEF Fetching
    <3>2. t.floor \in Nat /\ t.first \in Nat /\ t.n \in Nat /\ FlightOK(t) /\ \A i \in 1..t.n : KeyAt(t, i) \in Keys
      BY <2>1, <3>1, FlightHas
    <3>3. 1 \in 1..t.n /\ KeyAt(t, 1) = <<t.path, t.first>>
      BY <3>2 DEF FlightOK, KeyAt
    <3>4. <<t.path, t.first>> \in Keys /\ t.floor <= floor[<<t.path, t.first>>]
      BY <2>1, <2>3, <3>2, <3>3 DEF FloorOK
    <3> QED
      BY <1>3, <3>2, <3>4
  <2>4. Fetching' = Fetching /\ Asking' = Asking /\ Following' = Following /\ Returning' = Returning
    BY DEF Fetching, Asking, Following, Returning, Contents
  <2>5. FloorOK(t)'
    BY <2>1, <2>2, <2>3, <2>4 DEF FloorOK
  <2> QED
    BY <2>1, <2>5
<1> QED
  BY <1>7, <1>8, <1>9 DEF CInv

\* Block k is as well off with invalidation g as with e, or is lost.
Spared(k, e, g, lost, notices) ==
  k \in lost \/ k \notin DOMAIN e.news \/ (g \in notices /\ (Drops(g.inv, k) <=> Drops(e.inv, k)))

\* An invalidation is exchanged for another one, or dropped: what is in the cache,
\* or on its way, and would not be dropped any more, is missed.
LEMMA SwapFresh ==
  ASSUME IInv, CInv, NEW e \in pending, NEW g, NEW lost \in SUBSET Keys,
         pending' = (pending \ {e}) \cup {g} \/ pending' = pending \ {e}, g.news = e.news,
         missed' = missed \cup lost,
         UNCHANGED <<size, ver, changes, blocks, generations, inflight, task, floor>>,
         \A k \in DOMAIN blocks :
           Spared(k, e, g, lost, pending'),
         \A w \in Workers : task[w].pc = "insert" => \A i \in 1..Len(task[w].data) :
           \E k \in Keys : k = KeyAt(task[w], i) /\
             Spared(k, e, g, lost, pending')
  PROVE  CInv'
<1>1. ASSUME NEW k \in Keys, NEW c, UpToDate(k, c),
             Spared(k, e, g, lost, pending')
      PROVE  UpToDate(k, c)'
  <2>1. c.ver >= floor'[k]
    BY <1>1 DEF UpToDate
  <2>2. CASE k \in missed'
    BY <2>1, <2>2 DEF UpToDate
  <2>3. CASE k \notin missed'
    <3>1. k \notin missed /\ k \notin lost /\ (c = Content(k) \/ NewsOf(k)) /\ NotNews(k, c)
      BY <1>1, <2>3 DEF UpToDate
    <3>2. \A f \in pending' : f \in pending \/ f = g
      OBVIOUS
    <3>3. \A f \in pending' : k \in DOMAIN f.news /\ ~Drops(f.inv, k) => c.ver >= f.news[k]
      <4> SUFFICES ASSUME NEW f \in pending', k \in DOMAIN f.news, ~Drops(f.inv, k) PROVE c.ver >= f.news[k]
        OBVIOUS
      <4>1. CASE f \in pending
        BY <3>1, <4>1 DEF NotNews
      <4>2. CASE f = g
        <5>1. k \in DOMAIN e.news /\ ~Drops(e.inv, k) /\ f.news = e.news
          BY <1>1, <3>1, <4>2 DEF Spared
        <5> QED
          BY <3>1, <5>1 DEF NotNews
      <4> QED
        BY <3>2, <4>1, <4>2
    <3>4. NewsOf(k) => \E f \in pending' : k \in DOMAIN f.news /\ Drops(f.inv, k)
      <4> SUFFICES ASSUME NEW f \in pending, k \in DOMAIN f.news, Drops(f.inv, k)
                   PROVE  \E h \in pending' : k \in DOMAIN h.news /\ Drops(h.inv, k)
        BY DEF NewsOf
      <4>1. CASE f = e
        BY <1>1, <3>1, <4>1 DEF Spared
      <4>2. CASE f # e
        BY <4>2
      <4> QED
        BY <4>1, <4>2
    <3>5. NotNews(k, c)' /\ (NewsOf(k) => NewsOf(k)')
      BY <3>3, <3>4 DEF NotNews, NewsOf, Drops
    <3>6. Content(k)' = Content(k)
      BY DEF Content
    <3> QED
      BY <2>1, <3>1, <3>5, <3>6 DEF UpToDate
  <2> QED
    BY <2>2, <2>3
<1>2. CacheFresh'
  <2> SUFFICES ASSUME NEW k \in DOMAIN blocks PROVE UpToDate(k, blocks[k])'
    BY DEF CacheFresh
  <2>1. PICK c : c = blocks[k] /\ c = blocks'[k]
    OBVIOUS
  <2>2. k \in Keys /\ UpToDate(k, c)
    BY <2>1 DEF CInv, CacheFresh, IInv, StoreOK
  <2>3. UpToDate(k, c)'
    BY <1>1, <2>2
  <2> QED
    BY <2>1, <2>3
<1>3. FlightsFresh'
  <2> SUFFICES ASSUME NEW w \in Workers PROVE TaskFresh(task[w])'
    BY DEF FlightsFresh
  <2>1. PICK t : t = task[w] /\ t = task'[w]
    OBVIOUS
  <2>2. TaskFresh(t)
    BY <2>1 DEF CInv, FlightsFresh
  <2>3. ASSUME t \in Fetching, t.pc = "insert", t.gen = generations[t.path], NEW i \in 1..Len(t.data)
        PROVE  UpToDate(KeyAt(t, i), t.data[i])'
    <3>1. PICK k, c :
            /\ k \in Keys /\ k = KeyAt(t, i) /\ c = t.data[i]
            /\ Spared(k, e, g, lost, pending')
      BY <2>1, <2>3
    <3>2. UpToDate(k, c)
      BY <2>2, <2>3, <3>1 DEF TaskFresh
    <3>3. UpToDate(k, c)'
      BY <1>1, <3>1, <3>2
    <3> QED
      BY <3>1, <3>3
  <2>4. Fetching' = Fetching
    BY DEF Fetching, Contents
  <2>5. TaskFresh(t)'
    BY <2>2, <2>3, <2>4 DEF TaskFresh
  <2> QED
    BY <2>1, <2>5
<1>4. FloorsOK'
  BY DEF CInv, FloorsOK, FloorOK
<1> QED
  BY <1>2, <1>3, <1>4 DEF CInv

\* An event that is dropped makes its blocks missed; one that is taken up stays.
LEMMA ApplyFresh ==
  ASSUME IInv, CInv, NEW e \in pending, NEW writing, ApplyChange(e, writing)
  PROVE  CInv'
<1>1. PICK g, lost :
        /\ lost \in SUBSET Keys
        /\ g.news = e.news /\ g.inv = e.inv /\ missed' = missed \cup lost
        /\ \/ pending' = (pending \ {e}) \cup {g} /\ lost = {}
           \/ pending' = pending \ {e} /\ lost = DOMAIN e.news
        /\ UNCHANGED <<size, ver, changes, blocks, generations, inflight, task, floor>>
  BY ApplyIs
<1>2. \A k : Spared(k, e, g, lost, pending')
  BY <1>1 DEF Spared
<1>3. \A w \in Workers : task[w].pc = "insert" => \A i \in 1..Len(task[w].data) : KeyAt(task[w], i) \in Keys
  BY LoadedHas
<1>4. \A w \in Workers : task[w].pc = "insert" => \A i \in 1..Len(task[w].data) :
        \E k \in Keys : k = KeyAt(task[w], i) /\
          Spared(k, e, g, lost, pending')
  BY <1>2, <1>3
<1>5. pending' = (pending \ {e}) \cup {g} \/ pending' = pending \ {e}
  BY <1>1
<1> QED
  BY <1>1, <1>2, <1>4, <1>5, SwapFresh

\* invalidate_tree leaves paths without a cached block out: what is on its way into
\* the cache for them is missed.
LEMMA CollectFresh ==
  ASSUME IInv, CInv, NEW e \in pending, CollectTree(e)
  PROVE  CInv'
<1>1. PICK g, lost :
        /\ lost \in SUBSET Keys
        /\ g.news = e.news /\ missed' = missed \cup lost
        /\ g.inv.kind = "where" /\ g.inv.paths = TreePaths(e.inv.path) /\ e.inv.kind = "tree"
        /\ lost = Loaded(Below(e.inv.path) \ g.inv.paths)
        /\ pending' = (pending \ {e}) \cup {g}
        /\ UNCHANGED <<size, ver, changes, blocks, generations, inflight, task, floor>>
  BY CollectIs
<1>2. \A k : (Drops(e.inv, k) <=> k[1] \in Below(e.inv.path)) /\ (Drops(g.inv, k) <=> k[1] \in g.inv.paths)
  BY <1>1 DEF Drops
<1>3. /\ g.inv.paths \subseteq Below(e.inv.path)
      /\ \A k \in DOMAIN blocks : k[1] \in Below(e.inv.path) => k[1] \in g.inv.paths
  BY <1>1 DEF TreePaths, Below
<1>4. \A k \in DOMAIN blocks : g \in pending' /\ (Drops(g.inv, k) <=> Drops(e.inv, k))
  BY <1>1, <1>2, <1>3
<1>5. ASSUME NEW w \in Workers, task[w].pc = "insert", NEW i \in 1..Len(task[w].data)
      PROVE  \E k \in Keys : k = KeyAt(task[w], i) /\
               Spared(k, e, g, lost, pending')
  <2>1. PICK k \in Keys : /\ k = KeyAt(task[w], i) /\ k[1] = task[w].path
                          /\ \A paths : k[1] \in paths => k \in Loaded(paths)
    BY <1>5, LoadedHas
  <2>2. k[1] \in Below(e.inv.path) \ g.inv.paths => k \in lost
    BY <1>1, <2>1
  <2> QED
    BY <1>1, <1>2, <1>3, <2>1, <2>2 DEF Spared
<1>6. \A w \in Workers : task[w].pc = "insert" => \A i \in 1..Len(task[w].data) :
        \E k \in Keys : k = KeyAt(task[w], i) /\
          Spared(k, e, g, lost, pending')
  BY <1>5
<1>7. \A k \in DOMAIN blocks :
        Spared(k, e, g, lost, pending')
  BY <1>4 DEF Spared
<1> QED
  BY <1>1, <1>6, <1>7, SwapFresh

-----------------------------------------------------------------------------
(* The theorems. *)

\* The cache starts empty but for small files that are as they are on the server.
LEMMA InitHolds == Init => IInv /\ CInv
<1> SUFFICES ASSUME Init PROVE IInv /\ CInv
  OBVIOUS
<1>1. /\ size \in [Files -> 0..MaxSize] /\ ver = [k \in Keys |-> 0] /\ changes = 0 /\ pending = {}
      /\ generations = [p \in Files \cup {Dir} |-> 0] /\ inflight = [k \in {} |-> Dir]
      /\ task = [w \in Workers |-> Idle] /\ floor = [k \in Keys |-> 0] /\ missed = {} /\ MaxChanges \in Nat /\ MaxSize \in Nat
      /\ BLOCK_SIZE \in Nat /\ BLOCK_SIZE >= 1
  <2>1. BLOCK_SIZE \in Nat /\ BLOCK_SIZE >= 1 /\ MaxChanges \in Nat /\ MaxSize \in Nat /\ Sizes \subseteq 0..MaxSize
    BY CacheAssumption
  <2>2. size \in [Files -> 0..MaxSize]
    <3>1. size \in [Files -> Sizes]
      BY DEF Init
    <3> QED
      BY <2>1, <3>1
  <2>3. /\ ver = [k \in Keys |-> 0] /\ changes = 0 /\ pending = {}
        /\ generations = [p \in Files \cup {Dir} |-> 0] /\ inflight = [k \in {} |-> Dir]
        /\ task = [w \in Workers |-> Idle] /\ floor = [k \in Keys |-> 0] /\ missed = {}
    BY Zenon DEF Init
  <2> QED
    BY <2>1, <2>2, <2>3, Zenon
<1>2. PICK small \in SUBSET {p \in Files : size[p] \in 1..BLOCK_SIZE} :
        LET keys == {<<p, 0>> : p \in small}
        IN /\ blocks = [k \in keys |-> [ver |-> 0, len |-> size[k[1]]]]
           /\ lru \in {order \in SUBSET (keys \X keys) : Linear(order, keys)}
           /\ bytes = TotalLen(blocks, DOMAIN blocks) /\ bytes <= capacity
  BY DEF Init
<1> DEFINE keys == {<<p, 0>> : p \in small}
<1>3. /\ blocks = [k \in keys |-> [ver |-> 0, len |-> size[k[1]]]] /\ Linear(lru, keys)
      /\ bytes = TotalLen(blocks, DOMAIN blocks) /\ bytes <= capacity
  BY <1>2
<1>4. \A k \in keys : k[1] \in Files /\ k[2] = 0 /\ k = <<k[1], k[2]>> /\ size[k[1]] \in 1..BLOCK_SIZE
  BY <1>2
<1> HIDE DEF keys
<1>5. ASSUME NEW k \in keys PROVE k \in Keys /\ blocks[k] = [ver |-> 0, len |-> size[k[1]]] /\ size[k[1]] \in 1..BLOCK_SIZE
  <2>1. 0 \in Indexes
    <3>1. size[k[1]] \in 0..MaxSize /\ size[k[1]] >= 1
      BY <1>1, <1>4
    <3>2. MaxSize - 1 \in Nat
      BY <1>1, <3>1
    <3>3. (MaxSize - 1) \div BLOCK_SIZE \in Nat
      BY <3>2, DivIs
    <3> QED
      BY <3>3 DEF Indexes
  <2> QED
    BY <1>3, <1>4, <2>1, KeysAre
<1>6. DOMAIN blocks = keys
  BY <1>3
<1>7. ServerOK
  BY <1>1 DEF ServerOK
<1>8. StoreOK
  BY <1>1, <1>5, <1>6 DEF StoreOK, Contents
<1>9. Accounting
  BY <1>3, <1>6 DEF Accounting
<1>10. Idle.pc = "idle" /\ Idle \in Task /\ Idle \notin Fetching \cup Asking \cup Following \cup Returning
  BY DEF Idle, Task, Fetching, Asking, Following, Returning, Claiming
<1>11. TasksOK /\ SingleFlight
  BY <1>1, <1>10 DEF TasksOK, SingleFlight
<1>12. PendingOK
  BY <1>1, FS_EmptySet DEF PendingOK
<1>13. CacheFresh
  <2> SUFFICES ASSUME NEW k \in keys PROVE UpToDate(k, blocks[k])
    BY <1>6 DEF CacheFresh
  <2>1. PICK n \in Nat : n = size[k[1]] /\ n \in 1..BLOCK_SIZE
    <3>1. size[k[1]] \in 1..BLOCK_SIZE
      BY <1>5
    <3> QED
      BY <1>1, <3>1
  <2>2. BlockLen(n, 0) = n
    BY <1>1, <2>1 DEF BlockLen
  <2>3. k[2] = 0 /\ k \in Keys /\ blocks[k] = [ver |-> 0, len |-> n]
    BY <1>4, <1>5, <2>1
  <2>4. Content(k) = [ver |-> 0, len |-> n]
    BY <1>1, <2>1, <2>2, <2>3 DEF Content
  <2>5. blocks[k].ver >= floor[k]
    BY <1>1, <2>3
  <2>6. NotNews(k, blocks[k])
    BY <1>1 DEF NotNews
  <2> QED
    BY <2>3, <2>4, <2>5, <2>6 DEF UpToDate
<1>14. FlightsFresh /\ FloorsOK
  BY <1>1, <1>10 DEF FlightsFresh, TaskFresh, FloorsOK, FloorOK
<1> QED
  BY <1>7, <1>8, <1>9, <1>11, <1>12, <1>13, <1>14 DEF IInv, CInv

\* Every step keeps the book-keeping and the cache fresh.
LEMMA NextKeeps ==
  ASSUME IInv, [Next]_vars
  PROVE  IInv' /\ (CInv => CInv')
<1>1. CASE ServerChanges
  <2>1. PICK inv, feed, keys, lost, newSize : Changing(inv, feed, keys, lost, newSize)
    BY <1>1, ServerChangesAre DEF IInv
  <2> QED
    BY <2>1, ChangeKeeps, ChangeFresh
<1>2. ASSUME NEW e \in pending, NEW writing \in SUBSET Files,
             ApplyChange(e, writing) \/ Deliver(e) \/ CollectTree(e)
      PROVE  IInv' /\ (CInv => CInv')
  BY <1>2, DeliverKeeps, DeliverFresh, TakeKeeps, ApplyFresh, CollectFresh
<1>d. ASSUME NEW e \in pending, Deliver(e) \/ CollectTree(e) PROVE IInv' /\ (CInv => CInv')
  <2>1. {} \in SUBSET Files
    OBVIOUS
  <2> QED
    BY <1>2, <1>d, <2>1
<1>3. ASSUME NEW w \in Workers, Starts(w) \/ Goes(w) PROVE IInv' /\ (CInv => CInv')
  BY <1>3, WorkerStep
<1>4. CASE UNCHANGED vars
  <2>1. UNCHANGED <<size, ver, changes, pending, blocks, lru, bytes, generations, inflight, task, floor, missed>>
    BY <1>4 DEF vars, server, others, store
  <2>2. ServerOK' /\ StoreOK' /\ PendingOK'
    BY <2>1, RestKeeps DEF server, others
  <2>3. Accounting'
    BY <2>1 DEF IInv, Accounting, TotalLen
  <2>4. TasksOK' /\ SingleFlight'
    BY <2>1 DEF IInv, TasksOK, SingleFlight
  <2>5. ASSUME CInv PROVE CInv'
    <3>1. CacheFresh'
      BY <2>1, <2>5 DEF CInv, CacheFresh, UpToDate, NewsOf, NotNews, Content
    <3>2. FlightsFresh' /\ FloorsOK'
      BY <2>1, <2>5 DEF CInv, FlightsFresh, TaskFresh, UpToDate, NewsOf, NotNews, Content, KeyAt, FloorsOK, FloorOK
    <3> QED
      BY <3>1, <3>2 DEF CInv
  <2> QED
    BY <2>2, <2>3, <2>4, <2>5 DEF IInv
<1> QED
  BY <1>1, <1>2, <1>3, <1>4, <1>d DEF Next

\* The book-keeping invariant holds throughout.
LEMMA Kept == Spec => []IInv
<1>1. Init => IInv
  BY InitHolds
<1>2. IInv /\ [Next]_vars => IInv'
  BY NextKeeps
<1> QED
  BY <1>1, <1>2, PTL DEF Spec

\* Types: versions, announced versions and generations stay below the number of
\* changes, and bytes never goes below zero.
THEOREM CacheTypes == Spec => []TypeOK
<1>1. IInv => TypeOK
  <2> SUFFICES ASSUME IInv PROVE TypeOK
    OBVIOUS
  <2>1. /\ changes \in Nat /\ changes <= MaxChanges /\ MaxChanges \in Nat
        /\ \A k \in Keys : ver[k] \in Nat /\ floor[k] \in Nat /\ ver[k] <= changes /\ floor[k] <= ver[k]
    BY CacheAssumption DEF IInv, ServerOK
  <2>2. ver \in [Keys -> 0..MaxChanges] /\ floor \in [Keys -> 0..MaxChanges]
    BY <2>1 DEF IInv, ServerOK
  <2>3. ASSUME NEW p \in Files \cup {Dir} PROVE generations[p] \in 0..MaxChanges
    <3>1. generations[p] \in Nat /\ generations[p] + Cardinality(pending) <= changes
      BY DEF IInv, StoreOK, PendingOK
    <3>2. Cardinality(pending) \in Nat
      BY FS_CardinalityType DEF IInv, PendingOK
    <3> QED
      BY <2>1, <3>1, <3>2
  <2>4. generations \in [Files \cup {Dir} -> 0..MaxChanges]
    BY <2>3 DEF IInv, StoreOK
  <2>5. bytes \in Nat
    <3>1. DOMAIN blocks \in SUBSET Keys /\ \A k \in DOMAIN blocks : blocks[k] \in Contents
      BY DEF IInv, StoreOK
    <3>2. TotalLen(blocks, DOMAIN blocks) \in Nat
      BY <3>1, TotalSplit
    <3> QED
      BY <3>2 DEF IInv, Accounting
  <2> QED
    BY <2>2, <2>4, <2>5 DEF IInv, TypeOK, ServerOK, StoreOK, TasksOK
<1> QED
  BY <1>1, Kept, PTL

\* insert, its eviction loop, get and every invalidation keep bytes equal to the
\* summed length of the cached blocks, within the capacity, and lru an order of
\* exactly these blocks.
THEOREM AccountsExact == Spec => []Accounting
<1>1. IInv => Accounting
  BY DEF IInv
<1> QED
  BY <1>1, Kept, PTL

\* fetch and fetch_run never fetch one block at the same time, and no flight is
\* left in the table by a worker that has gone on to something else.
THEOREM OneFetcher == Spec => []SingleFlight
<1>1. IInv => SingleFlight
  BY DEF IInv
<1> QED
  BY <1>1, Kept, PTL

\* The cache stays fresh.
LEMMA KeptFresh == Spec => [](IInv /\ CInv)
<1>1. Init => IInv /\ CInv
  BY InitHolds
<1>2. IInv /\ CInv /\ [Next]_vars => IInv' /\ CInv'
  BY NextKeeps
<1> QED
  BY <1>1, <1>2, PTL DEF Spec

\* No fetch, however late, puts content back that an invalidation has removed: a
\* cached block that differs from the server's has an invalidation on its way,
\* unless it is in missed, for one of the reasons that Coherent names.
THEOREM CacheCoherent == Spec => []Coherent
<1>1. IInv /\ CInv => Coherent
  BY DEF CInv, CacheFresh, UpToDate, NewsOf, Coherent
<1> QED
  BY <1>1, KeptFresh, PTL

\* No fetch returns content older than what the mount had been told before the
\* fetch began and was not missed: a hit, a leader or a follower.
THEOREM ReadsSeeAnnounced == Spec => []ReadsAnnounced
<1>1. IInv /\ CInv => ReadsAnnounced
  <2> SUFFICES ASSUME IInv, CInv, NEW w \in Workers, task[w].pc = "done"
               PROVE  task[w].data.ver >= task[w].floor
    BY DEF ReadsAnnounced
  <2>1. task[w] \in Returning
    BY TaskIs DEF IInv, TasksOK
  <2> QED
    BY <2>1 DEF CInv, FloorsOK, FloorOK
<1> QED
  BY <1>1, KeptFresh, PTL
=============================================================================
