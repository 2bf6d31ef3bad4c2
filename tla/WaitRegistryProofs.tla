-------------------------- MODULE WaitRegistryProofs --------------------------
(***************************************************************************)
(* Proofs about WaitRegistry, for any fibers, keys and bounds: the linked  *)
(* lists in slabs are sound and implement the FIFOs of WaitQueues.         *)
(***************************************************************************)
EXTENDS WaitRegistry, PositionsProofs

-----------------------------------------------------------------------------
(***************************************************************************)
(* Loops: each turn goes on from the result of the one before.             *)
(***************************************************************************)

LEMMA UnlinkTurnByTurn ==
    ASSUME NEW store, NEW S, NEW arms \in Seq(S)
    PROVE  LET after == UnlinkTurns(store, arms)
           IN /\ after[0] = store
              /\ \A i \in 1 .. Len(arms) :
                    after[i] = ListUnlink(after[i - 1], arms[i].key, arms[i].node_id)
<1> DEFINE R(f, n) ==
             f = [i \in 0 .. n |-> IF i = 0 THEN store
                    ELSE ListUnlink(f[i - 1], arms[i].key, arms[i].node_id)]
           T == {n \in Nat : \E f : R(f, n)}
<1>0. Len(arms) \in Nat
  OBVIOUS
<1>1. 0 \in T
  <2> DEFINE g == [i \in 0 .. 0 |-> store]
  <2>1. R(g, 0)
    OBVIOUS
  <2>. QED BY <2>1
<1>2. ASSUME NEW n \in 1 .. Len(arms), n - 1 \in T PROVE n \in T
  <2>1. PICK f : R(f, n - 1)
    BY <1>2
  <2> DEFINE g == [i \in 0 .. n |-> IF i = 0 THEN store
                     ELSE ListUnlink(f[i - 1], arms[i].key, arms[i].node_id)]
  <2>2. \A i \in 0 .. n - 1 : g[i] = f[i]
    BY <2>1
  <2>3. \A i \in 1 .. n : i - 1 \in 0 .. n - 1
    OBVIOUS
  <2>4. \A i \in 1 .. n : g[i - 1] = f[i - 1]
    BY <2>2, <2>3
  <2>5. \A i \in 0 .. n : g[i] = IF i = 0 THEN store
                                     ELSE ListUnlink(g[i - 1], arms[i].key, arms[i].node_id)
    <3> SUFFICES ASSUME NEW i \in 0 .. n
                 PROVE  g[i] = IF i = 0 THEN store
                               ELSE ListUnlink(g[i - 1], arms[i].key, arms[i].node_id)
      OBVIOUS
    <3>1. CASE i = 0
      BY <3>1
    <3>2. CASE i # 0
      <4>1. i \in 1 .. n
        BY <3>2
      <4>2. g[i] = ListUnlink(f[i - 1], arms[i].key, arms[i].node_id)
        BY <4>1
      <4>. QED BY <2>4, <3>2, <4>1, <4>2
    <3>. QED BY <3>1, <3>2
  <2>6. g = [i \in 0 .. n |-> g[i]]
    OBVIOUS
  <2> HIDE DEF g
  <2>7. R(g, n)
    BY <2>5, <2>6
  <2>8. \E h : R(h, n)
    BY <2>7
  <2>9. n \in Nat
    BY <1>0
  <2>. QED BY <2>8, <2>9
<1> HIDE DEF T
<1>3. Len(arms) \in T
  <2>1. \A i \in 1 .. Len(arms) : i - 1 \in T => i \in T
    BY <1>2
  <2>2. \A i \in 0 .. Len(arms) : i \in T
    BY <1>0, <1>1, <2>1, TurnByTurn
  <2>. QED BY <1>0, <2>2
<1>4. \E f : R(f, Len(arms))
  BY <1>3 DEF T
<1>5. R(UnlinkTurns(store, arms), Len(arms))
  BY <1>4 DEF UnlinkTurns
<1>. QED BY <1>0, <1>5

LEMMA AddTurnByTurn ==
    ASSUME NEW store, NEW S, NEW keys \in Seq(S), NEW reg_id, NEW fiber
    PROVE  LET after == AddTurns(store, keys, reg_id, fiber)
           IN /\ after[0] = [store |-> store, arms |-> <<>>]
              /\ \A i \in 1 .. Len(keys) :
                    after[i] = AddArm(after[i - 1], keys[i], reg_id, fiber)
<1> DEFINE R(f, n) ==
             f = [i \in 0 .. n |-> IF i = 0 THEN [store |-> store, arms |-> <<>>]
                    ELSE AddArm(f[i - 1], keys[i], reg_id, fiber)]
           T == {n \in Nat : \E f : R(f, n)}
<1>0. Len(keys) \in Nat
  OBVIOUS
<1>1. 0 \in T
  <2> DEFINE g == [i \in 0 .. 0 |-> [store |-> store, arms |-> <<>>]]
  <2>1. R(g, 0)
    OBVIOUS
  <2>. QED BY <2>1
<1>2. ASSUME NEW n \in 1 .. Len(keys), n - 1 \in T PROVE n \in T
  <2>1. PICK f : R(f, n - 1)
    BY <1>2
  <2> DEFINE g == [i \in 0 .. n |-> IF i = 0 THEN [store |-> store, arms |-> <<>>]
                     ELSE AddArm(f[i - 1], keys[i], reg_id, fiber)]
  <2>2. \A i \in 0 .. n - 1 : g[i] = f[i]
    BY <2>1
  <2>3. \A i \in 1 .. n : i - 1 \in 0 .. n - 1
    OBVIOUS
  <2>4. \A i \in 1 .. n : g[i - 1] = f[i - 1]
    BY <2>2, <2>3
  <2>5. \A i \in 0 .. n : g[i] = IF i = 0 THEN [store |-> store, arms |-> <<>>]
                                     ELSE AddArm(g[i - 1], keys[i], reg_id, fiber)
    <3> SUFFICES ASSUME NEW i \in 0 .. n
                 PROVE  g[i] = IF i = 0 THEN [store |-> store, arms |-> <<>>]
                               ELSE AddArm(g[i - 1], keys[i], reg_id, fiber)
      OBVIOUS
    <3>1. CASE i = 0
      BY <3>1
    <3>2. CASE i # 0
      <4>1. i \in 1 .. n
        BY <3>2
      <4>2. g[i] = AddArm(f[i - 1], keys[i], reg_id, fiber)
        BY <4>1
      <4>. QED BY <2>4, <3>2, <4>1, <4>2
    <3>. QED BY <3>1, <3>2
  <2>6. g = [i \in 0 .. n |-> g[i]]
    OBVIOUS
  <2> HIDE DEF g
  <2>7. R(g, n)
    BY <2>5, <2>6
  <2>8. \E h : R(h, n)
    BY <2>7
  <2>9. n \in Nat
    BY <1>0
  <2>. QED BY <2>8, <2>9
<1> HIDE DEF T
<1>3. Len(keys) \in T
  <2>1. \A i \in 1 .. Len(keys) : i - 1 \in T => i \in T
    BY <1>2
  <2>2. \A i \in 0 .. Len(keys) : i \in T
    BY <1>0, <1>1, <2>1, TurnByTurn
  <2>. QED BY <1>0, <2>2
<1>4. \E f : R(f, Len(keys))
  BY <1>3 DEF T
<1>5. R(AddTurns(store, keys, reg_id, fiber), Len(keys))
  BY <1>4 DEF AddTurns
<1>. QED BY <1>0, <1>5

-----------------------------------------------------------------------------
(***************************************************************************)
(* Slabs: the keys handed out so far are those in use and the free ones.   *)
(***************************************************************************)
SlabOK(slab, size) ==
    /\ slab = [entries |-> slab.entries, free |-> slab.free]
    /\ slab.free \in Seq(Nat) /\ IsInjective(slab.free)
    /\ DOMAIN slab.entries \cap ToSet(slab.free) = {}
    /\ \E n \in 0 .. size : DOMAIN slab.entries \cup ToSet(slab.free) = 0 .. n - 1

LEMMA SlabKeys ==
    ASSUME NEW size \in Nat, NEW slab, SlabOK(slab, size)
    PROVE  /\ DOMAIN slab.entries \in SUBSET (0 .. size - 1)
           /\ IsFiniteSet(DOMAIN slab.entries)
           /\ Cardinality(DOMAIN slab.entries) \in Nat
<1>1. PICK n \in 0 .. size : DOMAIN slab.entries \cup ToSet(slab.free) = 0 .. n - 1
  BY DEF SlabOK
<1>2. DOMAIN slab.entries \in SUBSET (0 .. n - 1)
  BY <1>1
<1>3. IsFiniteSet(0 .. n - 1)
  BY FS_Interval, 0 \in Int, n - 1 \in Int
<1>4. \A k \in 0 .. n - 1 : k \in 0 .. size - 1
  OBVIOUS
<1>. QED BY <1>2, <1>3, <1>4, FS_Subset, FS_CardinalityType

\* A new entry gets a key that is not in use.
LEMMA InsertKeeps ==
    ASSUME NEW size \in Nat, NEW slab, SlabOK(slab, size),
           Cardinality(DOMAIN slab.entries) < size, NEW value
    PROVE  LET key == VacantKey(slab)
               new == Insert(slab, value)
           IN /\ key \in (0 .. size - 1) \ DOMAIN slab.entries
              /\ DOMAIN new.entries = DOMAIN slab.entries \cup {key}
              /\ new.entries[key] = value
              /\ \A k \in DOMAIN slab.entries : new.entries[k] = slab.entries[k]
              /\ SlabOK(new, size)
<1> DEFINE D == DOMAIN slab.entries
           key == VacantKey(slab)
           new == Insert(slab, value)
<1>1. PICK n \in 0 .. size : D \cup ToSet(slab.free) = 0 .. n - 1
  BY DEF SlabOK
<1>2. slab.free \in Seq(Nat) /\ IsInjective(slab.free) /\ D \cap ToSet(slab.free) = {}
  BY DEF SlabOK
<1>3. /\ new.entries = [k \in D \cup {key} |-> IF k = key THEN value ELSE slab.entries[k]]
      /\ new.free = IF slab.free = <<>> THEN <<>> ELSE Tail(slab.free)
      /\ new = [entries |-> new.entries, free |-> new.free]
  BY DEF Insert
<1>4. CASE slab.free = <<>>
  <2>1. ToSet(slab.free) = {}
    BY <1>4 DEF ToSet
  <2>2. D = 0 .. n - 1
    BY <1>1, <2>1
  <2>3. Cardinality(0 .. n - 1) = n
    <3>1. PICK m \in Int : m = n - 1
      OBVIOUS
    <3>2. Cardinality(0 .. m) = IF 0 > m THEN 0 ELSE m - 0 + 1
      BY FS_Interval, 0 \in Int
    <3>. QED BY <3>1, <3>2
  <2>4. key = n /\ n < size
    BY <1>4, <2>2, <2>3 DEF VacantKey
  <2>5. n \in (0 .. size - 1) \ D /\ n + 1 \in 0 .. size
        /\ D \cup {n} = 0 .. (n + 1) - 1
    BY <2>2, <2>4
  <2>6. ToSet(new.free) = {} /\ new.free \in Seq(Nat) /\ IsInjective(new.free)
    BY <1>3, <1>4 DEF ToSet, IsInjective
  <2> HIDE DEF D, key, new
  <2>7. DOMAIN new.entries = D \cup {n}
    BY <1>3, <2>4
  <2>8. SlabOK(new, size)
    BY <1>3, <2>5, <2>6, <2>7 DEF SlabOK
  <2>9. n \notin D
    BY <2>5
  <2>. QED BY <1>3, <2>4, <2>5, <2>7, <2>8, <2>9 DEF D, key, new
<1>5. CASE slab.free # <<>>
  <2>1. key = Head(slab.free) /\ new.free = Tail(slab.free)
    BY <1>3, <1>5 DEF VacantKey
  <2>2. /\ key \in ToSet(slab.free) /\ new.free \in Seq(Nat) /\ IsInjective(new.free)
        /\ ToSet(new.free) = ToSet(slab.free) \ {key}
    BY <1>2, <1>5, <2>1, ListTail, TailKeepsApart
  <2> HIDE DEF D, key, new
  <2>3. key \in 0 .. n - 1 /\ key \notin D
    BY <1>1, <1>2, <2>2
  <2>4. key \in (0 .. size - 1) \ D
    BY <2>3
  <2>5. DOMAIN new.entries = D \cup {key}
    BY <1>3
  <2>6. /\ DOMAIN new.entries \cup ToSet(new.free) = 0 .. n - 1
        /\ DOMAIN new.entries \cap ToSet(new.free) = {}
    BY <1>1, <1>2, <2>2, <2>5
  <2>7. SlabOK(new, size)
    BY <1>3, <2>2, <2>6 DEF SlabOK
  <2>. QED BY <1>3, <2>3, <2>4, <2>5, <2>7 DEF D, key, new
<1>. QED BY <1>4, <1>5

LEMMA RemoveKeeps ==
    ASSUME NEW size \in Nat, NEW slab, SlabOK(slab, size),
           NEW key \in DOMAIN slab.entries
    PROVE  LET new == TryRemove(slab, key)
           IN /\ DOMAIN new.entries = DOMAIN slab.entries \ {key}
              /\ \A k \in DOMAIN new.entries : new.entries[k] = slab.entries[k]
              /\ SlabOK(new, size)
<1> DEFINE D == DOMAIN slab.entries
           new == TryRemove(slab, key)
<1>1. PICK n \in 0 .. size : D \cup ToSet(slab.free) = 0 .. n - 1
  BY DEF SlabOK
<1>2. slab.free \in Seq(Nat) /\ IsInjective(slab.free) /\ D \cap ToSet(slab.free) = {}
  BY DEF SlabOK
<1>3. /\ new.entries = [k \in D \ {key} |-> slab.entries[k]]
      /\ new.free = <<key>> \o slab.free
      /\ new = [entries |-> new.entries, free |-> new.free]
  BY DEF TryRemove
<1>4. key \in Nat \ ToSet(slab.free)
  BY <1>1, <1>2
<1>5. /\ new.free \in Seq(Nat) /\ IsInjective(new.free)
      /\ ToSet(new.free) = ToSet(slab.free) \cup {key}
  BY <1>2, <1>3, <1>4, ListPush, PushKeepsApart
<1> HIDE DEF new
<1>6. DOMAIN new.entries = D \ {key}
  BY <1>3
<1>7. /\ DOMAIN new.entries \cup ToSet(new.free) = 0 .. n - 1
      /\ DOMAIN new.entries \cap ToSet(new.free) = {}
  BY <1>1, <1>2, <1>5, <1>6
<1>8. SlabOK(new, size)
  BY <1>1, <1>3, <1>5, <1>7 DEF SlabOK
<1>. QED BY <1>3, <1>6, <1>8 DEF new

-----------------------------------------------------------------------------
(***************************************************************************)
(* Linked lists, link by link.                                             *)
(***************************************************************************)
LEMMA RemovedList ==
    ASSUME NEW S, NEW c \in Seq(S), IsInjective(c), NEW m \in DOMAIN c
    PROVE  /\ Removed(c, m) \in Seq(S) /\ IsInjective(Removed(c, m))
           /\ ToSet(Removed(c, m)) = ToSet(c) \ {c[m]}
<1> DEFINE d == Removed(c, m)
<1>0. PICK l \in Nat : l = Len(c)
  OBVIOUS
<1>1. /\ DOMAIN c = 1 .. l /\ m \in 1 .. l
      /\ \A i \in 1 .. l : c[i] \in S
      /\ \A i, j \in 1 .. l : c[i] = c[j] => i = j
  BY <1>0 DEF IsInjective
<1>2. PICK n \in Nat : n = l - 1
  BY <1>1
<1>3. /\ DOMAIN d = 1 .. n /\ d = [i \in 1 .. n |-> d[i]]
      /\ \A i \in 1 .. n : d[i] = IF i < m THEN c[i] ELSE c[i + 1]
  BY <1>0, <1>2 DEF Removed
<1> HIDE DEF d
<1>4. \A i \in 1 .. n : i \in 1 .. l /\ i + 1 \in 1 .. l
  BY <1>1, <1>2
<1>5. \A i \in 1 .. n : d[i] \in S
  BY <1>1, <1>3, <1>4
<1>6. d \in Seq(S)
  BY <1>3, <1>5
<1>7. \A i, j \in 1 .. n : d[i] = d[j] => i = j
  BY <1>1, <1>3, <1>4
<1>8. IsInjective(d)
  BY <1>3, <1>7 DEF IsInjective
<1>9. ASSUME NEW i \in 1 .. n PROVE d[i] \in ToSet(c) \ {c[m]}
  <2>1. CASE i < m
    BY <1>1, <1>3, <1>4, <2>1 DEF ToSet
  <2>2. CASE ~ (i < m)
    <3>1. i + 1 # m
      BY <1>1, <2>2
    <3>. QED BY <1>1, <1>3, <1>4, <2>2, <3>1 DEF ToSet
  <2>. QED BY <2>1, <2>2
<1>10. ASSUME NEW i \in 1 .. l, i # m PROVE c[i] \in ToSet(d)
  <2>1. CASE i < m
    <3>1. i \in 1 .. n
      BY <1>1, <1>2, <2>1
    <3>. QED BY <1>3, <2>1, <3>1 DEF ToSet
  <2>2. CASE i > m
    <3>1. i - 1 \in 1 .. n /\ ~ (i - 1 < m) /\ (i - 1) + 1 = i
      BY <1>1, <1>2, <2>2
    <3>2. d[i - 1] = c[i]
      BY <1>3, <3>1
    <3>. QED BY <1>3, <3>1, <3>2 DEF ToSet
  <2>. QED BY <1>1, <1>10, <2>1, <2>2
<1>11. ToSet(d) = ToSet(c) \ {c[m]}
  <2>1. \A x \in ToSet(d) : x \in ToSet(c) \ {c[m]}
    BY <1>3, <1>9 DEF ToSet
  <2>2. \A x \in ToSet(c) \ {c[m]} : x \in ToSet(d)
    BY <1>1, <1>10 DEF ToSet
  <2>. QED BY <2>1, <2>2
<1>. QED BY <1>6, <1>8, <1>11 DEF d

\* Two entries have the same links.
SameLinks(a, b) == a.prev = b.prev /\ a.next = b.next

\* A list does not care about the nodes of others.
LEMMA LinkedStays ==
    ASSUME NEW ends, NEW e, NEW f, NEW c \in Seq(NodeIds), WellLinked(ends, e, c),
           \A n \in ToSet(c) : n \in DOMAIN f /\ SameLinks(e[n], f[n])
    PROVE  WellLinked(ends, f, c)
<1>1. Len(c) \in Nat /\ DOMAIN c = 1 .. Len(c)
  OBVIOUS
<1>2. \A i \in 1 .. Len(c) : SameLinks(e[c[i]], f[c[i]])
  BY <1>1 DEF ToSet
<1>3. ToSet(c) \subseteq DOMAIN f
  OBVIOUS
<1>. QED BY <1>2, <1>3 DEF WellLinked, SameLinks

\* A node that is linked behind the tail.
LEMMA LinkedGrows ==
    ASSUME NEW ends, NEW e, NEW f, NEW c \in Seq(NodeIds), WellLinked(ends, e, c),
           NEW id \in NodeIds \ ToSet(c), NEW new,
           id \in DOMAIN f, \A n \in ToSet(c) : n \in DOMAIN f,
           \A n \in ToSet(c) : /\ f[n].prev = e[n].prev
                               /\ f[n].next = IF n = ends.tail THEN id ELSE e[n].next,
           f[id].prev = ends.tail, f[id].next = NoNode,
           new.tail = id,
           new.head = IF ends.tail = NoNode THEN id ELSE ends.head
    PROVE  WellLinked(new, f, Append(c, id))
<1> DEFINE d == Append(c, id)
<1>0. PICK l \in Nat : l = Len(c)
  OBVIOUS
<1>1. /\ DOMAIN c = 1 .. l
      /\ \A i \in 1 .. l : c[i] \in NodeIds /\ c[i] \in ToSet(c)
  BY <1>0 DEF ToSet
<1>2. /\ d \in Seq(NodeIds) /\ Len(d) = l + 1 /\ d # <<>>
      /\ d[l + 1] = id /\ \A i \in 1 .. l : d[i] = c[i]
  <2>1. d \in Seq(NodeIds) /\ Len(d) = l + 1
    BY <1>0
  <2>2. d[l + 1] = id
    BY <1>0
  <2>3. \A i \in 1 .. l : d[i] = c[i]
    BY <1>0
  <2>4. d # <<>>
    <3> HIDE DEF d
    <3>. QED BY <2>1
  <2>. QED BY <2>1, <2>2, <2>3, <2>4
<1>3. IsInjective(d) /\ ToSet(d) = ToSet(c) \cup {id}
  BY AppendKeepsApart, ListAppend DEF WellLinked
<1>4. \A i, j \in 1 .. l : c[i] = c[j] => i = j
  BY <1>1 DEF WellLinked, IsInjective
<1>5. /\ ends.head = (IF c = <<>> THEN NoNode ELSE c[1])
      /\ ends.tail = (IF c = <<>> THEN NoNode ELSE c[l])
      /\ \A i \in 1 .. l :
          /\ e[c[i]].prev = IF i = 1 THEN NoNode ELSE c[i - 1]
          /\ e[c[i]].next = IF i = l THEN NoNode ELSE c[i + 1]
  BY <1>0 DEF WellLinked
<1>6. c = <<>> <=> l = 0
  BY <1>0
<1>7. \A i \in NodeIds : i # NoNode
  BY WaitersAssumption DEF NodeIds, NoNode
<1> HIDE DEF d
<1>8. ends.tail = NoNode <=> l = 0
  <2>1. l # 0 => c[l] \in NodeIds
    BY <1>1
  <2>. QED BY <1>5, <1>6, <1>7, <2>1
<1>9. new.head = d[1] /\ new.tail = d[Len(d)]
  <2>1. l # 0 => 1 \in 1 .. l
    BY <1>1
  <2>. QED BY <1>2, <1>5, <1>6, <1>8, <2>1
<1>10. ASSUME NEW i \in 1 .. Len(d)
       PROVE  /\ f[d[i]].prev = IF i = 1 THEN NoNode ELSE d[i - 1]
              /\ f[d[i]].next = IF i = Len(d) THEN NoNode ELSE d[i + 1]
  <2>1. CASE i = l + 1
    <3>1. f[d[i]].next = NoNode /\ i = Len(d)
      BY <1>2, <2>1
    <3>2. f[d[i]].prev = ends.tail
      BY <1>2, <2>1
    <3>3. CASE l = 0
      BY <1>5, <1>6, <2>1, <3>1, <3>2, <3>3
    <3>4. CASE l # 0
      <4>1. l \in 1 .. l /\ i - 1 = l /\ i # 1
        BY <1>1, <2>1, <3>4
      <4>. QED BY <1>2, <1>5, <1>6, <3>1, <3>2, <3>4, <4>1
    <3>. QED BY <3>3, <3>4
  <2>2. CASE i # l + 1
    <3>1. i \in 1 .. l /\ i # Len(d) /\ l # 0 /\ l \in 1 .. l
      BY <1>1, <1>2, <2>2
    <3>2. d[i] = c[i] /\ c[i] \in ToSet(c)
      BY <1>1, <1>2, <3>1
    <3>3. f[d[i]].prev = IF i = 1 THEN NoNode ELSE d[i - 1]
      <4>1. i # 1 => i - 1 \in 1 .. l
        BY <1>1, <3>1
      <4>2. f[c[i]].prev = e[c[i]].prev
        BY <3>2
      <4>3. f[d[i]].prev = IF i = 1 THEN NoNode ELSE c[i - 1]
        BY <1>5, <3>1, <3>2, <4>2
      <4>4. i # 1 => d[i - 1] = c[i - 1]
        BY <1>2, <4>1
      <4>. QED BY <4>3, <4>4
    <3>4. f[d[i]].next = d[i + 1]
      <4>1. CASE i = l
        BY <1>2, <1>5, <1>6, <3>1, <3>2, <4>1
      <4>2. CASE i # l
        <5>1. c[i] # ends.tail
          BY <1>4, <1>5, <1>6, <3>1, <4>2
        <5>2. i + 1 \in 1 .. l
          BY <1>1, <3>1, <4>2
        <5>. QED BY <1>2, <1>5, <3>1, <3>2, <4>2, <5>1, <5>2
      <4>. QED BY <4>1, <4>2
    <3>. QED BY <3>1, <3>3, <3>4
  <2>. QED BY <2>1, <2>2
<1>11. ToSet(d) \subseteq DOMAIN f
  BY <1>3
<1>. QED BY <1>2, <1>3, <1>9, <1>10, <1>11 DEF WellLinked, d

\* A node that is unlinked: its neighbours are linked to each other.
LEMMA LinkedShrinks ==
    ASSUME NEW ends, NEW e, NEW f, NEW c \in Seq(NodeIds), WellLinked(ends, e, c),
           NEW m \in DOMAIN c, NEW new,
           \A n \in ToSet(c) \ {c[m]} : n \in DOMAIN f,
           \A n \in ToSet(c) \ {c[m]} :
              /\ f[n].prev = IF n = e[c[m]].next THEN e[c[m]].prev ELSE e[n].prev
              /\ f[n].next = IF n = e[c[m]].prev THEN e[c[m]].next ELSE e[n].next,
           new.head = IF ends.head = c[m] THEN e[c[m]].next ELSE ends.head,
           new.tail = IF ends.tail = c[m] THEN e[c[m]].prev ELSE ends.tail
    PROVE  WellLinked(new, f, Removed(c, m))
<1> DEFINE d == Removed(c, m)
<1>0. PICK l \in Nat : l = Len(c)
  OBVIOUS
<1>1. /\ DOMAIN c = 1 .. l /\ m \in 1 .. l
      /\ \A i \in 1 .. l : c[i] \in NodeIds /\ c[i] \in ToSet(c)
  BY <1>0 DEF ToSet
<1>2. PICK n \in Nat : n = l - 1
  BY <1>1
<1>3. /\ d \in Seq(NodeIds) /\ IsInjective(d) /\ ToSet(d) = ToSet(c) \ {c[m]}
  BY RemovedList DEF WellLinked
<1>4. Len(d) = n /\ \A i \in 1 .. n : d[i] = IF i < m THEN c[i] ELSE c[i + 1]
  BY <1>0, <1>2 DEF Removed
<1>5. /\ ends.head = (IF c = <<>> THEN NoNode ELSE c[1])
      /\ ends.tail = (IF c = <<>> THEN NoNode ELSE c[l])
      /\ \A i \in 1 .. l :
          /\ e[c[i]].prev = IF i = 1 THEN NoNode ELSE c[i - 1]
          /\ e[c[i]].next = IF i = l THEN NoNode ELSE c[i + 1]
  BY <1>0 DEF WellLinked
<1>6. \A i, j \in 1 .. l : c[i] = c[j] => i = j
  BY <1>1 DEF WellLinked, IsInjective
<1>7. c # <<>> /\ (d = <<>> <=> n = 0)
  BY <1>0, <1>1, <1>3, <1>4
<1>8. \A i \in NodeIds : i # NoNode
  BY WaitersAssumption DEF NodeIds, NoNode
<1> HIDE DEF d
<1>9. ends.head = c[1] /\ ends.tail = c[l] /\ 1 \in 1 .. l /\ l \in 1 .. l
  BY <1>1, <1>5, <1>7
<1>10. /\ ends.head = c[m] <=> m = 1
       /\ ends.tail = c[m] <=> m = l
  BY <1>1, <1>6, <1>9
<1>11. new.head = IF d = <<>> THEN NoNode ELSE d[1]
  <2>1. CASE n = 0
    BY <1>1, <1>2, <1>5, <1>7, <1>10, <2>1
  <2>2. CASE n # 0
    <3>1. 1 \in 1 .. n /\ d # <<>> /\ 1 # l
      BY <1>2, <1>7, <2>2
    <3>. QED BY <1>1, <1>4, <1>5, <1>9, <1>10, <3>1
  <2>. QED BY <2>1, <2>2
<1>12. new.tail = IF d = <<>> THEN NoNode ELSE d[Len(d)]
  <2>1. CASE n = 0
    BY <1>1, <1>2, <1>5, <1>7, <1>10, <2>1
  <2>2. CASE n # 0
    <3>1. n \in 1 .. n /\ d # <<>> /\ n + 1 = l /\ l # 1
          /\ l - 1 = n
      BY <1>2, <1>7, <2>2
    <3>2. CASE m = l
      <4>1. new.tail = c[n] /\ n < m
        BY <1>1, <1>5, <1>10, <3>1, <3>2
      <4>. QED BY <1>4, <3>1, <4>1
    <3>3. CASE m # l
      <4>1. new.tail = c[n + 1] /\ ~ (n < m)
        BY <1>1, <1>9, <1>10, <3>1, <3>3
      <4>. QED BY <1>4, <3>1, <4>1
    <3>. QED BY <3>2, <3>3
  <2>. QED BY <2>1, <2>2
<1>13. ASSUME NEW i \in 1 .. n
       PROVE  /\ f[d[i]].prev = IF i = 1 THEN NoNode ELSE d[i - 1]
              /\ f[d[i]].next = IF i = n THEN NoNode ELSE d[i + 1]
  <2>1. d[i] \in ToSet(c) \ {c[m]}
    <3>1. DOMAIN d = 1 .. n
      BY <1>3, <1>4
    <3>2. d[i] \in ToSet(d)
      BY <3>1 DEF ToSet
    <3>. QED BY <1>3, <3>2
  <2>2. CASE i < m
    <3>1. i \in 1 .. l /\ d[i] = c[i]
      BY <1>1, <1>2, <1>4, <2>2
    <3>2. c[i] # e[c[m]].next
      <4>1. m + 1 # i /\ (m # l => m + 1 \in 1 .. l)
        BY <1>1, <2>2
      <4>. QED BY <1>1, <1>5, <1>6, <1>8, <3>1, <4>1
    <3>3. f[c[i]].prev = e[c[i]].prev
      BY <2>1, <3>1, <3>2
    <3>4. f[d[i]].prev = IF i = 1 THEN NoNode ELSE d[i - 1]
      <4>1. i # 1 => i - 1 \in 1 .. n /\ i - 1 < m
        BY <2>2
      <4>2. e[c[i]].prev = IF i = 1 THEN NoNode ELSE c[i - 1]
        BY <1>5, <3>1
      <4>3. i # 1 => d[i - 1] = c[i - 1]
        BY <1>4, <4>1
      <4>. QED BY <3>1, <3>3, <4>2, <4>3
    <3>5. CASE i = m - 1
      <4>1. m # 1 /\ m - 1 \in 1 .. l /\ e[c[m]].prev = c[i]
        BY <1>1, <1>5, <2>2, <3>5
      <4>2. f[c[i]].next = e[c[m]].next
        BY <2>1, <3>1, <4>1
      <4>3. CASE m = l
        <5>1. i = n
          BY <1>2, <3>5, <4>3
        <5>. QED BY <1>1, <1>5, <3>1, <3>4, <4>2, <4>3, <5>1
      <4>4. CASE m # l
        <5>1. i # n /\ i + 1 \in 1 .. n /\ ~ (i + 1 < m) /\ (i + 1) + 1 = m + 1
          BY <1>1, <1>2, <3>5, <4>4
        <5>2. d[i + 1] = c[m + 1]
          BY <1>4, <5>1
        <5>. QED BY <1>1, <1>5, <3>1, <3>4, <4>2, <4>4, <5>1, <5>2
      <4>. QED BY <4>3, <4>4
    <3>6. CASE i # m - 1
      <4>1. c[i] # e[c[m]].prev
        <5>1. m # 1 => m - 1 \in 1 .. l
          BY <1>1
        <5>. QED BY <1>1, <1>5, <1>6, <1>8, <3>1, <3>6, <5>1
      <4>2. f[c[i]].next = e[c[i]].next
        BY <2>1, <3>1, <4>1
      <4>3. i # n /\ i + 1 \in 1 .. n /\ i + 1 < m /\ i # l
        BY <1>1, <1>2, <2>2, <3>6
      <4>. QED BY <1>4, <1>5, <3>1, <3>4, <4>2, <4>3
    <3>. QED BY <3>5, <3>6
  <2>3. CASE ~ (i < m)
    <3>1. i + 1 \in 1 .. l /\ d[i] = c[i + 1] /\ i + 1 # 1 /\ (i + 1) - 1 = i
          /\ i + 1 # m
      BY <1>1, <1>2, <1>4, <2>3
    <3>2. c[i + 1] # e[c[m]].prev
      <4>1. m - 1 # i + 1 /\ (m # 1 => m - 1 \in 1 .. l)
        BY <1>1, <2>3
      <4>. QED BY <1>1, <1>5, <1>6, <1>8, <3>1, <4>1
    <3>3. f[c[i + 1]].next = e[c[i + 1]].next
      BY <2>1, <3>1, <3>2
    <3>4. f[d[i]].next = IF i = n THEN NoNode ELSE d[i + 1]
      <4>1. (i = n <=> i + 1 = l) /\ (i # n => i + 1 \in 1 .. n /\ ~ (i + 1 < m))
        BY <1>1, <1>2, <2>3
      <4>2. e[c[i + 1]].next = IF i + 1 = l THEN NoNode ELSE c[(i + 1) + 1]
        BY <1>5, <3>1
      <4>3. i # n => d[i + 1] = c[(i + 1) + 1]
        BY <1>4, <4>1
      <4>. QED BY <3>1, <3>3, <4>1, <4>2, <4>3
    <3>5. CASE i = m
      <4>1. m # l /\ e[c[m]].next = c[i + 1]
        BY <1>1, <1>2, <1>5, <3>5
      <4>2. f[c[i + 1]].prev = e[c[m]].prev
        BY <2>1, <3>1, <4>1
      <4>3. i # 1 => i - 1 \in 1 .. n /\ i - 1 < m
        BY <3>5
      <4>. QED BY <1>1, <1>4, <1>5, <3>1, <3>4, <3>5, <4>2, <4>3
    <3>6. CASE i # m
      <4>1. c[i + 1] # e[c[m]].next
        <5>1. m # l => m + 1 \in 1 .. l
          BY <1>1
        <5>2. m + 1 # i + 1
          BY <1>1, <3>6
        <5>. QED BY <1>1, <1>5, <1>6, <1>8, <3>1, <5>1, <5>2
      <4>2. f[c[i + 1]].prev = c[i]
        <5>1. e[c[i + 1]].prev = c[(i + 1) - 1]
          BY <1>5, <3>1
        <5>2. f[c[i + 1]].prev = e[c[i + 1]].prev
          BY <2>1, <3>1, <4>1
        <5>. QED BY <3>1, <5>1, <5>2
      <4>3. i # 1 /\ i - 1 \in 1 .. n /\ ~ (i - 1 < m) /\ (i - 1) + 1 = i
        BY <1>1, <2>3, <3>6
      <4>. QED BY <1>4, <3>1, <3>4, <4>2, <4>3
    <3>. QED BY <3>5, <3>6
  <2>. QED BY <2>2, <2>3
<1>14. ToSet(d) \subseteq DOMAIN f
  BY <1>3
<1>. QED BY <1>3, <1>4, <1>11, <1>12, <1>13, <1>14 DEF WellLinked, d

-----------------------------------------------------------------------------
(***************************************************************************)
(* The store: a slab of nodes and for each key a list of some of them.     *)
(***************************************************************************)
Node == [prev : NodeRef, next : NodeRef, reg_id : RegIds, fiber_id : Fibers]

NodesOK(slab) ==
    SlabOK(slab, MaxNodes) /\ slab.entries \in [DOMAIN slab.entries -> Node]

\* Two entries have the same owner.
SameOwner(a, b) == a.reg_id = b.reg_id /\ a.fiber_id = b.fiber_id

LEMMA SetPrevWrites ==
    ASSUME NEW slab, NodesOK(slab), NEW key \in NodeRef, NEW v \in NodeRef
    PROVE  LET new == SetPrev(slab, key, v)
           IN /\ NodesOK(new) /\ DOMAIN new.entries = DOMAIN slab.entries
              /\ \A n \in DOMAIN slab.entries :
                    /\ new.entries[n].prev = IF n = key THEN v ELSE slab.entries[n].prev
                    /\ new.entries[n].next = slab.entries[n].next
                    /\ SameOwner(new.entries[n], slab.entries[n])
<1> DEFINE D == DOMAIN slab.entries
           new == SetPrev(slab, key, v)
<1>0. /\ slab = [entries |-> slab.entries, free |-> slab.free]
      /\ slab.entries \in [D -> Node]
  BY DEF NodesOK, SlabOK
<1>1. CASE key \notin D
  <2>1. new = slab
    BY <1>1 DEF SetPrev
  <2>. QED BY <1>1, <2>1 DEF SameOwner
<1>2. CASE key \in D
  <2> DEFINE e == [slab.entries EXCEPT ![key].prev = v]
  <2>1. new = [slab EXCEPT !.entries = e]
    BY <1>2 DEF SetPrev
  <2>2. new = [entries |-> e, free |-> slab.free]
    BY <1>0, <2>1
  <2>3. DOMAIN e = D /\ e \in [D -> Node]
    BY <1>0, <1>2 DEF Node
  <2>4. \A n \in D : /\ e[n].prev = IF n = key THEN v ELSE slab.entries[n].prev
                     /\ e[n].next = slab.entries[n].next
                     /\ SameOwner(e[n], slab.entries[n])
    BY <1>0, <1>2 DEF Node, SameOwner
  <2> HIDE DEF e, new
  <2>5. new.entries = e /\ new.free = slab.free
    BY <2>2
  <2>6. new = [entries |-> new.entries, free |-> new.free]
    BY <2>2, <2>5
  <2>7. SlabOK(new, MaxNodes)
    BY <2>3, <2>5, <2>6 DEF NodesOK, SlabOK
  <2>. QED BY <2>3, <2>4, <2>5, <2>7 DEF NodesOK, new
<1>. QED BY <1>1, <1>2

LEMMA SetNextWrites ==
    ASSUME NEW slab, NodesOK(slab), NEW key \in NodeRef, NEW v \in NodeRef
    PROVE  LET new == SetNext(slab, key, v)
           IN /\ NodesOK(new) /\ DOMAIN new.entries = DOMAIN slab.entries
              /\ \A n \in DOMAIN slab.entries :
                    /\ new.entries[n].prev = slab.entries[n].prev
                    /\ new.entries[n].next = IF n = key THEN v ELSE slab.entries[n].next
                    /\ SameOwner(new.entries[n], slab.entries[n])
<1> DEFINE D == DOMAIN slab.entries
           new == SetNext(slab, key, v)
<1>0. /\ slab = [entries |-> slab.entries, free |-> slab.free]
      /\ slab.entries \in [D -> Node]
  BY DEF NodesOK, SlabOK
<1>1. CASE key \notin D
  <2>1. new = slab
    BY <1>1 DEF SetNext
  <2>. QED BY <1>1, <2>1 DEF SameOwner
<1>2. CASE key \in D
  <2> DEFINE e == [slab.entries EXCEPT ![key].next = v]
  <2>1. new = [slab EXCEPT !.entries = e]
    BY <1>2 DEF SetNext
  <2>2. new = [entries |-> e, free |-> slab.free]
    BY <1>0, <2>1
  <2>3. DOMAIN e = D /\ e \in [D -> Node]
    BY <1>0, <1>2 DEF Node
  <2>4. \A n \in D : /\ e[n].prev = slab.entries[n].prev
                     /\ e[n].next = IF n = key THEN v ELSE slab.entries[n].next
                     /\ SameOwner(e[n], slab.entries[n])
    BY <1>0, <1>2 DEF Node, SameOwner
  <2> HIDE DEF e, new
  <2>5. new.entries = e /\ new.free = slab.free
    BY <2>2
  <2>6. new = [entries |-> new.entries, free |-> new.free]
    BY <2>2, <2>5
  <2>7. SlabOK(new, MaxNodes)
    BY <2>3, <2>5, <2>6 DEF NodesOK, SlabOK
  <2>. QED BY <2>3, <2>4, <2>5, <2>7 DEF NodesOK, new
<1>. QED BY <1>1, <1>2

\* A store whose lists are L.
StoreOK(s, L) ==
    /\ s = [per_key |-> s.per_key, nodes |-> s.nodes]
    /\ s.per_key \in [Keys -> [head : NodeRef, tail : NodeRef]]
    /\ NodesOK(s.nodes)
    /\ L \in [Keys -> Seq(NodeIds)]
    /\ \A k \in Keys : WellLinked(s.per_key[k], s.nodes.entries, L[k])
    /\ \A k, l \in Keys : k # l => ToSet(L[k]) \cap ToSet(L[l]) = {}

\* The nodes of a store: what list_push_back and list_unlink do to them.
LEMMA StoreNodes ==
    ASSUME NEW s, NEW L, StoreOK(s, L)
    PROVE  /\ DOMAIN s.nodes.entries \in SUBSET NodeIds
           /\ IsFiniteSet(DOMAIN s.nodes.entries)
           /\ Cardinality(DOMAIN s.nodes.entries) \in Nat
           /\ \A k \in Keys : ToSet(L[k]) \in SUBSET DOMAIN s.nodes.entries
           /\ \A n \in DOMAIN s.nodes.entries : s.nodes.entries[n] \in Node
<1>1. SlabOK(s.nodes, MaxNodes) /\ MaxNodes \in Nat
  BY WaitersAssumption DEF StoreOK, NodesOK
<1>2. \A k \in Keys : ToSet(L[k]) \in SUBSET DOMAIN s.nodes.entries
  BY DEF StoreOK, WellLinked
<1>3. \A n \in DOMAIN s.nodes.entries : s.nodes.entries[n] \in Node
  BY DEF StoreOK, NodesOK
<1>. QED BY <1>1, <1>2, <1>3, SlabKeys DEF NodeIds

\* One arm more: a node that was vacant, behind the others of its key.
LEMMA ArmIsAdded ==
    ASSUME NEW built, NEW L, StoreOK(built.store, L),
           Cardinality(DOMAIN built.store.nodes.entries) < MaxNodes,
           NEW key \in Keys, NEW reg_id \in RegIds, NEW fiber \in Fibers
    PROVE  LET old == built.store.nodes
               id == VacantKey(old)
               new == AddArm(built, key, reg_id, fiber)
           IN /\ id \in NodeIds \ DOMAIN old.entries
              /\ new.arms = Append(built.arms, [key |-> key, node_id |-> id])
              /\ StoreOK(new.store, [L EXCEPT ![key] = Append(@, id)])
              /\ DOMAIN new.store.nodes.entries = DOMAIN old.entries \cup {id}
              /\ new.store.nodes.entries[id].reg_id = reg_id
              /\ new.store.nodes.entries[id].fiber_id = fiber
              /\ \A n \in DOMAIN old.entries :
                    SameOwner(new.store.nodes.entries[n], old.entries[n])
<1> DEFINE s == built.store
           D == DOMAIN s.nodes.entries
           id == VacantKey(s.nodes)
           node == [prev |-> NoNode, next |-> NoNode, reg_id |-> reg_id, fiber_id |-> fiber]
           ins == Insert(s.nodes, node)
           tail == s.per_key[key].tail
           new == AddArm(built, key, reg_id, fiber)
           t == new.store
           M == [L EXCEPT ![key] = Append(@, id)]
<1>1. /\ s = [per_key |-> s.per_key, nodes |-> s.nodes]
      /\ s.per_key \in [Keys -> [head : NodeRef, tail : NodeRef]]
      /\ NodesOK(s.nodes) /\ SlabOK(s.nodes, MaxNodes)
      /\ L \in [Keys -> Seq(NodeIds)]
      /\ \A k \in Keys : WellLinked(s.per_key[k], s.nodes.entries, L[k])
      /\ \A k, l \in Keys : k # l => ToSet(L[k]) \cap ToSet(L[l]) = {}
  BY DEF StoreOK, NodesOK
<1>2. /\ D \in SUBSET NodeIds
      /\ \A k \in Keys : ToSet(L[k]) \in SUBSET D
      /\ \A n \in D : s.nodes.entries[n] \in Node
  BY StoreNodes
<1>3. /\ id \in NodeIds \ D
      /\ DOMAIN ins.entries = D \cup {id} /\ ins.entries[id] = node
      /\ \A n \in D : ins.entries[n] = s.nodes.entries[n]
      /\ SlabOK(ins, MaxNodes)
  BY <1>1, WaitersAssumption, InsertKeeps DEF NodeIds
<1>4. node \in Node /\ node.prev = NoNode /\ node.next = NoNode
      /\ node.reg_id = reg_id /\ node.fiber_id = fiber
  BY DEF Node, NodeRef
<1>5. /\ new.arms = Append(built.arms, [key |-> key, node_id |-> id])
      /\ t = ListPushBack([s EXCEPT !.nodes = ins], key, id)
  BY DEF AddArm
<1>6. [s EXCEPT !.nodes = ins] = [per_key |-> s.per_key, nodes |-> ins]
  <2> HIDE DEF s, ins
  <2>. QED BY <1>1
<1>7. /\ tail \in NodeRef /\ id \in NodeRef /\ id # NoNode
      /\ tail = NoNode <=> L[key] = <<>>
      /\ tail # NoNode => tail \in ToSet(L[key])
      /\ \A n \in NodeIds : n # NoNode
  <2>1. \A n \in NodeIds : n # NoNode
    BY WaitersAssumption DEF NodeIds, NoNode
  <2>2. tail = IF L[key] = <<>> THEN NoNode ELSE L[key][Len(L[key])]
    BY <1>1 DEF WellLinked
  <2>3. L[key] # <<>> => Len(L[key]) \in DOMAIN L[key]
    BY <1>1
  <2>4. L[key] # <<>> => L[key][Len(L[key])] \in ToSet(L[key])
    BY <2>3 DEF ToSet
  <2>. QED BY <1>1, <1>2, <1>3, <2>1, <2>2, <2>4 DEF NodeRef
<1> HIDE DEF s, id, ins, new, node
<1>8. NodesOK(ins)
  <2>1. \A n \in D \cup {id} : ins.entries[n] \in Node
    BY <1>2, <1>3, <1>4
  <2>2. ins.entries = [n \in D \cup {id} |-> ins.entries[n]]
    <3>1. ins.entries = [n \in DOMAIN ins.entries |-> ins.entries[n]]
      BY DEF ins, Insert
    <3>. QED BY <1>3, <3>1
  <2>. QED BY <1>3, <2>1, <2>2 DEF NodesOK
<1>9. /\ t = [per_key |-> t.per_key, nodes |-> t.nodes]
      /\ t.per_key \in [Keys -> [head : NodeRef, tail : NodeRef]]
      /\ \A k \in Keys : k # key => t.per_key[k] = s.per_key[k]
      /\ t.per_key[key].tail = id
      /\ t.per_key[key].head = IF tail = NoNode THEN id ELSE s.per_key[key].head
      /\ NodesOK(t.nodes) /\ DOMAIN t.nodes.entries = D \cup {id}
      /\ t.nodes.entries[id].prev = tail /\ t.nodes.entries[id].next = NoNode
      /\ SameOwner(t.nodes.entries[id], node)
      /\ \A n \in D :
            /\ t.nodes.entries[n].prev = s.nodes.entries[n].prev
            /\ t.nodes.entries[n].next = IF n = tail THEN id ELSE s.nodes.entries[n].next
            /\ SameOwner(t.nodes.entries[n], s.nodes.entries[n])
  <2>1. CASE tail = NoNode
    <3> DEFINE p == [s.per_key EXCEPT ![key] = [head |-> id, tail |-> id]]
    <3>1. t = [per_key |-> p, nodes |-> ins]
      BY <1>5, <1>6, <2>1 DEF ListPushBack
    <3>2. t.per_key = p /\ t.nodes = ins
      BY <3>1
    <3>3. \A n \in D : n # tail
      BY <1>2, <1>7, <2>1
    <3>4. /\ p \in [Keys -> [head : NodeRef, tail : NodeRef]]
          /\ \A k \in Keys : k # key => p[k] = s.per_key[k]
          /\ p[key].tail = id /\ p[key].head = id
      BY <1>1, <1>7
    <3>5. \A n \in D : SameOwner(ins.entries[n], s.nodes.entries[n])
      BY <1>3 DEF SameOwner
    <3>6. SameOwner(ins.entries[id], node)
      BY <1>3 DEF SameOwner
    <3>7. t = [per_key |-> t.per_key, nodes |-> t.nodes]
      BY <3>1, <3>2
    <3> HIDE DEF p
    <3>. QED BY <1>3, <1>4, <1>8, <2>1, <3>2, <3>3, <3>4, <3>5, <3>6, <3>7
  <2>2. CASE tail # NoNode
    <3> DEFINE p == [s.per_key EXCEPT ![key].tail = id]
               a == SetNext(ins, tail, id)
               b == SetPrev(a, id, tail)
    <3>1. t = [per_key |-> p, nodes |-> b]
      BY <1>5, <1>6, <2>2 DEF ListPushBack
    <3>2. t.per_key = p /\ t.nodes = b
      BY <3>1
    <3>3. /\ NodesOK(a) /\ DOMAIN a.entries = D \cup {id}
          /\ \A n \in D \cup {id} :
                /\ a.entries[n].prev = ins.entries[n].prev
                /\ a.entries[n].next = IF n = tail THEN id ELSE ins.entries[n].next
                /\ SameOwner(a.entries[n], ins.entries[n])
      <4>1. /\ NodesOK(a) /\ DOMAIN a.entries = DOMAIN ins.entries
            /\ \A n \in DOMAIN ins.entries :
                  /\ a.entries[n].prev = ins.entries[n].prev
                  /\ a.entries[n].next = IF n = tail THEN id ELSE ins.entries[n].next
                  /\ SameOwner(a.entries[n], ins.entries[n])
        BY <1>7, <1>8, SetNextWrites
      <4> HIDE DEF a
      <4>. QED BY <1>3, <4>1
    <3> HIDE DEF a
    <3>4. /\ NodesOK(b) /\ DOMAIN b.entries = D \cup {id}
          /\ \A n \in D \cup {id} :
                /\ b.entries[n].prev = IF n = id THEN tail ELSE a.entries[n].prev
                /\ b.entries[n].next = a.entries[n].next
                /\ SameOwner(b.entries[n], a.entries[n])
      BY <1>7, <3>3, SetPrevWrites
    <3>5. tail \in D /\ id # tail
      BY <1>2, <1>3, <1>7, <2>2
    <3>6. /\ p \in [Keys -> [head : NodeRef, tail : NodeRef]]
          /\ \A k \in Keys : k # key => p[k] = s.per_key[k]
          /\ p[key].tail = id /\ p[key].head = s.per_key[key].head
      BY <1>1, <1>7
    <3>7. t = [per_key |-> t.per_key, nodes |-> t.nodes]
      BY <3>1, <3>2
    <3> HIDE DEF p, b
    <3>8. \A n \in D :
            /\ b.entries[n].prev = s.nodes.entries[n].prev
            /\ b.entries[n].next = IF n = tail THEN id ELSE s.nodes.entries[n].next
            /\ SameOwner(b.entries[n], s.nodes.entries[n])
      BY <1>3, <3>3, <3>4 DEF SameOwner
    <3>9. /\ b.entries[id].prev = tail /\ b.entries[id].next = NoNode
          /\ SameOwner(b.entries[id], node)
      BY <1>3, <1>4, <3>3, <3>4, <3>5 DEF SameOwner
    <3>. QED BY <2>2, <3>2, <3>4, <3>6, <3>7, <3>8, <3>9
  <2>. QED BY <2>1, <2>2
<1> HIDE DEF t
<1>10. /\ M \in [Keys -> Seq(NodeIds)] /\ M[key] = Append(L[key], id)
       /\ \A k \in Keys : k # key => M[k] = L[k]
       /\ ToSet(M[key]) = ToSet(L[key]) \cup {id}
  <2>1. L[key] \in Seq(NodeIds) /\ id \in NodeIds
    BY <1>1, <1>3
  <2>2. Append(L[key], id) \in Seq(NodeIds)
        /\ ToSet(Append(L[key], id)) = ToSet(L[key]) \cup {id}
    BY <2>1, ListAppend
  <2>. QED BY <1>1, <2>2
<1> HIDE DEF M
<1>11. WellLinked(t.per_key[key], t.nodes.entries, M[key])
  <2>1. PICK c, ends, e, f, new_ends :
           /\ c = L[key] /\ ends = s.per_key[key] /\ e = s.nodes.entries
           /\ f = t.nodes.entries /\ new_ends = t.per_key[key]
    OBVIOUS
  <2>2. c \in Seq(NodeIds) /\ ToSet(c) \in SUBSET D /\ WellLinked(ends, e, c)
    BY <1>1, <1>2, <2>1
  <2>3. id \in NodeIds \ ToSet(c)
    BY <1>3, <2>2
  <2>4. id \in DOMAIN f /\ \A n \in ToSet(c) : n \in DOMAIN f
    BY <1>9, <2>1, <2>2
  <2>5. \A n \in ToSet(c) : /\ f[n].prev = e[n].prev
                            /\ f[n].next = IF n = ends.tail THEN id ELSE e[n].next
    BY <1>9, <2>1, <2>2
  <2>6. /\ f[id].prev = ends.tail /\ f[id].next = NoNode
        /\ new_ends.tail = id
        /\ new_ends.head = IF ends.tail = NoNode THEN id ELSE ends.head
    BY <1>9, <2>1
  <2>7. WellLinked(new_ends, f, Append(c, id))
    BY <2>2, <2>3, <2>4, <2>5, <2>6, LinkedGrows
  <2>. QED BY <1>10, <2>1, <2>7
<1>12. ASSUME NEW k \in Keys, k # key
       PROVE  WellLinked(t.per_key[k], t.nodes.entries, M[k])
  <2>1. L[k] \in Seq(NodeIds) /\ ToSet(L[k]) \in SUBSET D
        /\ WellLinked(s.per_key[k], s.nodes.entries, L[k])
    BY <1>1, <1>2
  <2>2. \A n \in ToSet(L[k]) : n # tail
    BY <1>1, <1>2, <1>7, <1>12, <2>1
  <2>3. \A n \in ToSet(L[k]) :
           n \in DOMAIN t.nodes.entries /\ SameLinks(s.nodes.entries[n], t.nodes.entries[n])
    BY <1>9, <2>1, <2>2 DEF SameLinks
  <2>4. WellLinked(s.per_key[k], t.nodes.entries, L[k])
    BY <2>1, <2>3, LinkedStays
  <2>. QED BY <1>9, <1>10, <1>12, <2>4
<1>13. \A k, l \in Keys : k # l => ToSet(M[k]) \cap ToSet(M[l]) = {}
  <2>1. /\ \A k, l \in Keys : k # l => ToSet(L[k]) \cap ToSet(L[l]) = {}
        /\ \A k \in Keys : id \notin ToSet(L[k])
    BY <1>1, <1>2, <1>3
  <2>2. \A k \in Keys : k # key => ToSet(M[k]) = ToSet(L[k])
    BY <1>10
  <2>3. ASSUME NEW k \in Keys, NEW l \in Keys, k # l
        PROVE  ToSet(M[k]) \cap ToSet(M[l]) = {}
    <3>1. CASE k = key
      BY <1>10, <2>1, <2>2, <2>3, <3>1
    <3>2. CASE l = key
      BY <1>10, <2>1, <2>2, <2>3, <3>2
    <3>3. CASE k # key /\ l # key
      BY <2>1, <2>2, <2>3, <3>3
    <3>. QED BY <3>1, <3>2, <3>3
  <2>. QED BY <2>3
<1>14. StoreOK(t, M)
  BY <1>9, <1>10, <1>11, <1>12, <1>13 DEF StoreOK
<1>15. t.nodes.entries[id].reg_id = reg_id /\ t.nodes.entries[id].fiber_id = fiber
  BY <1>4, <1>9 DEF SameOwner
<1>. QED BY <1>3, <1>5, <1>9, <1>14, <1>15 DEF s, id, t, new, M

\* One arm less: its node is taken out of the list it was in.
LEMMA ArmIsUnlinked ==
    ASSUME NEW s, NEW L, StoreOK(s, L), NEW key \in Keys, NEW m \in DOMAIN L[key]
    PROVE  LET id == L[key][m]
               new == ListUnlink(s, key, id)
           IN /\ StoreOK(new, [L EXCEPT ![key] = Removed(@, m)])
              /\ DOMAIN new.nodes.entries = DOMAIN s.nodes.entries \ {id}
              /\ \A n \in DOMAIN new.nodes.entries :
                    SameOwner(new.nodes.entries[n], s.nodes.entries[n])
<1> DEFINE D == DOMAIN s.nodes.entries
           id == L[key][m]
           prev == s.nodes.entries[id].prev
           next == s.nodes.entries[id].next
           list == s.per_key[key]
           t == ListUnlink(s, key, id)
           r == TryRemove(s.nodes, id)
           a == SetNext(r, prev, next)
           b == SetPrev(a, next, prev)
           ends == [head |-> IF list.head = id THEN next ELSE list.head,
                    tail |-> IF list.tail = id THEN prev ELSE list.tail]
           p == [s.per_key EXCEPT ![key] = ends]
           M == [L EXCEPT ![key] = Removed(@, m)]
<1>1. /\ s.per_key \in [Keys -> [head : NodeRef, tail : NodeRef]]
      /\ NodesOK(s.nodes) /\ SlabOK(s.nodes, MaxNodes)
      /\ L \in [Keys -> Seq(NodeIds)]
      /\ \A k \in Keys : WellLinked(s.per_key[k], s.nodes.entries, L[k])
      /\ \A k, l \in Keys : k # l => ToSet(L[k]) \cap ToSet(L[l]) = {}
  BY DEF StoreOK, NodesOK
<1>2. /\ D \in SUBSET NodeIds
      /\ \A k \in Keys : ToSet(L[k]) \in SUBSET D
      /\ \A n \in D : s.nodes.entries[n] \in Node
  BY StoreNodes
<1>3. id \in ToSet(L[key]) /\ id \in D
  BY <1>2 DEF ToSet
<1>4. prev \in NodeRef /\ next \in NodeRef
  BY <1>2, <1>3 DEF Node
<1>5. /\ DOMAIN r.entries = D \ {id}
      /\ \A n \in D \ {id} : r.entries[n] = s.nodes.entries[n]
      /\ SlabOK(r, MaxNodes)
  BY <1>1, <1>3, WaitersAssumption, RemoveKeeps
<1>6. t = [per_key |-> p, nodes |-> b]
  BY <1>3 DEF ListUnlink
<1>7. NodesOK(r)
  <2>1. r.entries = [k \in D \ {id} |-> s.nodes.entries[k]]
    BY <1>3 DEF TryRemove
  <2>. QED BY <1>2, <1>5, <2>1 DEF NodesOK
<1>8. /\ p \in [Keys -> [head : NodeRef, tail : NodeRef]]
      /\ p[key] = ends /\ \A k \in Keys : k # key => p[k] = s.per_key[k]
  BY <1>1, <1>4
<1> HIDE DEF r
<1>9. /\ NodesOK(a) /\ DOMAIN a.entries = D \ {id}
      /\ \A n \in D \ {id} :
            /\ a.entries[n].prev = r.entries[n].prev
            /\ a.entries[n].next = IF n = prev THEN next ELSE r.entries[n].next
            /\ SameOwner(a.entries[n], r.entries[n])
  <2>1. /\ NodesOK(a) /\ DOMAIN a.entries = DOMAIN r.entries
        /\ \A n \in DOMAIN r.entries :
              /\ a.entries[n].prev = r.entries[n].prev
              /\ a.entries[n].next = IF n = prev THEN next ELSE r.entries[n].next
              /\ SameOwner(a.entries[n], r.entries[n])
    <3> HIDE DEF prev, next
    <3>. QED BY <1>4, <1>7, SetNextWrites
  <2> HIDE DEF a, prev, next
  <2>. QED BY <1>5, <2>1
<1> HIDE DEF a
<1>10. /\ NodesOK(b) /\ DOMAIN b.entries = D \ {id}
       /\ \A n \in D \ {id} :
            /\ b.entries[n].prev = IF n = next THEN prev ELSE a.entries[n].prev
            /\ b.entries[n].next = a.entries[n].next
            /\ SameOwner(b.entries[n], a.entries[n])
  <2>1. /\ NodesOK(b) /\ DOMAIN b.entries = DOMAIN a.entries
        /\ \A n \in DOMAIN a.entries :
              /\ b.entries[n].prev = IF n = next THEN prev ELSE a.entries[n].prev
              /\ b.entries[n].next = a.entries[n].next
              /\ SameOwner(b.entries[n], a.entries[n])
    <3> HIDE DEF prev, next
    <3>. QED BY <1>4, <1>9, SetPrevWrites
  <2> HIDE DEF b, prev, next
  <2>. QED BY <1>9, <2>1
<1>11. t.per_key = p /\ t.nodes = b /\ t = [per_key |-> t.per_key, nodes |-> t.nodes]
  <2> HIDE DEF p, b, t
  <2>. QED BY <1>6
<1> HIDE DEF b, t, p
<1>12. \A n \in D \ {id} :
          /\ b.entries[n].prev = IF n = next THEN prev ELSE s.nodes.entries[n].prev
          /\ b.entries[n].next = IF n = prev THEN next ELSE s.nodes.entries[n].next
          /\ SameOwner(b.entries[n], s.nodes.entries[n])
  BY <1>5, <1>9, <1>10 DEF SameOwner
<1>13. L[key] \in Seq(NodeIds) /\ ToSet(L[key]) \in SUBSET D
       /\ WellLinked(s.per_key[key], s.nodes.entries, L[key])
  BY <1>1, <1>2
<1>14. /\ Removed(L[key], m) \in Seq(NodeIds)
       /\ ToSet(Removed(L[key], m)) = ToSet(L[key]) \ {id}
  BY <1>13, RemovedList DEF WellLinked
<1>15. /\ M \in [Keys -> Seq(NodeIds)] /\ M[key] = Removed(L[key], m)
       /\ \A k \in Keys : k # key => M[k] = L[k]
  BY <1>1, <1>14
<1> HIDE DEF M
<1>16. ends.head = (IF list.head = id THEN next ELSE list.head)
       /\ ends.tail = (IF list.tail = id THEN prev ELSE list.tail)
  OBVIOUS
<1> HIDE DEF ends
<1>17. WellLinked(ends, b.entries, Removed(L[key], m))
  <2>1. PICK c, old, e, f, new_ends :
           /\ c = L[key] /\ old = s.per_key[key] /\ e = s.nodes.entries
           /\ f = b.entries /\ new_ends = ends
    OBVIOUS
  <2>2. c \in Seq(NodeIds) /\ WellLinked(old, e, c) /\ m \in DOMAIN c /\ c[m] = id
        /\ e[id].prev = prev /\ e[id].next = next /\ old = list
    BY <1>13, <2>1
  <2>3. /\ new_ends.head = (IF old.head = id THEN next ELSE old.head)
        /\ new_ends.tail = (IF old.tail = id THEN prev ELSE old.tail)
    BY <1>16, <2>1
  <2>4. \A n \in ToSet(c) \ {id} :
           /\ n \in DOMAIN f
           /\ f[n].prev = IF n = next THEN prev ELSE e[n].prev
           /\ f[n].next = IF n = prev THEN next ELSE e[n].next
    BY <1>10, <1>12, <1>13, <2>1
  <2> HIDE DEF id, prev, next, list
  <2>5. /\ \A n \in ToSet(c) \ {c[m]} : n \in DOMAIN f
        /\ \A n \in ToSet(c) \ {c[m]} :
              /\ f[n].prev = IF n = e[c[m]].next THEN e[c[m]].prev ELSE e[n].prev
              /\ f[n].next = IF n = e[c[m]].prev THEN e[c[m]].next ELSE e[n].next
        /\ new_ends.head = IF old.head = c[m] THEN e[c[m]].next ELSE old.head
        /\ new_ends.tail = IF old.tail = c[m] THEN e[c[m]].prev ELSE old.tail
    BY <2>2, <2>3, <2>4
  <2>6. WellLinked(new_ends, f, Removed(c, m))
    BY <2>2, <2>5, LinkedShrinks
  <2>. QED BY <2>1, <2>6
<1>18. WellLinked(t.per_key[key], t.nodes.entries, M[key])
  BY <1>8, <1>11, <1>15, <1>17
<1>19. \A n \in {prev, next} : n = NoNode \/ n \in ToSet(L[key])
  <2>1. PICK l \in Nat : l = Len(L[key])
    BY <1>13
  <2>2. m \in 1 .. l /\ DOMAIN L[key] = 1 .. l
    BY <1>13, <2>1
  <2>3. /\ prev = IF m = 1 THEN NoNode ELSE L[key][m - 1]
        /\ next = IF m = l THEN NoNode ELSE L[key][m + 1]
    BY <1>13, <2>1, <2>2 DEF WellLinked
  <2>4. /\ m # 1 => m - 1 \in DOMAIN L[key]
        /\ m # l => m + 1 \in DOMAIN L[key]
    BY <2>2
  <2>5. \A i \in DOMAIN L[key] : L[key][i] \in ToSet(L[key])
    BY DEF ToSet
  <2>. QED BY <2>3, <2>4, <2>5
<1>20. ASSUME NEW k \in Keys, k # key
       PROVE  WellLinked(t.per_key[k], t.nodes.entries, M[k])
  <2>1. L[k] \in Seq(NodeIds) /\ ToSet(L[k]) \in SUBSET D
        /\ WellLinked(s.per_key[k], s.nodes.entries, L[k])
    BY <1>1, <1>2
  <2>2. \A n \in ToSet(L[k]) : n \in D /\ n # NoNode /\ n \notin ToSet(L[key])
    <3>1. \A n \in NodeIds : n # NoNode
      BY WaitersAssumption DEF NodeIds, NoNode
    <3>. QED BY <1>1, <1>2, <1>20, <2>1, <3>1
  <2>3. \A n \in ToSet(L[k]) : n # prev /\ n # next /\ n # id
    BY <1>3, <1>19, <2>2
  <2>4. \A n \in ToSet(L[k]) :
           n \in DOMAIN b.entries /\ SameLinks(s.nodes.entries[n], b.entries[n])
    BY <1>10, <1>12, <2>2, <2>3 DEF SameLinks
  <2>5. WellLinked(s.per_key[k], b.entries, L[k])
    BY <2>1, <2>4, LinkedStays
  <2>. QED BY <1>8, <1>11, <1>15, <1>20, <2>5
<1>21. \A k, l \in Keys : k # l => ToSet(M[k]) \cap ToSet(M[l]) = {}
  BY <1>1, <1>14, <1>15
<1>22. StoreOK(t, M)
  BY <1>8, <1>10, <1>11, <1>15, <1>18, <1>20, <1>21 DEF StoreOK
<1>. QED BY <1>10, <1>11, <1>12, <1>22 DEF t, M

-----------------------------------------------------------------------------
(***************************************************************************)
(* The walk from the head of a list along the next links finds the list.   *)
(***************************************************************************)
FollowingIn(entries) ==
    [n \in NodeRef |-> IF n \in DOMAIN entries THEN entries[n].next ELSE NoNode]
WalkFrom(head, entries) ==
    LET node[i \in 1 .. MaxNodes] ==
          IF i = 1 THEN head ELSE FollowingIn(entries)[node[i - 1]]
    IN node
ChainFrom(head, entries) ==
    [i \in 1 .. Cardinality({j \in 1 .. MaxNodes : WalkFrom(head, entries)[j] # NoNode}) |->
        WalkFrom(head, entries)[i]]

LEMMA ListFits ==
    ASSUME NEW c \in Seq(NodeIds), IsInjective(c)
    PROVE  Len(c) <= MaxNodes
<1>1. PICK l \in Nat : l = Len(c)
  OBVIOUS
<1>2. c \in [1 .. l -> NodeIds] /\ \A i, j \in 1 .. l : c[i] = c[j] => i = j
  BY <1>1 DEF IsInjective
<1>3. IsFiniteSet(NodeIds) /\ Cardinality(NodeIds) = MaxNodes
  <2>1. PICK m \in Int : m = MaxNodes - 1
    BY WaitersAssumption
  <2>2. IsFiniteSet(0 .. m) /\ Cardinality(0 .. m) = IF 0 > m THEN 0 ELSE m - 0 + 1
    BY FS_Interval, 0 \in Int
  <2>. QED BY <2>1, <2>2, WaitersAssumption DEF NodeIds
<1>4. IsFiniteSet(1 .. l) /\ Cardinality(1 .. l) = l
  <2>1. IsFiniteSet(1 .. l) /\ Cardinality(1 .. l) = IF 1 > l THEN 0 ELSE l - 1 + 1
    BY FS_Interval, 1 \in Int, l \in Int
  <2>. QED BY <2>1
<1>5. MaxNodes < l => FALSE
  BY <1>2, <1>3, <1>4, FS_PigeonHole
<1>. QED BY <1>1, <1>5, WaitersAssumption

LEMMA WalkFindsList ==
    ASSUME NEW ends, NEW e, DOMAIN e \in SUBSET NodeIds,
           NEW c \in Seq(NodeIds), WellLinked(ends, e, c)
    PROVE  ChainFrom(ends.head, e) = c
<1> DEFINE N == MaxNodes
           F == FollowingIn(e)
           w == WalkFrom(ends.head, e)
           R(f) == f = [i \in 1 .. N |-> IF i = 1 THEN ends.head ELSE F[f[i - 1]]]
<1>0. PICK l \in Nat : l = Len(c)
  OBVIOUS
<1>1. N \in Nat /\ l <= N /\ \A n \in NodeIds : n # NoNode
  <2>1. l <= N
    BY <1>0, ListFits DEF WellLinked
  <2>. QED BY <2>1, WaitersAssumption DEF NodeIds, NoNode
<1>2. /\ DOMAIN c = 1 .. l /\ c = [i \in 1 .. l |-> c[i]]
      /\ \A i \in 1 .. l : c[i] \in NodeIds /\ c[i] \in DOMAIN e
      /\ ends.head = IF l = 0 THEN NoNode ELSE c[1]
      /\ \A i \in 1 .. l : e[c[i]].next = IF i = l THEN NoNode ELSE c[i + 1]
  BY <1>0 DEF WellLinked, ToSet
<1>3. F[NoNode] = NoNode /\ \A i \in 1 .. l : F[c[i]] = IF i = l THEN NoNode ELSE c[i + 1]
  <2>1. NoNode \in NodeRef /\ NoNode \notin DOMAIN e
    BY <1>1 DEF NodeRef
  <2>2. \A i \in 1 .. l : c[i] \in NodeRef
    BY <1>2 DEF NodeRef
  <2>. QED BY <1>2, <2>1, <2>2 DEF FollowingIn
<1> DEFINE g == [i \in 1 .. N |-> IF i <= l THEN c[i] ELSE NoNode]
<1>4. \A i \in 1 .. N : g[i] = IF i = 1 THEN ends.head ELSE F[g[i - 1]]
  <2> SUFFICES ASSUME NEW i \in 1 .. N
               PROVE  g[i] = IF i = 1 THEN ends.head ELSE F[g[i - 1]]
    OBVIOUS
  <2>1. CASE i = 1
    BY <1>2, <2>1
  <2>2. CASE i # 1
    <3>1. i - 1 \in 1 .. N /\ i \in 1 .. N
      BY <1>1, <2>2
    <3>2. CASE i - 1 <= l
      <4>1. i - 1 \in 1 .. l /\ (i - 1) + 1 = i /\ (i - 1 = l <=> ~ (i <= l))
        BY <3>1, <3>2
      <4>2. g[i - 1] = c[i - 1]
        BY <3>1, <3>2
      <4>3. F[g[i - 1]] = IF i - 1 = l THEN NoNode ELSE c[i]
        BY <1>3, <4>1, <4>2
      <4>. QED BY <2>2, <4>1, <4>3
    <3>3. CASE ~ (i - 1 <= l)
      <4>1. g[i - 1] = NoNode /\ g[i] = NoNode
        BY <3>1, <3>3
      <4>. QED BY <1>3, <2>2, <4>1
    <3>. QED BY <3>2, <3>3
  <2>. QED BY <2>1, <2>2
<1>5. g = [i \in 1 .. N |-> g[i]] /\ \A i \in 1 .. N : g[i] = IF i <= l THEN c[i] ELSE NoNode
  OBVIOUS
<1> HIDE DEF g, F
<1>6. R(g)
  BY <1>4, <1>5
<1>7. \E f : R(f)
  BY <1>6
<1>8. R(w)
  BY <1>7 DEF WalkFrom, F
<1> HIDE DEF w
<1>9. \A i \in 1 .. N : w[i] = g[i]
  <2> DEFINE T == {i \in Nat : i \in 1 .. N => w[i] = g[i]}
  <2>1. 0 \in T
    OBVIOUS
  <2>2. ASSUME NEW i \in 1 .. N, i - 1 \in T PROVE i \in T
    <3>1. w[i] = IF i = 1 THEN ends.head ELSE F[w[i - 1]]
      BY <1>8
    <3>2. g[i] = IF i = 1 THEN ends.head ELSE F[g[i - 1]]
      BY <1>4
    <3>3. i # 1 => i - 1 \in 1 .. N
      BY <1>1
    <3>4. i # 1 => w[i - 1] = g[i - 1]
      BY <2>2, <3>3
    <3>. QED BY <1>1, <3>1, <3>2, <3>4
  <2> HIDE DEF T
  <2>3. \A i \in 1 .. N : i - 1 \in T => i \in T
    BY <2>2
  <2>4. \A i \in 0 .. N : i \in T
    BY <1>1, <2>1, <2>3, TurnByTurn
  <2>. QED BY <1>1, <2>4 DEF T
<1>10. {j \in 1 .. N : w[j] # NoNode} = 1 .. l
  <2>1. \A j \in 1 .. N : w[j] # NoNode <=> j <= l
    <3>1. \A j \in 1 .. N : j <= l => j \in 1 .. l
      OBVIOUS
    <3>. QED BY <1>1, <1>2, <1>5, <1>9, <3>1
  <2>2. \A j \in 1 .. N : j \in 1 .. l <=> j <= l
    OBVIOUS
  <2>3. \A j \in 1 .. l : j \in 1 .. N
    BY <1>1
  <2>. QED BY <2>1, <2>2, <2>3
<1>11. Cardinality(1 .. l) = l
  <2>1. Cardinality(1 .. l) = IF 1 > l THEN 0 ELSE l - 1 + 1
    BY FS_Interval, 1 \in Int, l \in Int
  <2>. QED BY <2>1
<1>12. \A i \in 1 .. l : w[i] = c[i]
  <2>1. \A i \in 1 .. l : i \in 1 .. N /\ i <= l
    BY <1>1
  <2>. QED BY <1>5, <1>9, <2>1
<1>13. ChainFrom(ends.head, e) = [i \in 1 .. l |-> w[i]]
  BY <1>10, <1>11 DEF ChainFrom, w
<1>. QED BY <1>2, <1>12, <1>13

\* The same in the states of the registry.
LEMMA ChainIs ==
    ASSUME NEW k \in Keys, DOMAIN nodes.entries \in SUBSET NodeIds,
           NEW c \in Seq(NodeIds), WellLinked(per_key[k], nodes.entries, c)
    PROVE  Chain(k) = c
<1>1. Chain(k) = ChainFrom(per_key[k].head, nodes.entries)
  BY DEF Chain, Walk, Following, ChainFrom, WalkFrom, FollowingIn
<1>. QED BY <1>1, WalkFindsList

LEMMA ChainIsNext ==
    ASSUME NEW k \in Keys, DOMAIN nodes'.entries \in SUBSET NodeIds,
           NEW c \in Seq(NodeIds), WellLinked(per_key'[k], nodes'.entries, c)
    PROVE  Chain(k)' = c
<1>1. Chain(k)' = ChainFrom(per_key'[k].head, nodes'.entries)
  BY DEF Chain, Walk, Following, ChainFrom, WalkFrom, FollowingIn
<1>. QED BY <1>1, WalkFindsList

-----------------------------------------------------------------------------
(***************************************************************************)
(* Whole selects.                                                          *)
(***************************************************************************)
Arm == [key : Keys, node_id : NodeIds]

\* A list without some nodes.
Spared(list, gone) == At(list, {i \in DOMAIN list : list[i] \notin gone})

\* The nodes of the first arms of a select.
FirstNodes(arms, j) == {arms[i].node_id : i \in 1 .. j}

\* The arms of a select have nodes of their own, each in the list of its key.
Listed(arms, L) ==
    /\ \A i, j \in DOMAIN arms : arms[i].node_id = arms[j].node_id => i = j
    /\ \A i \in DOMAIN arms : arms[i].node_id \in ToSet(L[arms[i].key])

\* t is the store s without the nodes gone.
Unlinked(s, L, gone, t) ==
    /\ StoreOK(t, [k \in Keys |-> Spared(L[k], gone)])
    /\ DOMAIN t.nodes.entries = DOMAIN s.nodes.entries \ gone
    /\ \A n \in DOMAIN t.nodes.entries :
          SameOwner(t.nodes.entries[n], s.nodes.entries[n])

LEMMA SparedAll ==
    ASSUME NEW S, NEW list \in Seq(S)
    PROVE  Spared(list, {}) = list
<1>1. {i \in DOMAIN list : list[i] \notin {}} = DOMAIN list
  OBVIOUS
<1>. QED BY <1>1, AtAll DEF Spared

LEMMA SparedNext ==
    ASSUME NEW list \in Seq(NodeIds), IsInjective(list), NEW gone,
           NEW x \in ToSet(list), x \notin gone, NEW more, more = gone \cup {x}
    PROVE  \E m \in DOMAIN Spared(list, gone) :
              /\ Spared(list, gone)[m] = x
              /\ Spared(list, more) = Removed(Spared(list, gone), m)
<1>0. PICK p \in DOMAIN list : list[p] = x
  BY DEF ToSet
<1> DEFINE P == {i \in DOMAIN list : list[i] \notin gone}
           m == Before(P, p) + 1
<1>1. P \in SUBSET Nat /\ IsFiniteSet(P)
  <2>1. P \in SUBSET DOMAIN list
    OBVIOUS
  <2>. QED BY <2>1, AtElements
<1>2. p \in P
  BY <1>0
<1>3. {i \in DOMAIN list : list[i] \notin gone \cup {x}} = P \ {p}
  BY <1>0 DEF IsInjective
<1> HIDE DEF P
<1>4. m \in DOMAIN At(list, P) /\ At(list, P)[m] = list[p]
  BY <1>1, <1>2, AtPlaces
<1>5. At(list, P \ {p}) = Removed(At(list, P), m)
  BY <1>1, <1>2, AtRemoves
<1>6. Spared(list, gone) = At(list, P) /\ Spared(list, more) = At(list, P \ {p})
  BY <1>3 DEF Spared, P
<1>. QED BY <1>0, <1>4, <1>5, <1>6

\* The loop over the arms of a select takes all its nodes out of their lists.
LEMMA SelectIsUnlinked ==
    ASSUME NEW s, NEW L, StoreOK(s, L), NEW arms \in Seq(Arm), Listed(arms, L)
    PROVE  Unlinked(s, L, {arms[i].node_id : i \in DOMAIN arms}, UnlinkArms(s, arms))
<1> DEFINE after == UnlinkTurns(s, arms)
           T == {j \in Nat : Unlinked(s, L, FirstNodes(arms, j), after[j])}
<1>0. PICK l \in Nat : l = Len(arms)
  OBVIOUS
<1>1. /\ DOMAIN arms = 1 .. l
      /\ \A i \in 1 .. l : arms[i].key \in Keys
  <2>1. DOMAIN arms = 1 .. l /\ \A i \in 1 .. l : arms[i] \in Arm
    BY <1>0
  <2>2. \A a \in Arm : a.key \in Keys
    BY DEF Arm
  <2>. QED BY <2>1, <2>2
<1>2. /\ after[0] = s
      /\ \A i \in 1 .. l : after[i] = ListUnlink(after[i - 1], arms[i].key, arms[i].node_id)
  BY <1>0, UnlinkTurnByTurn
<1>3. /\ L \in [Keys -> Seq(NodeIds)]
      /\ \A k \in Keys : IsInjective(L[k])
      /\ \A k, h \in Keys : k # h => ToSet(L[k]) \cap ToSet(L[h]) = {}
  BY DEF StoreOK, WellLinked
<1> HIDE DEF after
<1>4. 0 \in T
  <2>1. FirstNodes(arms, 0) = {}
    BY DEF FirstNodes
  <2>2. [k \in Keys |-> Spared(L[k], {})] = L
    BY <1>3, SparedAll
  <2>3. Unlinked(s, L, {}, s)
    BY <2>2 DEF Unlinked, SameOwner
  <2>. QED BY <1>2, <2>1, <2>3
<1>5. ASSUME NEW j \in 1 .. l, j - 1 \in T PROVE j \in T
  <2> DEFINE key == arms[j].key
             id == arms[j].node_id
             gone == FirstNodes(arms, j - 1)
             K == [k \in Keys |-> Spared(L[k], gone)]
             t == after[j - 1]
  <2>1. key \in Keys /\ id \in ToSet(L[key])
    BY <1>1 DEF Listed
  <2>2. id \notin gone /\ FirstNodes(arms, j) = gone \cup {id}
    <3>1. \A i \in 1 .. j - 1 : i \in DOMAIN arms /\ i # j
      BY <1>1
    <3>2. id \notin gone
      BY <1>1, <3>1 DEF FirstNodes, Listed
    <3>3. 1 .. j = (1 .. j - 1) \cup {j}
      OBVIOUS
    <3>. QED BY <3>2, <3>3 DEF FirstNodes
  <2>3. Unlinked(s, L, gone, t)
    BY <1>5
  <2>4. StoreOK(t, K)
    BY <2>3 DEF Unlinked
  <2> HIDE DEF gone, key, id, t
  <2>6. PICK m \in DOMAIN Spared(L[key], gone) :
             /\ Spared(L[key], gone)[m] = id
             /\ Spared(L[key], gone \cup {id}) = Removed(Spared(L[key], gone), m)
    <3>1. PICK list : list = L[key]
      OBVIOUS
    <3>2. list \in Seq(NodeIds) /\ IsInjective(list) /\ id \in ToSet(list)
      BY <1>3, <2>1, <3>1
    <3>3. PICK w, x, more : w = gone /\ x = id /\ more = w \cup {x}
      OBVIOUS
    <3>4. /\ list \in Seq(NodeIds) /\ IsInjective(list)
          /\ x \in ToSet(list) /\ x \notin w /\ more = w \cup {x}
      BY <2>2, <3>2, <3>3
    <3>5. \E m \in DOMAIN Spared(list, w) :
             /\ Spared(list, w)[m] = x
             /\ Spared(list, more) = Removed(Spared(list, w), m)
      <4> HIDE DEF K, T
      <4>. QED BY <3>4, SparedNext, SMTT(40)
    <3>. QED BY <3>1, <3>3, <3>5
  <2>7. m \in DOMAIN K[key] /\ K[key][m] = id
    BY <2>1, <2>6
  <2>8. after[j] = ListUnlink(t, key, id)
    BY <1>2 DEF t, key, id
  <2>9. [K EXCEPT ![key] = Removed(@, m)] = [k \in Keys |-> Spared(L[k], gone \cup {id})]
    <3>1. ASSUME NEW k \in Keys, k # key
          PROVE  Spared(L[k], gone \cup {id}) = K[k]
      <4>1. id \notin ToSet(L[k])
        BY <1>3, <2>1, <3>1
      <4>2. {i \in DOMAIN L[k] : L[k][i] \notin gone \cup {id}} =
            {i \in DOMAIN L[k] : L[k][i] \notin gone}
        BY <4>1 DEF ToSet
      <4>. QED BY <4>2 DEF Spared
    <3>2. Removed(K[key], m) = Spared(L[key], gone \cup {id})
      BY <2>1, <2>6
    <3> DEFINE G(k) == Spared(L[k], gone \cup {id})
    <3>3. /\ \A k \in Keys : k # key => G(k) = K[k]
          /\ G(key) = Removed(K[key], m)
      BY <3>1, <3>2
    <3>4. DOMAIN K = Keys /\ K = [k \in Keys |-> K[k]]
      OBVIOUS
    <3> HIDE DEF G, K
    <3>5. [K EXCEPT ![key] = Removed(@, m)] = [k \in Keys |-> G(k)]
      BY <2>1, <3>3, <3>4
    <3>. QED BY <3>5 DEF G
  <2> HIDE DEF K
  <2>10. /\ StoreOK(after[j], [K EXCEPT ![key] = Removed(@, m)])
         /\ DOMAIN after[j].nodes.entries = DOMAIN t.nodes.entries \ {id}
         /\ \A n \in DOMAIN after[j].nodes.entries :
               SameOwner(after[j].nodes.entries[n], t.nodes.entries[n])
    BY <2>1, <2>4, <2>7, <2>8, ArmIsUnlinked
  <2>11. Unlinked(s, L, gone \cup {id}, after[j])
    <3>1. /\ DOMAIN t.nodes.entries = DOMAIN s.nodes.entries \ gone
          /\ \A n \in DOMAIN t.nodes.entries :
                SameOwner(t.nodes.entries[n], s.nodes.entries[n])
      BY <2>3 DEF Unlinked
    <3>2. DOMAIN after[j].nodes.entries = DOMAIN s.nodes.entries \ (gone \cup {id})
      BY <2>10, <3>1
    <3>3. \A n \in DOMAIN after[j].nodes.entries :
             SameOwner(after[j].nodes.entries[n], s.nodes.entries[n])
      BY <2>10, <3>1 DEF SameOwner
    <3>4. StoreOK(after[j], [k \in Keys |-> Spared(L[k], gone \cup {id})])
      BY <2>9, <2>10
    <3>. QED BY <3>2, <3>3, <3>4 DEF Unlinked
  <2>12. j \in Nat
    OBVIOUS
  <2>. QED BY <2>2, <2>11, <2>12
<1> HIDE DEF T
<1>6. \A j \in 1 .. l : j - 1 \in T => j \in T
  BY <1>5
<1>7. \A j \in 0 .. l : j \in T
  BY <1>4, <1>6, TurnByTurn
<1>8. Unlinked(s, L, FirstNodes(arms, l), after[l])
  BY <1>7 DEF T
<1>9. FirstNodes(arms, l) = {arms[i].node_id : i \in DOMAIN arms}
  BY <1>1 DEF FirstNodes
<1>. QED BY <1>0, <1>8, <1>9 DEF UnlinkArms, after

\* The arms of a select that has been added: their nodes are new, and each is
\* behind the others of its key.
NodesOf(arms) == [i \in DOMAIN arms |-> arms[i].node_id]

Grown(L, arms) ==
    [k \in Keys |-> L[k] \o At(NodesOf(arms), {i \in DOMAIN arms : arms[i].key = k})]

Added(s, L, keys, j, reg_id, fiber, built) ==
    /\ built.arms \in Seq(Arm) /\ Len(built.arms) = j
    /\ \A i \in 1 .. j :
          LET id == built.arms[i].node_id
          IN /\ built.arms[i].key = keys[i]
             /\ id \notin DOMAIN s.nodes.entries
             /\ id \in DOMAIN built.store.nodes.entries
             /\ built.store.nodes.entries[id].reg_id = reg_id
             /\ built.store.nodes.entries[id].fiber_id = fiber
    /\ \A h, i \in 1 .. j : built.arms[h].node_id = built.arms[i].node_id => h = i
    /\ StoreOK(built.store, Grown(L, built.arms))
    /\ DOMAIN built.store.nodes.entries =
          DOMAIN s.nodes.entries \cup FirstNodes(built.arms, j)
    /\ Cardinality(DOMAIN built.store.nodes.entries) =
          Cardinality(DOMAIN s.nodes.entries) + j
    /\ \A n \in DOMAIN s.nodes.entries :
          SameOwner(built.store.nodes.entries[n], s.nodes.entries[n])

LEMMA AppendBehind ==
    ASSUME NEW y \in Seq(NodeIds), NEW z \in Seq(NodeIds), NEW id \in NodeIds
    PROVE  y \o Append(z, id) = Append(y \o z, id)
<1>1. <<id>> \in Seq(NodeIds)
  OBVIOUS
<1>2. PICK u \in Seq(NodeIds) : u = <<id>>
  BY <1>1, Zenon
<1>3. y \o z \in Seq(NodeIds) /\ Append(z, id) = z \o u
  BY <1>2, AppendIsConcat
<1>4. Append(y \o z, id) = (y \o z) \o u
  BY <1>2, <1>3, AppendIsConcat
<1>5. (y \o z) \o u = y \o (z \o u)
  BY ConcatAssociative
<1>. QED BY <1>3, <1>4, <1>5

\* The loop over the sources of a select adds an arm for each.
LEMMA SelectIsAdded ==
    ASSUME NEW s, NEW L, StoreOK(s, L), NEW keys \in Seq(Keys),
           Cardinality(DOMAIN s.nodes.entries) + Len(keys) <= MaxNodes,
           NEW reg_id \in RegIds, NEW fiber \in Fibers
    PROVE  Added(s, L, keys, Len(keys), reg_id, fiber, AddArms(s, keys, reg_id, fiber))
<1> DEFINE after == AddTurns(s, keys, reg_id, fiber)
           T == {j \in Nat : Added(s, L, keys, j, reg_id, fiber, after[j])}
           D == DOMAIN s.nodes.entries
<1>0. PICK l \in Nat : l = Len(keys)
  OBVIOUS
<1>1. /\ DOMAIN keys = 1 .. l /\ \A i \in 1 .. l : keys[i] \in Keys
      /\ Cardinality(D) \in Nat /\ Cardinality(D) + l <= MaxNodes /\ MaxNodes \in Nat
      /\ L \in [Keys -> Seq(NodeIds)]
  <2>1. DOMAIN keys = 1 .. l /\ \A i \in 1 .. l : keys[i] \in Keys
    BY <1>0
  <2>2. Cardinality(D) \in Nat
    BY StoreNodes
  <2>3. L \in [Keys -> Seq(NodeIds)]
    BY DEF StoreOK
  <2>. QED BY <1>0, <2>1, <2>2, <2>3, WaitersAssumption
<1>2. /\ after[0] = [store |-> s, arms |-> <<>>]
      /\ \A i \in 1 .. l : after[i] = AddArm(after[i - 1], keys[i], reg_id, fiber)
  BY <1>0, AddTurnByTurn
<1> HIDE DEF after
<1>3. 0 \in T
  <2>1. after[0].store = s /\ after[0].arms = <<>>
    BY <1>2
  <2>2. Grown(L, <<>>) = L
    <3>1. \A k \in Keys : {i \in DOMAIN <<>> : <<>>[i].key = k} = {}
      OBVIOUS
    <3>2. \A k \in Keys : L[k] \o At(NodesOf(<<>>), {}) = L[k]
      BY <1>1, AtNone, ConcatEmptySeq
    <3>. QED BY <1>1, <3>1, <3>2 DEF Grown
  <2>3. FirstNodes(<<>>, 0) = {}
    BY DEF FirstNodes
  <2>4. <<>> \in Seq(Arm) /\ Len(<<>>) = 0
    OBVIOUS
  <2>5. \A i \in 1 .. 0 : FALSE
    OBVIOUS
  <2>6. \A n \in D : SameOwner(s.nodes.entries[n], s.nodes.entries[n])
    BY DEF SameOwner
  <2>7. Added(s, L, keys, 0, reg_id, fiber, after[0])
    BY <1>1, <2>1, <2>2, <2>3, <2>4, <2>5, <2>6 DEF Added
  <2>. QED BY <2>7
<1>4. ASSUME NEW j \in 1 .. l, j - 1 \in T PROVE j \in T
  <2> DEFINE old == after[j - 1]
             new == after[j]
             id == VacantKey(old.store.nodes)
             arm == [key |-> keys[j], node_id |-> id]
             E == DOMAIN old.store.nodes.entries
  <2>0. PICK i0 \in Nat : i0 = j - 1
    OBVIOUS
  <2>1. Added(s, L, keys, i0, reg_id, fiber, old)
    BY <1>4, <2>0
  <2>2. /\ StoreOK(old.store, Grown(L, old.arms)) /\ keys[j] \in Keys
        /\ E = D \cup FirstNodes(old.arms, i0)
        /\ Cardinality(E) < MaxNodes /\ Cardinality(E) = Cardinality(D) + i0
    <3>1. /\ StoreOK(old.store, Grown(L, old.arms))
          /\ E = D \cup FirstNodes(old.arms, i0)
          /\ Cardinality(E) = Cardinality(D) + i0
      BY <2>1 DEF Added
    <3>2. PICK d \in Nat : d = Cardinality(D)
      BY <1>1
    <3>3. d + l <= MaxNodes
      BY <1>1, <3>2
    <3>4. d + i0 < MaxNodes
      BY <1>1, <2>0, <3>3
    <3>. QED BY <1>1, <3>1, <3>2, <3>4
  <2>3. new = AddArm(old, keys[j], reg_id, fiber)
    BY <1>2
  <2> HIDE DEF old, new
  <2>4. /\ id \in NodeIds \ E
        /\ new.arms = Append(old.arms, arm)
        /\ StoreOK(new.store, [Grown(L, old.arms) EXCEPT ![keys[j]] = Append(@, id)])
        /\ DOMAIN new.store.nodes.entries = E \cup {id}
        /\ new.store.nodes.entries[id].reg_id = reg_id
        /\ new.store.nodes.entries[id].fiber_id = fiber
        /\ \A n \in E : SameOwner(new.store.nodes.entries[n], old.store.nodes.entries[n])
    <3>1. PICK G : G = Grown(L, old.arms)
      OBVIOUS
    <3>2. StoreOK(old.store, G)
      BY <2>2, <3>1
    <3>3. LET next == AddArm(old, keys[j], reg_id, fiber)
          IN /\ id \in NodeIds \ E
             /\ next.arms = Append(old.arms, arm)
             /\ StoreOK(next.store, [G EXCEPT ![keys[j]] = Append(@, id)])
             /\ DOMAIN next.store.nodes.entries = E \cup {id}
             /\ next.store.nodes.entries[id].reg_id = reg_id
             /\ next.store.nodes.entries[id].fiber_id = fiber
             /\ \A n \in E :
                   SameOwner(next.store.nodes.entries[n], old.store.nodes.entries[n])
      BY <2>2, <3>2, ArmIsAdded
    <3>. QED BY <2>3, <3>1, <3>3
  <2> HIDE DEF id
  <2>5. arm \in Arm /\ arm.key = keys[j] /\ arm.node_id = id
    BY <2>2, <2>4 DEF Arm
  <2> HIDE DEF arm
  <2>6. old.arms \in Seq(Arm) /\ Len(old.arms) = i0
    BY <2>1 DEF Added
  <2>7. /\ new.arms \in Seq(Arm) /\ Len(new.arms) = j /\ new.arms[j] = arm
        /\ \A i \in 1 .. i0 : new.arms[i] = old.arms[i]
    BY <2>0, <2>4, <2>5, <2>6
  <2>8. StoreOK(new.store, Grown(L, new.arms))
    <3>1. PICK more, arms, key, a, x, G :
            /\ more = new.arms /\ arms = old.arms /\ key = keys[j] /\ a = arm
            /\ x = id /\ G = Grown(L, arms)
      OBVIOUS
    <3>2. /\ L \in [Keys -> Seq(NodeIds)] /\ arms \in Seq(Arm) /\ a \in Arm
          /\ more = Append(arms, a) /\ key = a.key /\ x = a.node_id
      BY <1>1, <2>4, <2>5, <2>6, <3>1
    <3>3. Grown(L, more) = [G EXCEPT ![key] = Append(@, x)]
      <4> HIDE DEF T, E, D
      <4>. USE <3>2
      <4> DEFINE H == Grown(L, more)
                 P(k) == {i \in DOMAIN arms : arms[i].key = k}
                 Q(k) == {i \in DOMAIN more : more[i].key = k}
      <4>0. PICK len \in Nat : len = Len(arms)
        OBVIOUS
      <4>1. a.key \in Keys /\ a.node_id \in NodeIds
            /\ \A b \in Arm : b.node_id \in NodeIds
        BY DEF Arm
      <4>2. /\ DOMAIN arms = 1 .. len /\ DOMAIN more = (1 .. len) \cup {len + 1}
            /\ more[len + 1] = a /\ \A i \in 1 .. len : more[i] = arms[i] /\ arms[i] \in Arm
        BY <4>0
      <4>3. /\ \A i \in 1 .. len : NodesOf(more)[i] = NodesOf(arms)[i]
            /\ NodesOf(more)[len + 1] = a.node_id
            /\ NodesOf(arms) \in Seq(NodeIds) /\ DOMAIN NodesOf(arms) = 1 .. len
        <5>1. \A i \in 1 .. len : NodesOf(more)[i] = more[i].node_id /\ NodesOf(arms)[i] = arms[i].node_id
          BY <4>2 DEF NodesOf
        <5>2. NodesOf(more)[len + 1] = a.node_id
          BY <4>2 DEF NodesOf
        <5>3. NodesOf(arms) = [i \in 1 .. len |-> NodesOf(arms)[i]]
          BY <4>2 DEF NodesOf
        <5>4. \A i \in 1 .. len : NodesOf(arms)[i] \in NodeIds
          BY <4>1, <4>2, <5>1
        <5> HIDE DEF NodesOf
        <5>5. NodesOf(arms) \in Seq(NodeIds)
          <6>1. PICK ids : ids = NodesOf(arms)
            OBVIOUS
          <6>2. ids = [i \in 1 .. len |-> ids[i]] /\ \A i \in 1 .. len : ids[i] \in NodeIds
            BY <5>3, <5>4, <6>1
          <6>3. ids \in [1 .. len -> NodeIds]
            BY <6>2
          <6>. QED BY <6>1, <6>3
        <5>. QED BY <4>2, <5>1, <5>2, <5>3, <5>5
      <4>4. ASSUME NEW k \in Keys
            PROVE  /\ P(k) \in SUBSET Nat /\ IsFiniteSet(P(k)) /\ P(k) \in SUBSET (1 .. len)
                   /\ At(NodesOf(arms), P(k)) \in Seq(NodeIds)
                   /\ At(NodesOf(arms), P(k)) = At(NodesOf(more), P(k))
        <5>1. P(k) \in SUBSET (1 .. len)
          BY <4>2
        <5> HIDE DEF P
        <5>2. P(k) \in SUBSET Nat /\ IsFiniteSet(P(k)) /\ At(NodesOf(arms), P(k)) \in Seq(NodeIds)
          BY <4>3, <5>1, AtElements
        <5>3. \A p \in P(k) : NodesOf(arms)[p] = NodesOf(more)[p]
          BY <4>3, <5>1
        <5>4. At(NodesOf(arms), P(k)) = At(NodesOf(more), P(k))
          BY <5>2, <5>3, AtSame
        <5>. QED BY <5>1, <5>2, <5>4
      <4>5. \A k \in Keys : /\ G[k] = L[k] \o At(NodesOf(arms), P(k))
                            /\ H[k] = L[k] \o At(NodesOf(more), Q(k))
        BY <3>1 DEF Grown
      <4>6. G = [k \in Keys |-> G[k]] /\ H = [k \in Keys |-> H[k]] /\ DOMAIN G = Keys
        BY <3>1 DEF Grown
      <4>7. ASSUME NEW k \in Keys, k # a.key PROVE H[k] = G[k]
        <5>1. Q(k) = P(k)
          <6>1. len + 1 \notin Q(k)
            BY <4>2, <4>7
          <6>. QED BY <4>2, <6>1
        <5> HIDE DEF H, P, Q
        <5>. QED BY <4>4, <4>5, <5>1
      <4>8. H[a.key] = Append(G[a.key], a.node_id)
        <5> DEFINE k == a.key
                   new_nodes == At(NodesOf(arms), P(k))
        <5>0. k \in Keys
          BY <4>1
        <5>1. Q(k) = P(k) \cup {len + 1}
          BY <4>2
        <5>2. \A p \in P(k) : p < len + 1
          BY <4>2
        <5> HIDE DEF H, P, Q, k
        <5>3. At(NodesOf(more), P(k) \cup {len + 1}) =
                 Append(At(NodesOf(more), P(k)), NodesOf(more)[len + 1])
          BY <4>4, <5>0, <5>2, len + 1 \in Nat, AtAppends
        <5>4. H[k] = L[k] \o Append(new_nodes, a.node_id) /\ new_nodes \in Seq(NodeIds) /\ G[k] = L[k] \o new_nodes
          BY <4>3, <4>4, <4>5, <5>0, <5>1, <5>3
        <5> HIDE DEF new_nodes
        <5>5. L[k] \o Append(new_nodes, a.node_id) = Append(L[k] \o new_nodes, a.node_id)
          <6>0. PICK z \in Seq(NodeIds) : z = new_nodes
            BY <5>4
          <6>1. PICK y \in Seq(NodeIds) : y = L[k]
            BY <5>0
          <6>2. PICK new_id \in NodeIds : new_id = a.node_id
            BY <4>1
          <6>3. y \o Append(z, new_id) = Append(y \o z, new_id)
            <7> HIDE <3>2
            <7>. QED BY AppendBehind
          <6>. QED BY <6>0, <6>1, <6>2, <6>3
        <5>. QED BY <5>4, <5>5 DEF k
      <4> HIDE DEF H
      <4>9. H = [G EXCEPT ![a.key] = Append(@, a.node_id)]
        BY <4>1, <4>6, <4>7, <4>8
      <4>. QED BY <4>9 DEF H
    <3>. QED BY <2>4, <3>1, <3>3
  <2>9. 1 .. j = (1 .. i0) \cup {j} /\ j \notin 1 .. i0
    BY <2>0
  <2>10. FirstNodes(new.arms, j) = FirstNodes(old.arms, i0) \cup {id}
    <3>1. FirstNodes(new.arms, j) = {new.arms[i].node_id : i \in (1 .. i0) \cup {j}}
      BY <2>9 DEF FirstNodes
    <3>2. \A i \in 1 .. i0 : new.arms[i].node_id = old.arms[i].node_id
      BY <2>7
    <3>3. new.arms[j].node_id = id
      BY <2>5, <2>7
    <3>. QED BY <3>1, <3>2, <3>3 DEF FirstNodes
  <2>11. DOMAIN new.store.nodes.entries = D \cup FirstNodes(new.arms, j)
    BY <2>2, <2>4, <2>10
  <2>12. Cardinality(DOMAIN new.store.nodes.entries) = Cardinality(D) + j
    <3>1. IsFiniteSet(E)
      BY <2>2, StoreNodes
    <3>2. Cardinality(E \cup {id}) = Cardinality(E) + 1
      BY <2>4, <3>1, FS_AddElement
    <3>. QED BY <1>1, <2>0, <2>2, <2>4, <3>2
  <2>13. \A n \in D : SameOwner(new.store.nodes.entries[n], s.nodes.entries[n])
    <3>1. \A n \in D : n \in E /\ SameOwner(old.store.nodes.entries[n], s.nodes.entries[n])
      BY <2>1, <2>2 DEF Added
    <3>. QED BY <2>4, <3>1 DEF SameOwner
  <2>14. \A i \in 1 .. i0 : /\ old.arms[i].node_id \in E /\ old.arms[i].node_id \notin D
                            /\ old.arms[i].key = keys[i]
                            /\ old.store.nodes.entries[old.arms[i].node_id].reg_id = reg_id
                            /\ old.store.nodes.entries[old.arms[i].node_id].fiber_id = fiber
    BY <2>1 DEF Added
  <2>15. ASSUME NEW i \in 1 .. j
         PROVE  /\ new.arms[i].key = keys[i]
                /\ new.arms[i].node_id \notin D
                /\ new.arms[i].node_id \in DOMAIN new.store.nodes.entries
                /\ new.store.nodes.entries[new.arms[i].node_id].reg_id = reg_id
                /\ new.store.nodes.entries[new.arms[i].node_id].fiber_id = fiber
    <3>1. CASE i = j
      BY <2>2, <2>4, <2>5, <2>7, <3>1
    <3>2. CASE i \in 1 .. i0
      <4>1. PICK n : n = old.arms[i].node_id
        OBVIOUS
      <4>2. new.arms[i] = old.arms[i] /\ new.arms[i].node_id = n
        BY <2>7, <3>2, <4>1
      <4>3. /\ n \in E /\ n \notin D /\ old.arms[i].key = keys[i]
            /\ old.store.nodes.entries[n].reg_id = reg_id
            /\ old.store.nodes.entries[n].fiber_id = fiber
        BY <2>14, <3>2, <4>1
      <4>4. SameOwner(new.store.nodes.entries[n], old.store.nodes.entries[n])
        BY <2>4, <4>3
      <4>. QED BY <2>4, <4>2, <4>3, <4>4 DEF SameOwner
    <3>. QED BY <2>9, <3>1, <3>2
  <2>16. \A h, i \in 1 .. j : new.arms[h].node_id = new.arms[i].node_id => h = i
    <3>1. \A h, i \in 1 .. i0 : old.arms[h].node_id = old.arms[i].node_id => h = i
      BY <2>1 DEF Added
    <3>2. \A i \in 1 .. i0 : new.arms[i].node_id # id
      BY <2>4, <2>7, <2>14
    <3>. QED BY <2>5, <2>7, <2>9, <3>1, <3>2
  <2>17. Added(s, L, keys, j, reg_id, fiber, new)
    BY <2>7, <2>8, <2>11, <2>12, <2>13, <2>15, <2>16 DEF Added
  <2>. QED BY <2>17 DEF new
<1> HIDE DEF T
<1>5. \A j \in 1 .. l : j - 1 \in T => j \in T
  BY <1>4
<1>6. \A j \in 0 .. l : j \in T
  BY <1>3, <1>5, TurnByTurn
<1>7. Added(s, L, keys, l, reg_id, fiber, after[l])
  BY <1>6 DEF T
<1>. QED BY <1>0, <1>7 DEF AddArms, after

-----------------------------------------------------------------------------
(***************************************************************************)
(* The invariant.  The slabs hand out no key in use, a fiber has one       *)
(* select, the lists are linked and hold the nodes of the arms of live     *)
(* selects, and every node is owned by one arm.                            *)
(***************************************************************************)
Lists == [k \in Keys |-> Chain(k)]

RegsOK ==
    /\ SlabOK(regs, Cardinality(Fibers))
    /\ \A r \in DOMAIN regs.entries :
          regs.entries[r] \in [fiber_id : Fibers, arms : Seq(Arm)]
    /\ \A q, r \in DOMAIN regs.entries :
          regs.entries[q].fiber_id = regs.entries[r].fiber_id => q = r

RegistryInv ==
    /\ StoreOK(Store, Lists)
    /\ RegsOK
    /\ \A k \in Keys : ToSet(Chain(k)) = NodesFor(k)
    /\ NodesOwned
    /\ panicked = FALSE

\* What the invariant says about one registration.
LEMMA RegistrationFacts ==
    ASSUME RegistryInv, NEW r \in DOMAIN regs.entries
    PROVE  /\ ArmsOf(r) \in Seq(Arm) /\ regs.entries[r].fiber_id \in Fibers
           /\ r \in RegIds
<1>1. regs.entries[r] \in [fiber_id : Fibers, arms : Seq(Arm)]
  BY DEF RegistryInv, RegsOK
<1>2. SlabOK(regs, Cardinality(Fibers)) /\ Cardinality(Fibers) \in Nat
  BY WaitersAssumption, FS_CardinalityType DEF RegistryInv, RegsOK
<1>3. r \in RegIds
  BY <1>2, SlabKeys DEF RegIds
<1>. QED BY <1>1, <1>3 DEF ArmsOf

\* The lists of the next state are those its store has been shown to have.
LEMMA NextLists ==
    ASSUME NEW M, StoreOK(Store', M)
    PROVE  /\ Lists' = M /\ StoreOK(Store, Lists)'
           /\ \A k \in Keys : Chain(k)' = M[k]
<1>1. Store' = [per_key |-> per_key', nodes |-> nodes']
  BY DEF Store
<1>2. Store'.per_key = per_key' /\ Store'.nodes = nodes'
  BY <1>1
<1>3. /\ DOMAIN nodes'.entries \in SUBSET NodeIds
      /\ M \in [Keys -> Seq(NodeIds)]
      /\ \A k \in Keys : WellLinked(per_key'[k], nodes'.entries, M[k])
  BY <1>2, StoreNodes DEF StoreOK
<1>4. \A k \in Keys : Chain(k)' = M[k]
  BY <1>3, ChainIsNext
<1>5. Lists' = [k \in Keys |-> Chain(k)']
  BY DEF Lists
<1>6. Lists' = M
  BY <1>3, <1>4, <1>5
<1>7. StoreOK(Store, Lists)' <=> StoreOK(Store', Lists')
  BY DEF StoreOK, NodesOK, SlabOK, WellLinked, IsInjective, ToSet
<1>. QED BY <1>4, <1>6, <1>7

\* The nodes of a select.
Gone(r) == {ArmsOf(r)[i].node_id : i \in DOMAIN ArmsOf(r)}

\* They are the nodes that name it.
LEMMA GoneOwned ==
    ASSUME RegistryInv, NEW r \in DOMAIN regs.entries
    PROVE  \A n \in DOMAIN nodes.entries : n \in Gone(r) <=> nodes.entries[n].reg_id = r
  BY DEF RegistryInv, NodesOwned, Gone

\* wake_one and cancel withdraw a select.
Withdraws(r) ==
    /\ per_key' = UnlinkArms(Store, ArmsOf(r)).per_key
    /\ nodes' = UnlinkArms(Store, ArmsOf(r)).nodes
    /\ regs' = TryRemove(regs, r)
    /\ UNCHANGED panicked

LEMMA SelectGoes ==
    ASSUME RegistryInv, NEW r \in DOMAIN regs.entries, Withdraws(r)
    PROVE  /\ StoreOK(Store, Lists)'
           /\ \A k \in Keys : Chain(k)' = Spared(Chain(k), Gone(r))
           /\ DOMAIN nodes'.entries = DOMAIN nodes.entries \ Gone(r)
           /\ \A n \in DOMAIN nodes'.entries :
                 SameOwner(nodes'.entries[n], nodes.entries[n])
           /\ DOMAIN regs'.entries = DOMAIN regs.entries \ {r}
           /\ \A q \in DOMAIN regs'.entries : regs'.entries[q] = regs.entries[q]
           /\ SlabOK(regs', Cardinality(Fibers))
<1>1. StoreOK(Store, Lists) /\ NodesOwned /\ SlabOK(regs, Cardinality(Fibers))
  BY DEF RegistryInv, RegsOK
<1>2. PICK arms \in Seq(Arm) : arms = ArmsOf(r)
  BY RegistrationFacts
<1>3. Listed(arms, Lists)
  <2>1. \A i, j \in DOMAIN arms : arms[i].node_id = arms[j].node_id => i = j
    BY <1>1, <1>2 DEF NodesOwned
  <2>2. ASSUME NEW i \in DOMAIN arms
        PROVE  arms[i].node_id \in ToSet(Lists[arms[i].key])
    <3>1. arms[i].key \in Keys
      <4>1. arms[i] \in Arm
        OBVIOUS
      <4>. QED BY <4>1 DEF Arm
    <3>2. arms[i].node_id \in NodesFor(arms[i].key)
      BY <1>2 DEF NodesFor
    <3>. QED BY <3>1, <3>2 DEF RegistryInv, Lists
  <2>. QED BY <2>1, <2>2 DEF Listed
<1>4. Unlinked(Store, Lists, {arms[i].node_id : i \in DOMAIN arms}, UnlinkArms(Store, arms))
  BY <1>1, <1>3, SelectIsUnlinked
<1>5. Unlinked(Store, Lists, Gone(r), Store')
  <2>1. PICK left : left = UnlinkArms(Store, arms)
    OBVIOUS
  <2>2. left = [per_key |-> left.per_key, nodes |-> left.nodes]
    BY <1>4, <2>1 DEF Unlinked, StoreOK
  <2>3. Store' = [per_key |-> per_key', nodes |-> nodes']
    BY DEF Store
  <2>4. Store' = left
    BY <1>2, <2>1, <2>2, <2>3 DEF Withdraws
  <2>. QED BY <1>2, <1>4, <2>1, <2>4 DEF Gone
<1>6. Store.nodes = nodes /\ Store'.nodes = nodes'
  BY DEF Store
<1>7. /\ StoreOK(Store', [k \in Keys |-> Spared(Lists[k], Gone(r))])
      /\ DOMAIN nodes'.entries = DOMAIN nodes.entries \ Gone(r)
      /\ \A n \in DOMAIN nodes'.entries : SameOwner(nodes'.entries[n], nodes.entries[n])
  BY <1>5, <1>6 DEF Unlinked
<1>8. /\ DOMAIN regs'.entries = DOMAIN regs.entries \ {r}
      /\ \A q \in DOMAIN regs'.entries : regs'.entries[q] = regs.entries[q]
      /\ SlabOK(regs', Cardinality(Fibers))
  <2>1. Cardinality(Fibers) \in Nat
    BY WaitersAssumption, FS_CardinalityType
  <2>. QED BY <1>1, <2>1, RemoveKeeps DEF Withdraws
<1>9. StoreOK(Store, Lists)' /\ \A k \in Keys : Chain(k)' = Spared(Lists[k], Gone(r))
  <2>1. PICK M : M = [k \in Keys |-> Spared(Lists[k], Gone(r))]
    OBVIOUS
  <2>2. StoreOK(Store', M)
    BY <1>7, <2>1
  <2>3. StoreOK(Store, Lists)' /\ \A k \in Keys : Chain(k)' = M[k]
    BY <2>2, NextLists
  <2>. QED BY <2>1, <2>3
<1>10. \A k \in Keys : Lists[k] = Chain(k)
  BY DEF Lists
<1>. QED BY <1>7, <1>8, <1>9, <1>10

LEMMA WithdrawKeepsInv ==
    ASSUME RegistryInv, NEW r \in DOMAIN regs.entries, Withdraws(r)
    PROVE  RegistryInv'
<1>1. /\ StoreOK(Store, Lists)'
      /\ \A k \in Keys : Chain(k)' = Spared(Chain(k), Gone(r))
      /\ DOMAIN nodes'.entries = DOMAIN nodes.entries \ Gone(r)
      /\ \A n \in DOMAIN nodes'.entries : SameOwner(nodes'.entries[n], nodes.entries[n])
      /\ DOMAIN regs'.entries = DOMAIN regs.entries \ {r}
      /\ \A q \in DOMAIN regs'.entries : regs'.entries[q] = regs.entries[q]
      /\ SlabOK(regs', Cardinality(Fibers))
  BY SelectGoes
<1>2. RegsOK'
  <2>1. \A q \in DOMAIN regs'.entries :
           q \in DOMAIN regs.entries /\ regs'.entries[q] = regs.entries[q]
    BY <1>1
  <2>2. SlabOK(regs, Cardinality(Fibers))'
    BY <1>1 DEF SlabOK, IsInjective, ToSet
  <2>. QED BY <2>1, <2>2 DEF RegistryInv, RegsOK
<1>3. \A q \in DOMAIN regs'.entries :
         q \in DOMAIN regs.entries /\ q # r /\ ArmsOf(q)' = ArmsOf(q)
         /\ regs'.entries[q].fiber_id = regs.entries[q].fiber_id
  BY <1>1 DEF ArmsOf
<1>4. \A q \in DOMAIN regs'.entries : \A i \in DOMAIN ArmsOf(q) :
         /\ ArmsOf(q)[i].node_id \in DOMAIN nodes.entries
         /\ nodes.entries[ArmsOf(q)[i].node_id].reg_id = q
         /\ ArmsOf(q)[i].node_id \notin Gone(r)
  <2>1. \A q \in DOMAIN regs.entries : \A i \in DOMAIN ArmsOf(q) :
         /\ ArmsOf(q)[i].node_id \in DOMAIN nodes.entries
         /\ nodes.entries[ArmsOf(q)[i].node_id].reg_id = q
    BY DEF RegistryInv, NodesOwned
  <2>. QED BY <1>3, <2>1, GoneOwned
<1>5. ASSUME NEW k \in Keys PROVE (ToSet(Chain(k)) = NodesFor(k))'
  <2>1. Chain(k) \in Seq(NodeIds) /\ ToSet(Chain(k)) = NodesFor(k)
    BY DEF RegistryInv, StoreOK, Lists
  <2>2. PICK c \in Seq(NodeIds) : c = Chain(k)
    BY <2>1
  <2>3. ToSet(Spared(c, Gone(r))) = ToSet(c) \ Gone(r)
    <3> DEFINE P == {i \in DOMAIN c : c[i] \notin Gone(r)}
    <3>1. P \in SUBSET DOMAIN c
      OBVIOUS
    <3>2. ToSet(At(c, P)) = {c[i] : i \in P}
      BY <3>1, AtElements
    <3>3. {c[i] : i \in P} = ToSet(c) \ Gone(r)
      BY DEF ToSet
    <3>. QED BY <3>2, <3>3 DEF Spared
  <2>4. ToSet(Chain(k)') = NodesFor(k) \ Gone(r)
    BY <1>1, <2>1, <2>2, <2>3
  <2>5. NodesFor(k)' =
          UNION {{ArmsOf(q)[i].node_id : i \in {j \in DOMAIN ArmsOf(q) : ArmsOf(q)[j].key = k}} :
                    q \in DOMAIN regs'.entries}
    BY <1>3 DEF NodesFor
  <2>6. \A n \in NodesFor(k)' : n \in NodesFor(k) \ Gone(r)
    BY <1>3, <1>4, <2>5 DEF NodesFor
  <2>7. \A n \in NodesFor(k) \ Gone(r) : n \in NodesFor(k)'
    <3> SUFFICES ASSUME NEW n \in NodesFor(k), n \notin Gone(r) PROVE n \in NodesFor(k)'
      OBVIOUS
    <3>1. PICK q \in DOMAIN regs.entries : \E i \in DOMAIN ArmsOf(q) :
             ArmsOf(q)[i].key = k /\ n = ArmsOf(q)[i].node_id
      BY DEF NodesFor
    <3>2. q # r
      BY <3>1 DEF Gone
    <3>. QED BY <1>1, <2>5, <3>1, <3>2
  <2>8. ToSet(Chain(k))' = ToSet(Chain(k)')
    BY DEF ToSet
  <2>. QED BY <2>4, <2>6, <2>7, <2>8
<1>6. NodesOwned'
  <2>1. \A q \in DOMAIN regs'.entries : \A i, j \in DOMAIN ArmsOf(q)' :
           ArmsOf(q)'[i].node_id = ArmsOf(q)'[j].node_id => i = j
    BY <1>3 DEF RegistryInv, NodesOwned
  <2>2. ASSUME NEW q \in DOMAIN regs'.entries, NEW i \in DOMAIN ArmsOf(q)'
        PROVE  /\ ArmsOf(q)'[i].node_id \in DOMAIN nodes'.entries
               /\ nodes'.entries[ArmsOf(q)'[i].node_id].reg_id = q
               /\ nodes'.entries[ArmsOf(q)'[i].node_id].fiber_id = regs'.entries[q].fiber_id
    <3>1. PICK n : n = ArmsOf(q)[i].node_id
      OBVIOUS
    <3>2. ArmsOf(q)' = ArmsOf(q) /\ q \in DOMAIN regs.entries
      BY <1>3
    <3>3. n \in DOMAIN nodes.entries /\ nodes.entries[n].reg_id = q /\ n \notin Gone(r)
      BY <1>4, <3>1, <3>2
    <3>4. nodes.entries[n].fiber_id = regs.entries[q].fiber_id
      BY <3>1, <3>2 DEF RegistryInv, NodesOwned
    <3>5. n \in DOMAIN nodes'.entries /\ SameOwner(nodes'.entries[n], nodes.entries[n])
      BY <1>1, <3>3
    <3>. QED BY <1>3, <3>1, <3>2, <3>3, <3>4, <3>5 DEF SameOwner
  <2>3. ASSUME NEW n \in DOMAIN nodes'.entries
        PROVE  /\ nodes'.entries[n].reg_id \in DOMAIN regs'.entries
               /\ \E i \in DOMAIN regs'.entries[nodes'.entries[n].reg_id].arms :
                     regs'.entries[nodes'.entries[n].reg_id].arms[i].node_id = n
    <3>1. PICK q : q = nodes.entries[n].reg_id
      OBVIOUS
    <3>2. n \in DOMAIN nodes.entries /\ n \notin Gone(r) /\ nodes'.entries[n].reg_id = q
      BY <1>1, <3>1 DEF SameOwner
    <3>3. q # r
      BY <3>1, <3>2, GoneOwned
    <3>4. q \in DOMAIN regs.entries /\ \E i \in DOMAIN ArmsOf(q) : ArmsOf(q)[i].node_id = n
      BY <3>1, <3>2 DEF RegistryInv, NodesOwned
    <3>5. q \in DOMAIN regs'.entries
      BY <1>1, <3>3, <3>4
    <3>6. regs'.entries[q].arms = ArmsOf(q)
      BY <1>3, <3>5 DEF ArmsOf
    <3>. QED BY <3>2, <3>4, <3>5, <3>6
  <2>4. \A q : ArmsOf(q)' = regs'.entries[q].arms
    BY DEF ArmsOf
  <2>5. \A q \in DOMAIN regs'.entries :
          /\ \A i, j \in DOMAIN regs'.entries[q].arms :
                regs'.entries[q].arms[i].node_id = regs'.entries[q].arms[j].node_id => i = j
          /\ \A i \in DOMAIN regs'.entries[q].arms :
                LET id == regs'.entries[q].arms[i].node_id
                IN /\ id \in DOMAIN nodes'.entries
                   /\ nodes'.entries[id].reg_id = q
                   /\ nodes'.entries[id].fiber_id = regs'.entries[q].fiber_id
    BY <2>1, <2>2, <2>4
  <2>. QED BY <2>3, <2>5 DEF NodesOwned, ArmsOf
<1>7. panicked' = FALSE
  BY DEF RegistryInv, Withdraws
<1>. QED BY <1>1, <1>2, <1>5, <1>6, <1>7 DEF RegistryInv

\* register_select finds a free id: a fiber has at most one select.
LEMMA RegIdVacant ==
    ASSUME RegistryInv, NEW fiber \in Fibers,
           \A r \in DOMAIN regs.entries : regs.entries[r].fiber_id # fiber
    PROVE  Cardinality(DOMAIN regs.entries) < Cardinality(Fibers)
<1> DEFINE D == DOMAIN regs.entries
           F == Fibers \ {fiber}
           g == [r \in D |-> regs.entries[r].fiber_id]
<1>1. /\ IsFiniteSet(F) /\ Cardinality(F) = Cardinality(Fibers) - 1
      /\ Cardinality(Fibers) \in Nat /\ Cardinality(F) \in Nat
  BY WaitersAssumption, FS_RemoveElement, FS_CardinalityType
<1>2. IsFiniteSet(D) /\ Cardinality(D) \in Nat
  BY <1>1, SlabKeys DEF RegistryInv, RegsOK
<1>3. g \in [D -> F]
  BY RegistrationFacts
<1>4. \A q, r \in D : g[q] = g[r] => q = r
  BY DEF RegistryInv, RegsOK
<1> HIDE DEF D, F, g
<1>5. ~ (Cardinality(F) < Cardinality(D))
  BY <1>1, <1>2, <1>3, <1>4, FS_PigeonHole
<1>. QED BY <1>1, <1>2, <1>5 DEF D

\* register_select adds a select.
Enters(fiber, keys, r, arms) ==
    /\ per_key' = AddArms(Store, keys, r, fiber).store.per_key
    /\ nodes' = AddArms(Store, keys, r, fiber).store.nodes
    /\ arms = AddArms(Store, keys, r, fiber).arms
    /\ r = VacantKey(regs)
    /\ regs' = Insert(regs, [fiber_id |-> fiber, arms |-> arms])
    /\ UNCHANGED panicked

\* Its arms get nodes that were vacant and now name it.
TakesNodes(fiber, keys, r, arms) ==
    \A i \in 1 .. Len(keys) :
        /\ arms[i].key = keys[i]
        /\ arms[i].node_id \notin DOMAIN nodes.entries
        /\ arms[i].node_id \in DOMAIN nodes'.entries
        /\ nodes'.entries[arms[i].node_id].reg_id = r
        /\ nodes'.entries[arms[i].node_id].fiber_id = fiber

LEMMA SelectComes ==
    ASSUME RegistryInv, NEW fiber \in Fibers, NEW keys \in Seq(Keys), NEW r, NEW arms,
           \A q \in DOMAIN regs.entries : regs.entries[q].fiber_id # fiber,
           Cardinality(DOMAIN nodes.entries) + Len(keys) <= MaxNodes,
           Enters(fiber, keys, r, arms)
    PROVE  /\ r \in RegIds /\ r \notin DOMAIN regs.entries
           /\ StoreOK(Store, Lists)'
           /\ \A k \in Keys : Chain(k)' = Grown(Lists, arms)[k]
           /\ arms \in Seq(Arm) /\ Len(arms) = Len(keys)
           /\ TakesNodes(fiber, keys, r, arms)
           /\ \A h, i \in 1 .. Len(keys) : arms[h].node_id = arms[i].node_id => h = i
           /\ DOMAIN nodes'.entries = DOMAIN nodes.entries \cup FirstNodes(arms, Len(keys))
           /\ \A n \in DOMAIN nodes.entries :
                 SameOwner(nodes'.entries[n], nodes.entries[n])
           /\ DOMAIN regs'.entries = DOMAIN regs.entries \cup {r}
           /\ regs'.entries[r] = [fiber_id |-> fiber, arms |-> arms]
           /\ \A q \in DOMAIN regs.entries : regs'.entries[q] = regs.entries[q]
           /\ SlabOK(regs', Cardinality(Fibers))
<1>1. StoreOK(Store, Lists) /\ SlabOK(regs, Cardinality(Fibers)) /\ Cardinality(Fibers) \in Nat
  BY WaitersAssumption, FS_CardinalityType DEF RegistryInv, RegsOK
<1>2. Cardinality(DOMAIN regs.entries) < Cardinality(Fibers)
  BY RegIdVacant
<1>3. /\ r \in RegIds /\ r \notin DOMAIN regs.entries
      /\ DOMAIN regs'.entries = DOMAIN regs.entries \cup {r}
      /\ regs'.entries[r] = [fiber_id |-> fiber, arms |-> arms]
      /\ \A q \in DOMAIN regs.entries : regs'.entries[q] = regs.entries[q]
      /\ SlabOK(regs', Cardinality(Fibers))
  <2>1. PICK value : value = [fiber_id |-> fiber, arms |-> arms]
    OBVIOUS
  <2>2. LET key == VacantKey(regs)
            new == Insert(regs, value)
        IN /\ key \in (0 .. Cardinality(Fibers) - 1) \ DOMAIN regs.entries
           /\ DOMAIN new.entries = DOMAIN regs.entries \cup {key}
           /\ new.entries[key] = value
           /\ \A k \in DOMAIN regs.entries : new.entries[k] = regs.entries[k]
           /\ SlabOK(new, Cardinality(Fibers))
    BY <1>1, <1>2, InsertKeeps
  <2>3. r = VacantKey(regs) /\ regs' = Insert(regs, value)
    BY <2>1 DEF Enters
  <2>. QED BY <2>1, <2>2, <2>3 DEF RegIds
<1>4. Store.nodes = nodes /\ Store'.nodes = nodes'
  BY DEF Store
<1>5. PICK built : built = AddArms(Store, keys, r, fiber)
  OBVIOUS
<1>6. Added(Store, Lists, keys, Len(keys), r, fiber, built)
  BY <1>1, <1>3, <1>4, <1>5, SelectIsAdded
<1>7. built.store = Store' /\ built.store.nodes = nodes' /\ built.arms = arms
  <2>1. built.store = [per_key |-> built.store.per_key, nodes |-> built.store.nodes]
    BY <1>6 DEF Added, StoreOK
  <2>2. Store' = [per_key |-> per_key', nodes |-> nodes']
    BY DEF Store
  <2>3. per_key' = built.store.per_key /\ nodes' = built.store.nodes /\ built.arms = arms
    BY <1>5 DEF Enters
  <2>. QED BY <2>1, <2>2, <2>3
<1>8. /\ arms \in Seq(Arm) /\ Len(arms) = Len(keys)
      /\ \A h, i \in 1 .. Len(keys) : arms[h].node_id = arms[i].node_id => h = i
      /\ StoreOK(Store', Grown(Lists, arms))
      /\ DOMAIN nodes'.entries = DOMAIN nodes.entries \cup FirstNodes(arms, Len(keys))
      /\ \A n \in DOMAIN nodes.entries : SameOwner(nodes'.entries[n], nodes.entries[n])
  BY <1>4, <1>6, <1>7 DEF Added
<1>9. TakesNodes(fiber, keys, r, arms)
  BY <1>4, <1>6, <1>7 DEF Added, TakesNodes
<1>10. StoreOK(Store, Lists)' /\ \A k \in Keys : Chain(k)' = Grown(Lists, arms)[k]
  <2>1. PICK M : M = Grown(Lists, arms)
    OBVIOUS
  <2>2. StoreOK(Store', M)
    BY <1>8, <2>1
  <2>3. StoreOK(Store, Lists)' /\ \A k \in Keys : Chain(k)' = M[k]
    BY <2>2, NextLists
  <2>. QED BY <2>1, <2>3
<1>. QED BY <1>3, <1>8, <1>9, <1>10

\* The nodes a list has grown by.
LEMMA GrownNodes ==
    ASSUME NEW L \in [Keys -> Seq(NodeIds)], NEW arms \in Seq(Arm), NEW k \in Keys
    PROVE  ToSet(Grown(L, arms)[k]) =
              ToSet(L[k]) \cup {arms[i].node_id : i \in {j \in DOMAIN arms : arms[j].key = k}}
<1> DEFINE P == {j \in DOMAIN arms : arms[j].key = k}
<1>0. PICK l \in Nat : l = Len(arms)
  OBVIOUS
<1>1. DOMAIN arms = 1 .. l /\ \A i \in 1 .. l : arms[i].node_id \in NodeIds
  <2>1. DOMAIN arms = 1 .. l /\ \A i \in 1 .. l : arms[i] \in Arm
    BY <1>0
  <2>. QED BY <2>1 DEF Arm
<1>2. PICK ids \in [1 .. l -> NodeIds] : ids = NodesOf(arms)
  BY <1>1 DEF NodesOf
<1>3. ids \in Seq(NodeIds) /\ P \in SUBSET DOMAIN ids
  BY <1>1
<1>4. \A i \in DOMAIN arms : ids[i] = arms[i].node_id
  BY <1>2 DEF NodesOf
<1>5. At(ids, P) \in Seq(NodeIds) /\ ToSet(At(ids, P)) = {ids[i] : i \in P}
  <2> HIDE DEF P
  <2>. QED BY <1>3, AtElements
<1>6. {ids[i] : i \in P} = {arms[i].node_id : i \in P}
  BY <1>4
<1>7. Grown(L, arms)[k] = L[k] \o At(ids, P)
  BY <1>2 DEF Grown
<1>8. PICK x \in Seq(NodeIds), y \in Seq(NodeIds) : x = L[k] /\ y = At(ids, P)
  BY <1>5
<1>9. ToSet(x \o y) = ToSet(x) \cup ToSet(y)
  <2>1. PICK m \in Nat, n \in Nat : m = Len(x) /\ n = Len(y)
    OBVIOUS
  <2>2. /\ DOMAIN x = 1 .. m /\ DOMAIN y = 1 .. n /\ DOMAIN (x \o y) = 1 .. m + n
        /\ \A i \in 1 .. m : (x \o y)[i] = x[i]
        /\ \A i \in 1 .. n : (x \o y)[m + i] = y[i]
    BY <2>1
  <2>3. \A i \in 1 .. m : i \in 1 .. m + n
    OBVIOUS
  <2>4. \A i \in 1 .. n : m + i \in 1 .. m + n
    OBVIOUS
  <2>5. \A i \in 1 .. m + n : i \in 1 .. m \/ (i - m \in 1 .. n /\ i = m + (i - m))
    OBVIOUS
  <2>6. \A v \in ToSet(x \o y) : v \in ToSet(x) \cup ToSet(y)
    BY <2>2, <2>5 DEF ToSet
  <2>7. \A v \in ToSet(x) \cup ToSet(y) : v \in ToSet(x \o y)
    BY <2>2, <2>3, <2>4 DEF ToSet
  <2>. QED BY <2>6, <2>7
<1>. QED BY <1>5, <1>6, <1>7, <1>8, <1>9

LEMMA EnterKeepsInv ==
    ASSUME RegistryInv, NEW fiber \in Fibers, NEW keys \in Seq(Keys), NEW r, NEW arms,
           \A q \in DOMAIN regs.entries : regs.entries[q].fiber_id # fiber,
           Cardinality(DOMAIN nodes.entries) + Len(keys) <= MaxNodes,
           Enters(fiber, keys, r, arms)
    PROVE  RegistryInv'
<1>0. PICK l \in Nat : l = Len(keys)
  OBVIOUS
<1>1. /\ r \in RegIds /\ r \notin DOMAIN regs.entries
      /\ StoreOK(Store, Lists)'
      /\ \A k \in Keys : Chain(k)' = Grown(Lists, arms)[k]
      /\ arms \in Seq(Arm) /\ Len(arms) = l /\ DOMAIN arms = 1 .. l
      /\ \A h, i \in 1 .. l : arms[h].node_id = arms[i].node_id => h = i
      /\ DOMAIN nodes'.entries = DOMAIN nodes.entries \cup FirstNodes(arms, l)
      /\ \A n \in DOMAIN nodes.entries : SameOwner(nodes'.entries[n], nodes.entries[n])
      /\ DOMAIN regs'.entries = DOMAIN regs.entries \cup {r}
      /\ regs'.entries[r] = [fiber_id |-> fiber, arms |-> arms]
      /\ \A q \in DOMAIN regs.entries : regs'.entries[q] = regs.entries[q]
      /\ SlabOK(regs', Cardinality(Fibers))
  <2>1. /\ r \in RegIds /\ r \notin DOMAIN regs.entries
        /\ StoreOK(Store, Lists)'
        /\ \A k \in Keys : Chain(k)' = Grown(Lists, arms)[k]
        /\ arms \in Seq(Arm) /\ Len(arms) = Len(keys)
        /\ \A h, i \in 1 .. Len(keys) : arms[h].node_id = arms[i].node_id => h = i
        /\ DOMAIN nodes'.entries = DOMAIN nodes.entries \cup FirstNodes(arms, Len(keys))
        /\ \A n \in DOMAIN nodes.entries : SameOwner(nodes'.entries[n], nodes.entries[n])
        /\ DOMAIN regs'.entries = DOMAIN regs.entries \cup {r}
        /\ regs'.entries[r] = [fiber_id |-> fiber, arms |-> arms]
        /\ \A q \in DOMAIN regs.entries : regs'.entries[q] = regs.entries[q]
        /\ SlabOK(regs', Cardinality(Fibers))
    BY SelectComes
  <2>. QED BY <1>0, <2>1
<1>2. \A i \in 1 .. l :
         /\ arms[i].node_id \in DOMAIN nodes'.entries
         /\ nodes'.entries[arms[i].node_id].reg_id = r
         /\ nodes'.entries[arms[i].node_id].fiber_id = fiber
  <2>1. TakesNodes(fiber, keys, r, arms)
    BY SelectComes
  <2>. QED BY <1>0, <2>1 DEF TakesNodes
<1>3. /\ \A q \in DOMAIN regs.entries :
            /\ q # r /\ ArmsOf(q)' = ArmsOf(q)
            /\ regs'.entries[q].fiber_id = regs.entries[q].fiber_id
      /\ ArmsOf(r)' = arms /\ regs'.entries[r].fiber_id = fiber
  BY <1>1 DEF ArmsOf
<1>4. RegsOK'
  <2>1. SlabOK(regs, Cardinality(Fibers))'
    BY <1>1 DEF SlabOK, IsInjective, ToSet
  <2>2. \A q \in DOMAIN regs'.entries :
           regs'.entries[q] \in [fiber_id : Fibers, arms : Seq(Arm)]
    <3>1. \A q \in DOMAIN regs.entries :
             regs.entries[q] \in [fiber_id : Fibers, arms : Seq(Arm)]
      BY DEF RegistryInv, RegsOK
    <3>. QED BY <1>1, <3>1
  <2>3. ASSUME NEW p \in DOMAIN regs'.entries, NEW q \in DOMAIN regs'.entries,
               regs'.entries[p].fiber_id = regs'.entries[q].fiber_id
        PROVE  p = q
    <3>1. p \in DOMAIN regs.entries /\ q \in DOMAIN regs.entries => p = q
      BY <1>3, <2>3 DEF RegistryInv, RegsOK
    <3>2. p = r /\ q \in DOMAIN regs.entries => FALSE
      BY <1>3, <2>3
    <3>3. q = r /\ p \in DOMAIN regs.entries => FALSE
      BY <1>3, <2>3
    <3>. QED BY <1>1, <3>1, <3>2, <3>3
  <2>. QED BY <2>1, <2>2, <2>3 DEF RegsOK
<1>5. ASSUME NEW k \in Keys PROVE (ToSet(Chain(k)) = NodesFor(k))'
  <2> DEFINE new == {arms[i].node_id : i \in {j \in DOMAIN arms : arms[j].key = k}}
  <2>1. Lists \in [Keys -> Seq(NodeIds)] /\ ToSet(Chain(k)) = NodesFor(k) /\ Lists[k] = Chain(k)
    BY DEF RegistryInv, StoreOK, Lists
  <2>2. PICK L \in [Keys -> Seq(NodeIds)] : L = Lists
    BY <2>1
  <2>3. ToSet(Grown(L, arms)[k]) = ToSet(L[k]) \cup new
    <3>1. PICK a \in Seq(Arm) : a = arms
      BY <1>1
    <3>2. ToSet(Grown(L, a)[k]) =
             ToSet(L[k]) \cup {a[i].node_id : i \in {j \in DOMAIN a : a[j].key = k}}
      BY GrownNodes
    <3>. QED BY <3>1, <3>2
  <2>4. ToSet(Chain(k)') = NodesFor(k) \cup new
    BY <1>1, <2>1, <2>2, <2>3
  <2> DEFINE Of(q) == {ArmsOf(q)[i].node_id : i \in {j \in DOMAIN ArmsOf(q) : ArmsOf(q)[j].key = k}}
             OfNext(q) == {regs'.entries[q].arms[i].node_id :
                              i \in {j \in DOMAIN regs'.entries[q].arms :
                                        regs'.entries[q].arms[j].key = k}}
  <2>5. NodesFor(k)' = UNION {OfNext(q) : q \in DOMAIN regs'.entries}
        /\ NodesFor(k) = UNION {Of(q) : q \in DOMAIN regs.entries}
    BY DEF NodesFor, ArmsOf
  <2>6. (\A q \in DOMAIN regs.entries : OfNext(q) = Of(q)) /\ OfNext(r) = new
    <3>1. \A q : ArmsOf(q)' = regs'.entries[q].arms
      BY DEF ArmsOf
    <3>2. \A q \in DOMAIN regs.entries : OfNext(q) = Of(q)
      BY <1>3, <3>1
    <3>3. regs'.entries[r].arms = arms
      BY <1>1
    <3>. QED BY <3>2, <3>3
  <2> HIDE DEF Of, OfNext, new
  <2>7. NodesFor(k)' = NodesFor(k) \cup new
    BY <1>1, <2>5, <2>6
  <2>8. ToSet(Chain(k))' = ToSet(Chain(k)')
    BY DEF ToSet
  <2>. QED BY <2>4, <2>7, <2>8
<1>6. NodesOwned'
  <2>1. \A q \in DOMAIN regs.entries :
          /\ regs'.entries[q].arms = ArmsOf(q)
          /\ regs'.entries[q].fiber_id = regs.entries[q].fiber_id
    BY <1>1 DEF ArmsOf
  <2>2. regs'.entries[r].arms = arms /\ regs'.entries[r].fiber_id = fiber
    BY <1>1
  <2>3. ASSUME NEW q \in DOMAIN regs.entries
        PROVE  /\ \A i, j \in DOMAIN ArmsOf(q) :
                     ArmsOf(q)[i].node_id = ArmsOf(q)[j].node_id => i = j
               /\ \A i \in DOMAIN ArmsOf(q) :
                     /\ ArmsOf(q)[i].node_id \in DOMAIN nodes'.entries
                     /\ nodes'.entries[ArmsOf(q)[i].node_id].reg_id = q
                     /\ nodes'.entries[ArmsOf(q)[i].node_id].fiber_id =
                           regs.entries[q].fiber_id
    <3>1. /\ \A i, j \in DOMAIN ArmsOf(q) :
                ArmsOf(q)[i].node_id = ArmsOf(q)[j].node_id => i = j
          /\ \A i \in DOMAIN ArmsOf(q) :
                /\ ArmsOf(q)[i].node_id \in DOMAIN nodes.entries
                /\ nodes.entries[ArmsOf(q)[i].node_id].reg_id = q
                /\ nodes.entries[ArmsOf(q)[i].node_id].fiber_id = regs.entries[q].fiber_id
      BY DEF RegistryInv, NodesOwned
    <3>. QED BY <1>1, <3>1 DEF SameOwner
  <2>4. ASSUME NEW q \in DOMAIN regs'.entries
        PROVE  /\ \A i, j \in DOMAIN regs'.entries[q].arms :
                     regs'.entries[q].arms[i].node_id = regs'.entries[q].arms[j].node_id
                        => i = j
               /\ \A i \in DOMAIN regs'.entries[q].arms :
                     LET id == regs'.entries[q].arms[i].node_id
                     IN /\ id \in DOMAIN nodes'.entries
                        /\ nodes'.entries[id].reg_id = q
                        /\ nodes'.entries[id].fiber_id = regs'.entries[q].fiber_id
    <3>1. CASE q = r
      BY <1>1, <1>2, <2>2, <3>1
    <3>2. CASE q \in DOMAIN regs.entries
      BY <2>1, <2>3, <3>2
    <3>. QED BY <1>1, <3>1, <3>2
  <2>5. ASSUME NEW n \in DOMAIN nodes'.entries
        PROVE  /\ nodes'.entries[n].reg_id \in DOMAIN regs'.entries
               /\ \E i \in DOMAIN regs'.entries[nodes'.entries[n].reg_id].arms :
                     regs'.entries[nodes'.entries[n].reg_id].arms[i].node_id = n
    <3>1. CASE n \in DOMAIN nodes.entries
      <4>1. PICK q : q = nodes.entries[n].reg_id
        OBVIOUS
      <4>2. q \in DOMAIN regs.entries /\ \E i \in DOMAIN ArmsOf(q) : ArmsOf(q)[i].node_id = n
        BY <3>1, <4>1 DEF RegistryInv, NodesOwned
      <4>3. nodes'.entries[n].reg_id = q
        BY <1>1, <3>1, <4>1 DEF SameOwner
      <4>. QED BY <1>1, <2>1, <4>2, <4>3
    <3>2. CASE n \in FirstNodes(arms, l)
      <4>1. PICK i \in 1 .. l : n = arms[i].node_id
        BY <3>2 DEF FirstNodes
      <4>2. nodes'.entries[n].reg_id = r
        BY <1>2, <4>1
      <4>. QED BY <1>1, <2>2, <4>1, <4>2
    <3>. QED BY <1>1, <3>1, <3>2
  <2>. QED BY <2>4, <2>5 DEF NodesOwned, ArmsOf
<1>7. panicked' = FALSE
  BY DEF RegistryInv, Enters
<1>. QED BY <1>1, <1>4, <1>5, <1>6, <1>7 DEF RegistryInv

-----------------------------------------------------------------------------
(***************************************************************************)
(* The steps of the registry as selects that come and go.                  *)
(***************************************************************************)

\* The list of sources of a select.
LEMMA ArmListsAreLists == \A keys \in ArmLists : keys \in Seq(Keys)
  BY DEF ArmLists

LEMMA RegisterEnters ==
    ASSUME NEW fiber, NEW keys, RegistryInv, RegisterSelect(fiber, keys)
    PROVE  \E r, arms : Enters(fiber, keys, r, arms)
<1>1. PICK r, arms : r = VacantKey(regs) /\ arms = AddArms(Store, keys, r, fiber).arms
  OBVIOUS
<1>2. per_key' = AddArms(Store, keys, r, fiber).store.per_key
      /\ nodes' = AddArms(Store, keys, r, fiber).store.nodes
      /\ regs' = Insert(regs, [fiber_id |-> fiber, arms |-> arms]) /\ UNCHANGED panicked
  BY <1>1 DEF RegisterSelect
<1>3. Enters(fiber, keys, r, arms)
  BY <1>1, <1>2 DEF Enters
<1>. QED BY <1>3

\* The first waiter of a key is a node of a live select that knows it.
LEMMA HeadIsConsistent ==
    ASSUME RegistryInv, NEW key \in Keys, per_key[key].head # NoNode
    PROVE  /\ Chain(key) # <<>> /\ Chain(key) \in Seq(NodeIds)
           /\ per_key[key].head = Chain(key)[1]
           /\ Consistent(per_key[key].head)
<1>1. /\ Lists[key] = Chain(key) /\ Chain(key) \in Seq(NodeIds)
      /\ WellLinked(per_key[key], nodes.entries, Chain(key))
  BY DEF RegistryInv, StoreOK, Lists, Store
<1>2. Chain(key) # <<>> /\ per_key[key].head = Chain(key)[1]
  BY <1>1 DEF WellLinked
<1>3. 1 \in DOMAIN Chain(key)
  BY <1>1, <1>2
<1>4. per_key[key].head \in DOMAIN nodes.entries
  BY <1>1, <1>2, <1>3 DEF WellLinked, ToSet
<1>5. Consistent(per_key[key].head)
  BY <1>4 DEF RegistryInv, NodesOwned, Consistent, ArmsOf
<1>. QED BY <1>1, <1>2, <1>5

LEMMA WakeWithdraws ==
    ASSUME RegistryInv, NEW key \in Keys, WakeOne(key)
    PROVE  LET node == nodes.entries[per_key[key].head]
           IN node.reg_id \in DOMAIN regs.entries /\ Withdraws(node.reg_id)
<1>1. Consistent(per_key[key].head)
  BY HeadIsConsistent DEF WakeOne
<1>2. PICK r : r = nodes.entries[per_key[key].head].reg_id
  OBVIOUS
<1>3. r \in DOMAIN regs.entries
  BY <1>1, <1>2 DEF Consistent
<1>4. /\ per_key' = UnlinkArms(Store, ArmsOf(r)).per_key
      /\ nodes' = UnlinkArms(Store, ArmsOf(r)).nodes
      /\ regs' = TryRemove(regs, r) /\ UNCHANGED panicked
  BY <1>1, <1>2 DEF WakeOne, ArmsOf
<1>. QED BY <1>2, <1>3, <1>4 DEF Withdraws

-----------------------------------------------------------------------------
(***************************************************************************)
(* The registry is sound.                                                  *)
(***************************************************************************)
LEMMA InitInv == WaitRegistryInit => RegistryInv
<1> SUFFICES ASSUME WaitRegistryInit PROVE RegistryInv
  OBVIOUS
<1>1. nodes.entries = <<>> /\ regs.entries = <<>> /\ nodes = EmptySlab /\ regs = EmptySlab
      /\ per_key = [k \in Keys |-> EmptyList] /\ panicked = FALSE
  BY DEF WaitRegistryInit, EmptySlab
<1>2. DOMAIN nodes.entries = {} /\ DOMAIN regs.entries = {}
  BY <1>1
<1>3. \A size \in Nat : SlabOK(EmptySlab, size)
  <2> SUFFICES ASSUME NEW size \in Nat PROVE SlabOK(EmptySlab, size)
    OBVIOUS
  <2>1. EmptySlab.entries = <<>> /\ EmptySlab.free = <<>>
    BY DEF EmptySlab
  <2>2. ToSet(<<>>) = {} /\ IsInjective(<<>>) /\ <<>> \in Seq(Nat) /\ DOMAIN <<>> = {}
    BY DEF ToSet, IsInjective
  <2>3. 0 \in 0 .. size /\ {} \cup {} = 0 .. 0 - 1
    OBVIOUS
  <2>4. EmptySlab = [entries |-> EmptySlab.entries, free |-> EmptySlab.free]
    BY DEF EmptySlab
  <2>. QED BY <2>1, <2>2, <2>3, <2>4 DEF SlabOK
<1>4. SlabOK(nodes, MaxNodes) /\ SlabOK(regs, Cardinality(Fibers))
  BY <1>1, <1>3, WaitersAssumption, FS_CardinalityType
<1>5. PICK M : M = [k \in Keys |-> <<>>]
  OBVIOUS
<1>6. StoreOK(Store, M)
  <2>1. Store = [per_key |-> per_key, nodes |-> nodes] /\ Store.per_key = per_key
        /\ Store.nodes = nodes
    BY DEF Store
  <2>2. per_key \in [Keys -> [head : NodeRef, tail : NodeRef]]
    BY <1>1 DEF EmptyList, NodeRef
  <2>3. NodesOK(nodes)
    <3>1. nodes.entries \in [{} -> Node]
      BY <1>1
    <3>. QED BY <1>2, <1>4, <3>1 DEF NodesOK
  <2>4. \A k \in Keys : M[k] = <<>> /\ WellLinked(per_key[k], nodes.entries, <<>>)
    <3>1. IsInjective(<<>>) /\ ToSet(<<>>) \subseteq DOMAIN nodes.entries
      BY DEF IsInjective, ToSet
    <3>2. \A k \in Keys : per_key[k].head = NoNode /\ per_key[k].tail = NoNode
      BY <1>1 DEF EmptyList
    <3>3. \A i \in 1 .. Len(<<>>) : FALSE
      OBVIOUS
    <3>4. \A k \in Keys : WellLinked(per_key[k], nodes.entries, <<>>)
      BY <3>1, <3>2, <3>3 DEF WellLinked
    <3>. QED BY <1>5, <3>4
  <2>5. M \in [Keys -> Seq(NodeIds)]
    BY <1>5
  <2>6. \A k \in Keys : ToSet(M[k]) = {}
    BY <2>4 DEF ToSet
  <2>. QED BY <2>1, <2>2, <2>3, <2>4, <2>5, <2>6 DEF StoreOK
<1>7. \A k \in Keys : Chain(k) = M[k] /\ M[k] = <<>>
  <2>1. /\ DOMAIN nodes.entries \in SUBSET NodeIds /\ M \in [Keys -> Seq(NodeIds)]
        /\ \A k \in Keys : WellLinked(per_key[k], nodes.entries, M[k])
    BY <1>2, <1>6 DEF StoreOK, Store
  <2>. QED BY <1>5, <2>1, ChainIs
<1>8. Lists = M
  BY <1>5, <1>7 DEF Lists
<1>9. \A k \in Keys : ToSet(Chain(k)) = NodesFor(k)
  BY <1>2, <1>7 DEF ToSet, NodesFor
<1>10. RegsOK
  BY <1>2, <1>4 DEF RegsOK
<1>11. NodesOwned /\ panicked = FALSE
  BY <1>1, <1>2 DEF NodesOwned
<1>. QED BY <1>6, <1>8, <1>9, <1>10, <1>11 DEF RegistryInv

LEMMA StutterKeepsInv ==
    ASSUME RegistryInv, UNCHANGED <<per_key, nodes, regs, panicked>>
    PROVE  RegistryInv'
<1>1. per_key' = per_key /\ nodes' = nodes /\ regs' = regs /\ panicked' = panicked
  OBVIOUS
<1>2. Store' = Store /\ \A k : Chain(k)' = Chain(k)
  BY <1>1 DEF Store, Chain, Walk, Following
<1>3. Lists' = Lists
  BY <1>2 DEF Lists
<1>4. StoreOK(Store, Lists)'
  <2>1. StoreOK(Store, Lists)' <=> StoreOK(Store', Lists')
    BY DEF StoreOK, NodesOK, SlabOK, WellLinked, IsInjective, ToSet
  <2>. QED BY <1>2, <1>3, <2>1 DEF RegistryInv
<1>5. RegsOK'
  <2>1. SlabOK(regs, Cardinality(Fibers))'
    BY <1>1 DEF RegistryInv, RegsOK, SlabOK, IsInjective, ToSet
  <2>2. /\ \A r \in DOMAIN regs'.entries :
              regs'.entries[r] \in [fiber_id : Fibers, arms : Seq(Arm)]
        /\ \A q, r \in DOMAIN regs'.entries :
              regs'.entries[q].fiber_id = regs'.entries[r].fiber_id => q = r
    BY <1>1 DEF RegistryInv, RegsOK
  <2>. QED BY <2>1, <2>2 DEF RegsOK
<1>6. \A k \in Keys : (ToSet(Chain(k)) = NodesFor(k))'
  <2>1. \A k \in Keys : ToSet(Chain(k))' = ToSet(Chain(k)')
    BY DEF ToSet
  <2>2. \A k \in Keys : NodesFor(k)' = NodesFor(k)
    BY <1>1 DEF NodesFor, ArmsOf
  <2>. QED BY <1>2, <2>1, <2>2 DEF RegistryInv
<1>7. NodesOwned'
  <2>1. NodesOwned
    BY DEF RegistryInv
  <2>2. NodesOwned' <=> NodesOwned
    BY <1>1 DEF NodesOwned, ArmsOf
  <2>. QED BY <2>1, <2>2
<1>8. panicked' = FALSE
  BY <1>1 DEF RegistryInv
<1>. QED BY <1>4, <1>5, <1>6, <1>7, <1>8 DEF RegistryInv

LEMMA StepKeepsInv == RegistryInv /\ [WaitRegistryNext]_registryVars => RegistryInv'
<1> SUFFICES ASSUME RegistryInv, [WaitRegistryNext]_registryVars PROVE RegistryInv'
  OBVIOUS
<1>1. ASSUME NEW f \in Fibers, NEW keys \in ArmLists, RegisterSelect(f, keys)
      PROVE  RegistryInv'
  <2>1. keys \in Seq(Keys)
    BY ArmListsAreLists
  <2>2. PICK r, arms : Enters(f, keys, r, arms)
    BY <1>1, RegisterEnters
  <2>3. /\ \A q \in DOMAIN regs.entries : regs.entries[q].fiber_id # f
        /\ Cardinality(DOMAIN nodes.entries) + Len(keys) <= MaxNodes
    BY <1>1 DEF RegisterSelect
  <2>. QED BY <2>1, <2>2, <2>3, EnterKeepsInv
<1>2. ASSUME NEW k \in Keys, WakeNobody(k) PROVE RegistryInv'
  BY <1>2, StutterKeepsInv DEF WakeNobody
<1>3. ASSUME NEW k \in Keys, WakeOne(k) PROVE RegistryInv'
  BY <1>3, WakeWithdraws, WithdrawKeepsInv
<1>4. ASSUME NEW id \in DOMAIN regs.entries, CancelByRegisteredSelectId(id)
      PROVE  RegistryInv'
  <2>1. Withdraws(id)
    BY <1>4 DEF CancelByRegisteredSelectId, Withdraws, ArmsOf
  <2>. QED BY <2>1, WithdrawKeepsInv
<1>5. CASE UNCHANGED registryVars
  BY <1>5, StutterKeepsInv DEF registryVars
<1>. QED BY <1>1, <1>2, <1>3, <1>4, <1>5 DEF WaitRegistryNext

\* Whatever order selects register, are woken and cancelled in, and however often
\* slab keys are reused, the registry keeps its inductive invariant.
THEOREM RegistryInvariant == WaitRegistrySpec => []RegistryInv
  BY InitInv, StepKeepsInv, PTL DEF WaitRegistrySpec

LEMMA InvIsSound == RegistryInv => RegistrySound
<1> SUFFICES ASSUME RegistryInv PROVE RegistrySound
  OBVIOUS
<1>1. Store.per_key = per_key /\ Store.nodes = nodes /\ \A k \in Keys : Lists[k] = Chain(k)
  BY DEF Store, Lists
<1>2. RegistryTypeOK
  <2>1. per_key \in [Keys -> [head : NodeRef, tail : NodeRef]]
    BY <1>1 DEF RegistryInv, StoreOK
  <2>2. DOMAIN nodes.entries \in SUBSET NodeIds
        /\ \A n \in DOMAIN nodes.entries : nodes.entries[n] \in Node
    BY <1>1, StoreNodes DEF RegistryInv
  <2>3. \A r \in DOMAIN regs.entries :
          /\ r \in RegIds /\ regs.entries[r].fiber_id \in Fibers
          /\ ArmsOf(r) \in Seq([key : Keys, node_id : NodeIds])
    BY RegistrationFacts DEF Arm
  <2>4. panicked \in BOOLEAN
    BY DEF RegistryInv
  <2>. QED BY <2>1, <2>2, <2>3, <2>4 DEF RegistryTypeOK, Node
<1>3. ListsWellLinked
  BY <1>1 DEF RegistryInv, StoreOK, ListsWellLinked
<1>. QED BY <1>2, <1>3 DEF RegistryInv, RegistrySound, NeverInconsistent

\* The linked lists are intact in both directions, they hold exactly the nodes of the
\* arms of live selects, every node is owned by one arm, and no lookup that
\* wait_registry.rs expects to succeed fails.
THEOREM RegistryStaysSound == WaitRegistrySpec => []RegistrySound
  BY RegistryInvariant, InvIsSound, PTL

-----------------------------------------------------------------------------
(***************************************************************************)
(* The linked lists implement FIFOs.                                       *)
(***************************************************************************)

\* What is picked from a list and then looked up.
LEMMA AtMapped ==
    ASSUME NEW list, NEW P \in SUBSET Nat, IsFiniteSet(P), NEW f, NEW other,
           \A p \in P : f[list[p]] = other[p]
    PROVE  [n \in DOMAIN At(list, P) |-> f[At(list, P)[n]]] = At(other, P)
<1> DEFINE s == [n \in 1 .. Cardinality(P) |-> f[At(list, P)[n]]]
           S == {s[n] : n \in 1 .. Cardinality(P)}
<1>1. /\ DOMAIN At(list, P) = 1 .. Cardinality(P)
      /\ \A p \in P : /\ Before(P, p) + 1 \in 1 .. Cardinality(P)
                      /\ At(list, P)[Before(P, p) + 1] = list[p]
  BY AtPlaces
<1>2. s \in [1 .. Cardinality(P) -> S]
  OBVIOUS
<1>3. \A p \in P : s[Before(P, p) + 1] = other[p]
  BY <1>1
<1> HIDE DEF s, S
<1>4. s = At(other, P)
  BY <1>2, <1>3, AtUnique
<1>. QED BY <1>1, <1>4 DEF s

Mapped(f, list) == [i \in DOMAIN list |-> f[list[i]]]
Joined(x, y) == x \o y
IsJoined(z, x, y, m, n) ==
    /\ z = [i \in 1 .. m + n |-> z[i]]
    /\ \A i \in 1 .. m + n : z[i] = IF i <= m THEN x[i] ELSE y[i - m]

LEMMA JoinedElements ==
    ASSUME NEW S, NEW x \in Seq(S), NEW y \in Seq(S), NEW m \in Nat, NEW n \in Nat,
           m = Len(x), n = Len(y)
    PROVE  IsJoined(Joined(x, y), x, y, m, n)
<1>1. PICK z : z = Joined(x, y)
  OBVIOUS
<1>2. /\ z \in Seq(S) /\ Len(z) = m + n
      /\ \A i \in 1 .. m + n : z[i] = IF i <= m THEN x[i] ELSE y[i - m]
  BY <1>1, ConcatProperties DEF Joined
<1>3. z = [i \in 1 .. m + n |-> z[i]]
  BY <1>2
<1>4. IsJoined(z, x, y, m, n)
  BY <1>2, <1>3 DEF IsJoined
<1>. QED BY <1>1, <1>4

LEMMA MappedJoined ==
    ASSUME NEW x \in Seq(NodeIds), NEW y \in Seq(NodeIds), NEW f
    PROVE  Mapped(f, Joined(x, y)) = Joined(Mapped(f, x), Mapped(f, y))
<1>1. PICK m \in Nat, n \in Nat : m = Len(x) /\ n = Len(y)
  OBVIOUS
<1>2. PICK z, a, b, S : /\ z = Joined(x, y) /\ a = Mapped(f, x) /\ b = Mapped(f, y)
                        /\ S = {f[k] : k \in NodeIds}
  OBVIOUS
<1>3. /\ DOMAIN x = 1 .. m /\ DOMAIN y = 1 .. n
      /\ (\A i \in 1 .. m : x[i] \in NodeIds) /\ (\A i \in 1 .. n : y[i] \in NodeIds)
  BY <1>1
<1>4. z = [i \in 1 .. m + n |-> z[i]]
      /\ \A i \in 1 .. m + n : z[i] = IF i <= m THEN x[i] ELSE y[i - m]
  <2>1. IsJoined(Joined(x, y), x, y, m, n)
    BY <1>1, JoinedElements
  <2>. QED BY <1>2, <2>1 DEF IsJoined
<1>5. /\ a \in [1 .. m -> S] /\ b \in [1 .. n -> S]
      /\ \A i \in 1 .. m : a[i] = f[x[i]]
      /\ \A i \in 1 .. n : b[i] = f[y[i]]
  <2>1. (\A i \in 1 .. m : f[x[i]] \in S) /\ (\A i \in 1 .. n : f[y[i]] \in S)
    BY <1>2, <1>3
  <2>2. a = [i \in 1 .. m |-> f[x[i]]] /\ b = [i \in 1 .. n |-> f[y[i]]]
    BY <1>2, <1>3 DEF Mapped
  <2>. QED BY <2>1, <2>2
<1>6. a \in Seq(S) /\ m = Len(a) /\ b \in Seq(S) /\ n = Len(b)
  BY <1>5
<1>7. PICK c, d : c = Mapped(f, z) /\ d = Joined(a, b)
  OBVIOUS
<1>8. d = [i \in 1 .. m + n |-> d[i]]
      /\ \A i \in 1 .. m + n : d[i] = IF i <= m THEN a[i] ELSE b[i - m]
  <2>1. IsJoined(Joined(a, b), a, b, m, n)
    BY <1>6, JoinedElements
  <2>. QED BY <1>7, <2>1 DEF IsJoined
<1>9. DOMAIN z = 1 .. m + n
  BY <1>4
<1>10. c = [i \in 1 .. m + n |-> f[z[i]]]
  BY <1>7, <1>9 DEF Mapped
<1>11. ASSUME NEW i \in 1 .. m + n PROVE d[i] = f[z[i]]
  <2>1. CASE i <= m
    <3>1. i \in 1 .. m
      BY <2>1
    <3>2. z[i] = x[i] /\ d[i] = a[i] /\ a[i] = f[x[i]]
      BY <1>4, <1>5, <1>8, <2>1, <3>1
    <3>. QED BY <3>2
  <2>2. CASE ~ (i <= m)
    <3>1. PICK j \in 1 .. n : j = i - m
      BY <2>2
    <3>2. z[i] = y[j] /\ d[i] = b[j] /\ b[j] = f[y[j]]
      BY <1>4, <1>5, <1>8, <2>2, <3>1
    <3>. QED BY <3>2
  <2>. QED BY <2>1, <2>2
<1>12. d = c
  BY <1>8, <1>10, <1>11
<1>. QED BY <1>2, <1>7, <1>12

\* What is looked up for a list that grew by picked elements.
LEMMA MappedGrows ==
    ASSUME NEW x \in Seq(NodeIds), NEW ids \in Seq(NodeIds), NEW P \in SUBSET DOMAIN ids,
           NEW v, NEW other, \A p \in P : v[ids[p]] = other[p]
    PROVE  Mapped(v, Joined(x, At(ids, P))) = Joined(Mapped(v, x), At(other, P))
<1>1. PICK y \in Seq(NodeIds) : y = At(ids, P)
  BY AtElements
<1>2. P \in SUBSET Nat /\ IsFiniteSet(P)
  BY AtElements
<1>3. [n \in DOMAIN At(ids, P) |-> v[At(ids, P)[n]]] = At(other, P)
  BY <1>2, AtMapped
<1>4. Mapped(v, y) = At(other, P)
  BY <1>1, <1>3 DEF Mapped
<1>5. Mapped(v, Joined(x, y)) = Joined(Mapped(v, x), Mapped(v, y))
  BY MappedJoined
<1>. QED BY <1>1, <1>4, <1>5

\* The FIFO entries of nodes in a state that is given by the entries of its slabs.
WaiterIn(e, g) ==
    [n \in DOMAIN e |->
        [select |-> e[n].reg_id, fiber |-> e[n].fiber_id,
         arm |-> CHOOSE i \in DOMAIN g[e[n].reg_id].arms :
                    g[e[n].reg_id].arms[i].node_id = n]]

LEMMA WaiterNow ==
    /\ Waiter = WaiterIn(nodes.entries, regs.entries)
    /\ Waiter' = WaiterIn(nodes'.entries, regs'.entries)
BY DEF Waiter, WaiterIn, ArmsOf

\* Nodes whose owner stays keep their place in the select.
LEMMA WaiterStays ==
    ASSUME NEW e, NEW g, NEW f, NEW h, NEW n \in DOMAIN e, n \in DOMAIN f,
           SameOwner(e[n], f[n]), g[e[n].reg_id] = h[e[n].reg_id]
    PROVE  WaiterIn(e, g)[n] = WaiterIn(f, h)[n]
<1>1. PICK r : r = e[n].reg_id
  OBVIOUS
<1>2. f[n].reg_id = r /\ f[n].fiber_id = e[n].fiber_id /\ g[r] = h[r]
  BY <1>1 DEF SameOwner
<1>3. WaiterIn(e, g)[n] = [select |-> r, fiber |-> e[n].fiber_id,
                           arm |-> CHOOSE i \in DOMAIN g[r].arms : g[r].arms[i].node_id = n]
  BY <1>1 DEF WaiterIn
<1>4. WaiterIn(f, h)[n] = [select |-> r, fiber |-> f[n].fiber_id,
                           arm |-> CHOOSE i \in DOMAIN h[r].arms : h[r].arms[i].node_id = n]
  BY <1>2 DEF WaiterIn
<1>. QED BY <1>2, <1>3, <1>4

\* A node's place is the position of the one arm that holds it.
LEMMA WaiterPlace ==
    ASSUME NEW e, NEW g, NEW r, NEW i \in DOMAIN g[r].arms,
           \A h, j \in DOMAIN g[r].arms :
              g[r].arms[h].node_id = g[r].arms[j].node_id => h = j,
           NEW n \in DOMAIN e, n = g[r].arms[i].node_id, e[n].reg_id = r
    PROVE  WaiterIn(e, g)[n] = [select |-> r, fiber |-> e[n].fiber_id, arm |-> i]
<1>1. PICK arms : arms = g[r].arms
  OBVIOUS
<1>2. (CHOOSE j \in DOMAIN arms : arms[j].node_id = n) = i
  BY <1>1
<1>3. WaiterIn(e, g)[n] = [select |-> r, fiber |-> e[n].fiber_id,
                           arm |-> CHOOSE j \in DOMAIN arms : arms[j].node_id = n]
  BY <1>1 DEF WaiterIn
<1>. QED BY <1>2, <1>3

LEMMA SamePositions ==
    ASSUME NEW list, NEW P PROVE Abstract!At(list, P) = At(list, P)
<1>1. \A S : Abstract!Cardinality(S) = Cardinality(S)
  BY DEF Abstract!Cardinality, Cardinality
<1>2. ASSUME NEW n PROVE Abstract!Nth(P, n) = Nth(P, n)
  <2>1. Abstract!Nth(P, n) = CHOOSE i \in P : Before(P, i) = n - 1
    BY <1>1 DEF Before, Abstract!Nth
  <2>2. Nth(P, n) = CHOOSE i \in P : Before(P, i) = n - 1
    BY DEF Before, Nth
  <2>. QED BY <2>1, <2>2
<1>3. Abstract!At(list, P) = [n \in 1 .. Abstract!Cardinality(P) |-> list[Abstract!Nth(P, n)]]
  BY DEF Abstract!At
<1>4. At(list, P) = [n \in 1 .. Cardinality(P) |-> list[Nth(P, n)]]
  BY DEF At
<1>. QED BY <1>1, <1>2, <1>3, <1>4

\* The FIFOs that the lists stand for.
Fifos == [k \in Keys |-> Waiters(k)]

LEMMA FifosNow ==
    ASSUME RegistryInv, NEW k \in Keys
    PROVE  /\ Chain(k) \in Seq(NodeIds)
           /\ Fifos[k] = [i \in DOMAIN Chain(k) |-> Waiter[Chain(k)[i]]]
           /\ \A i \in DOMAIN Chain(k) :
                 /\ Chain(k)[i] \in DOMAIN nodes.entries
                 /\ Fifos[k][i].select = nodes.entries[Chain(k)[i]].reg_id
<1>1. Chain(k) \in Seq(NodeIds) /\ ToSet(Chain(k)) \in SUBSET DOMAIN nodes.entries
  BY DEF RegistryInv, StoreOK, Lists, Store, WellLinked
<1>2. Fifos[k] = [i \in DOMAIN Chain(k) |-> Waiter[Chain(k)[i]]]
  BY DEF Fifos, Waiters
<1>3. \A i \in DOMAIN Chain(k) : Chain(k)[i] \in DOMAIN nodes.entries
  BY <1>1 DEF ToSet
<1>4. \A n \in DOMAIN nodes.entries : Waiter[n].select = nodes.entries[n].reg_id
  BY DEF Waiter
<1>. QED BY <1>1, <1>2, <1>3, <1>4

\* A withdrawn select leaves every FIFO; the others keep their order.
LEMMA FifosShrink ==
    ASSUME RegistryInv, NEW r \in DOMAIN regs.entries, Withdraws(r)
    PROVE  Fifos' = [k \in Keys |-> At(Fifos[k], {i \in DOMAIN Fifos[k] :
                                                     Fifos[k][i].select # r})]
<1>1. /\ \A k \in Keys : Chain(k)' = Spared(Chain(k), Gone(r))
      /\ DOMAIN nodes'.entries = DOMAIN nodes.entries \ Gone(r)
      /\ \A n \in DOMAIN nodes'.entries : SameOwner(nodes'.entries[n], nodes.entries[n])
      /\ DOMAIN regs'.entries = DOMAIN regs.entries \ {r}
      /\ \A q \in DOMAIN regs'.entries : regs'.entries[q] = regs.entries[q]
  BY SelectGoes
<1>2. ASSUME NEW n \in DOMAIN nodes.entries, n \notin Gone(r)
      PROVE  Waiter'[n] = Waiter[n]
  <2>1. PICK e, g, f, h : /\ e = nodes.entries /\ g = regs.entries
                          /\ f = nodes'.entries /\ h = regs'.entries
    OBVIOUS
  <2>2. n \in DOMAIN e /\ n \in DOMAIN f /\ SameOwner(f[n], e[n])
    BY <1>1, <1>2, <2>1
  <2>3. e[n].reg_id \in DOMAIN regs.entries /\ e[n].reg_id # r
    BY <1>2, <2>1, GoneOwned DEF RegistryInv, NodesOwned
  <2>4. g[e[n].reg_id] = h[e[n].reg_id] /\ SameOwner(e[n], f[n])
    BY <1>1, <2>1, <2>2, <2>3 DEF SameOwner
  <2>5. WaiterIn(e, g)[n] = WaiterIn(f, h)[n]
    BY <2>2, <2>4, WaiterStays
  <2>. QED BY <2>1, <2>5, WaiterNow
<1>3. ASSUME NEW k \in Keys
      PROVE  Waiters(k)' = At(Fifos[k], {i \in DOMAIN Fifos[k] : Fifos[k][i].select # r})
  <2>1. PICK c \in Seq(NodeIds) : c = Chain(k)
    BY FifosNow
  <2>2. PICK w, v : w = Fifos[k] /\ v = Waiter'
    OBVIOUS
  <2>3. /\ w = [i \in DOMAIN c |-> Waiter[c[i]]]
        /\ \A i \in DOMAIN c : /\ c[i] \in DOMAIN nodes.entries
                               /\ w[i].select = nodes.entries[c[i]].reg_id
    BY <2>1, <2>2, FifosNow
  <2>4. DOMAIN w = DOMAIN c /\ \A i \in DOMAIN c : w[i] = Waiter[c[i]]
    BY <2>3
  <2> DEFINE P == {i \in DOMAIN c : c[i] \notin Gone(r)}
  <2>5. {i \in DOMAIN w : w[i].select # r} = P
    BY <2>3, <2>4, GoneOwned
  <2>6. P \in SUBSET Nat /\ IsFiniteSet(P)
    <3>1. P \in SUBSET DOMAIN c
      OBVIOUS
    <3>. QED BY <3>1, AtElements
  <2>7. \A p \in P : v[c[p]] = w[p]
    BY <1>2, <2>2, <2>3, <2>4
  <2>8. Waiters(k)' = [i \in DOMAIN Chain(k)' |-> v[Chain(k)'[i]]]
    BY <2>2 DEF Waiters
  <2>9. Chain(k)' = At(c, P)
    BY <1>1, <2>1 DEF Spared
  <2> HIDE DEF P
  <2>10. [n \in DOMAIN At(c, P) |-> v[At(c, P)[n]]] = At(w, P)
    BY <2>6, <2>7, AtMapped
  <2>. QED BY <2>2, <2>5, <2>8, <2>9, <2>10
<1>4. Fifos' = [k \in Keys |-> Waiters(k)']
  BY DEF Fifos
<1>. QED BY <1>3, <1>4

\* A new select joins the FIFOs of its sources at their ends, arm by arm.
FifosWith(fiber, keys, r) ==
    LET entries == [i \in DOMAIN keys |-> [select |-> r, fiber |-> fiber, arm |-> i]]
    IN [k \in Keys |-> Fifos[k] \o At(entries, {i \in DOMAIN keys : keys[i] = k})]

LEMMA FifosGrow ==
    ASSUME RegistryInv, NEW fiber \in Fibers, NEW keys \in Seq(Keys), NEW r, NEW arms,
           \A q \in DOMAIN regs.entries : regs.entries[q].fiber_id # fiber,
           Cardinality(DOMAIN nodes.entries) + Len(keys) <= MaxNodes,
           Enters(fiber, keys, r, arms)
    PROVE  Fifos' = FifosWith(fiber, keys, r)
<1> DEFINE entries == [i \in DOMAIN keys |-> [select |-> r, fiber |-> fiber, arm |-> i]]
<1>0. PICK l \in Nat : l = Len(keys) /\ DOMAIN keys = 1 .. l
  OBVIOUS
<1>1. /\ r \notin DOMAIN regs.entries
      /\ \A k \in Keys : Chain(k)' = Grown(Lists, arms)[k]
      /\ arms \in Seq(Arm) /\ DOMAIN arms = 1 .. l
      /\ \A h, i \in 1 .. l : arms[h].node_id = arms[i].node_id => h = i
      /\ DOMAIN nodes'.entries = DOMAIN nodes.entries \cup FirstNodes(arms, l)
      /\ \A n \in DOMAIN nodes.entries : SameOwner(nodes'.entries[n], nodes.entries[n])
      /\ regs'.entries[r] = [fiber_id |-> fiber, arms |-> arms]
      /\ \A q \in DOMAIN regs.entries : regs'.entries[q] = regs.entries[q]
  <2>1. /\ r \in RegIds /\ r \notin DOMAIN regs.entries
        /\ StoreOK(Store, Lists)'
        /\ \A k \in Keys : Chain(k)' = Grown(Lists, arms)[k]
        /\ arms \in Seq(Arm) /\ Len(arms) = Len(keys)
        /\ \A h, i \in 1 .. Len(keys) : arms[h].node_id = arms[i].node_id => h = i
        /\ DOMAIN nodes'.entries = DOMAIN nodes.entries \cup FirstNodes(arms, Len(keys))
        /\ \A n \in DOMAIN nodes.entries : SameOwner(nodes'.entries[n], nodes.entries[n])
        /\ DOMAIN regs'.entries = DOMAIN regs.entries \cup {r}
        /\ regs'.entries[r] = [fiber_id |-> fiber, arms |-> arms]
        /\ \A q \in DOMAIN regs.entries : regs'.entries[q] = regs.entries[q]
        /\ SlabOK(regs', Cardinality(Fibers))
    BY SelectComes
  <2>. QED BY <1>0, <2>1
<1>2. \A i \in 1 .. l :
         /\ arms[i].key = keys[i]
         /\ arms[i].node_id \in DOMAIN nodes'.entries
         /\ nodes'.entries[arms[i].node_id].reg_id = r
         /\ nodes'.entries[arms[i].node_id].fiber_id = fiber
  <2>1. TakesNodes(fiber, keys, r, arms)
    BY SelectComes
  <2>. QED BY <1>0, <2>1 DEF TakesNodes
<1>3. ASSUME NEW n \in DOMAIN nodes.entries PROVE Waiter'[n] = Waiter[n]
  <2>1. PICK e, g, f, h : /\ e = nodes.entries /\ g = regs.entries
                          /\ f = nodes'.entries /\ h = regs'.entries
    OBVIOUS
  <2>2. n \in DOMAIN e /\ n \in DOMAIN f /\ SameOwner(f[n], e[n])
    BY <1>1, <1>3, <2>1
  <2>3. e[n].reg_id \in DOMAIN regs.entries
    BY <1>3, <2>1 DEF RegistryInv, NodesOwned
  <2>4. g[e[n].reg_id] = h[e[n].reg_id] /\ SameOwner(e[n], f[n])
    BY <1>1, <2>1, <2>2, <2>3 DEF SameOwner
  <2>5. WaiterIn(e, g)[n] = WaiterIn(f, h)[n]
    BY <2>2, <2>4, WaiterStays
  <2>. QED BY <2>1, <2>5, WaiterNow
<1>4. ASSUME NEW i \in 1 .. l PROVE Waiter'[arms[i].node_id] = entries[i]
  <2>1. PICK f, h, n : f = nodes'.entries /\ h = regs'.entries /\ n = arms[i].node_id
    OBVIOUS
  <2>2. h[r].arms = arms
    BY <1>1, <2>1
  <2>3. /\ i \in DOMAIN h[r].arms /\ n \in DOMAIN f /\ n = h[r].arms[i].node_id
        /\ f[n].reg_id = r /\ f[n].fiber_id = fiber
        /\ \A a, b \in DOMAIN h[r].arms :
              h[r].arms[a].node_id = h[r].arms[b].node_id => a = b
    BY <1>1, <1>2, <2>1, <2>2
  <2>4. WaiterIn(f, h)[n] = [select |-> r, fiber |-> f[n].fiber_id, arm |-> i]
    BY <2>3, WaiterPlace
  <2>. QED BY <1>0, <2>1, <2>3, <2>4, WaiterNow
<1> HIDE DEF entries
<1>5. ASSUME NEW k \in Keys
      PROVE  Waiters(k)' = Fifos[k] \o At(entries, {i \in DOMAIN keys : keys[i] = k})
  <2> DEFINE P == {i \in DOMAIN keys : keys[i] = k}
  <2>1. PICK x \in Seq(NodeIds) : x = Chain(k)
    BY FifosNow
  <2>2. PICK v : v = Waiter'
    OBVIOUS
  <2>3. PICK ids \in [1 .. l -> NodeIds] : ids = NodesOf(arms)
    <3>1. \A i \in 1 .. l : arms[i] \in Arm
      BY <1>1
    <3>2. \A i \in 1 .. l : arms[i].node_id \in NodeIds
      BY <3>1 DEF Arm
    <3>. QED BY <1>1, <3>2 DEF NodesOf
  <2>4. \A i \in 1 .. l : ids[i] = arms[i].node_id
    BY <1>1, <2>3 DEF NodesOf
  <2>5. ids \in Seq(NodeIds) /\ DOMAIN ids = 1 .. l /\ P \in SUBSET DOMAIN ids
    BY <1>0
  <2>6. {i \in DOMAIN arms : arms[i].key = k} = P
    BY <1>0, <1>1, <1>2
  <2>7. \A p \in P : v[ids[p]] = entries[p]
    BY <1>0, <1>4, <2>2, <2>4
  <2> HIDE DEF P
  <2>8. \A i \in DOMAIN x : x[i] \in DOMAIN nodes.entries
    BY <2>1, FifosNow
  <2>9. Fifos[k] = [i \in DOMAIN x |-> Waiter[x[i]]]
    BY <2>1, FifosNow
  <2>10. \A i \in DOMAIN x : v[x[i]] = Waiter[x[i]]
    BY <1>3, <2>2, <2>8
  <2>11. PICK fifo : fifo = Fifos[k]
    OBVIOUS
  <2>12. fifo = Mapped(v, x)
    BY <2>9, <2>10, <2>11 DEF Mapped
  <2>13. PICK z : z = Chain(k)'
    OBVIOUS
  <2>14. z = Joined(x, At(ids, P))
    <3>1. Grown(Lists, arms)[k] = Lists[k] \o At(NodesOf(arms), P)
      BY <2>6 DEF Grown
    <3>2. Lists[k] = x
      BY <2>1 DEF Lists
    <3>. QED BY <1>1, <2>3, <2>13, <3>1, <3>2 DEF Joined
  <2>15. Mapped(v, z) = Joined(fifo, At(entries, P))
    <3>1. Mapped(v, Joined(x, At(ids, P))) = Joined(Mapped(v, x), At(entries, P))
      BY <2>5, <2>7, MappedGrows
    <3>. QED BY <2>12, <2>14, <3>1
  <2>16. Waiters(k)' = Mapped(v, z)
    BY <2>2, <2>13 DEF Waiters, Mapped
  <2>. QED BY <2>11, <2>15, <2>16 DEF P, Joined
<1>6. Fifos' = [k \in Keys |-> Waiters(k)']
  BY DEF Fifos
<1>. QED BY <1>5, <1>6 DEF entries, FifosWith

-----------------------------------------------------------------------------
(***************************************************************************)
(* Refinement: Init maps to Init and every step to a step or a stutter.    *)
(***************************************************************************)

\* A key without a head has an empty FIFO; with one, the head is who waited longest.
LEMMA NoWaiters ==
    ASSUME RegistryInv, NEW k \in Keys, per_key[k].head = NoNode
    PROVE  Fifos[k] = <<>>
<1>1. PICK c \in Seq(NodeIds) : c = Chain(k)
  BY FifosNow
<1>2. WellLinked(per_key[k], nodes.entries, c)
  BY <1>1 DEF RegistryInv, StoreOK, Lists, Store
<1>3. c = <<>>
  <2>1. SUFFICES ASSUME c # <<>> PROVE FALSE
    OBVIOUS
  <2>2. 1 \in DOMAIN c /\ c[1] \in NodeIds /\ c[1] = NoNode
    BY <1>2, <2>1 DEF WellLinked
  <2>. QED BY <2>2, WaitersAssumption DEF NodeIds, NoNode
<1>4. Fifos[k] = [i \in DOMAIN c |-> Waiter[c[i]]]
  BY <1>1, FifosNow
<1>. QED BY <1>3, <1>4

LEMMA SomeWaiters ==
    ASSUME RegistryInv, NEW k \in Keys, per_key[k].head # NoNode
    PROVE  /\ Fifos[k] # <<>>
           /\ Head(Fifos[k]) = Waiter[per_key[k].head]
<1>1. /\ Chain(k) # <<>> /\ Chain(k) \in Seq(NodeIds)
      /\ per_key[k].head = Chain(k)[1]
  BY HeadIsConsistent
<1>2. PICK c \in Seq(NodeIds) : c = Chain(k)
  BY <1>1
<1>3. Fifos[k] = [i \in DOMAIN c |-> Waiter[c[i]]]
  BY <1>2, FifosNow
<1>4. PICK l \in Nat : l = Len(c) /\ DOMAIN c = 1 .. l /\ 1 \in 1 .. l
  BY <1>1, <1>2
<1>5. PICK w : w = Fifos[k]
  OBVIOUS
<1>6. w = [i \in 1 .. l |-> Waiter[c[i]]]
  BY <1>3, <1>4, <1>5
<1>7. w \in Seq({w[i] : i \in 1 .. l}) /\ Len(w) = l /\ w[1] = Waiter[c[1]]
  BY <1>4, <1>6
<1>8. w # <<>> /\ Head(w) = w[1]
  BY <1>4, <1>7
<1>. QED BY <1>1, <1>2, <1>5, <1>7, <1>8

LEMMA InitFifos == WaitRegistryInit => Abstract!WaitQueuesInit
<1> SUFFICES ASSUME WaitRegistryInit PROVE Abstract!WaitQueuesInit
  OBVIOUS
<1>1. RegistryInv
  BY InitInv
<1>2. \A k \in Keys : per_key[k].head = NoNode
  BY DEF WaitRegistryInit, EmptyList
<1>3. \A k \in Keys : Fifos[k] = <<>> /\ Fifos[k] = Waiters(k)
  BY <1>1, <1>2, NoWaiters DEF Fifos
<1>4. outcome = Abstract!Nobody
  BY DEF WaitRegistryInit, Nobody, Abstract!Nobody
<1>. QED BY <1>3, <1>4 DEF Abstract!WaitQueuesInit

\* A registered select joins the FIFOs under an id that nobody in them has.
LEMMA RegisterIsAbstract ==
    ASSUME RegistryInv, NEW f \in Fibers, NEW keys \in ArmLists, RegisterSelect(f, keys)
    PROVE  Abstract!WaitQueuesNext
<1>1. keys \in Seq(Keys)
  BY ArmListsAreLists
<1>2. PICK r, arms : Enters(f, keys, r, arms)
  BY RegisterEnters
<1>3. /\ \A q \in DOMAIN regs.entries : regs.entries[q].fiber_id # f
      /\ Cardinality(DOMAIN nodes.entries) + Len(keys) <= MaxNodes
      /\ outcome' = Nobody
  BY DEF RegisterSelect
<1>4. r \in RegIds /\ r \notin DOMAIN regs.entries
  BY <1>1, <1>2, <1>3, SelectComes
<1> DEFINE entries == [i \in DOMAIN keys |-> [select |-> r, fiber |-> f, arm |-> i]]
           Mine(k) == {i \in DOMAIN keys : keys[i] = k}
<1>5. Fifos' = [k \in Keys |-> Fifos[k] \o At(entries, Mine(k))]
  <2>1. Fifos' = FifosWith(f, keys, r)
    BY <1>1, <1>2, <1>3, FifosGrow
  <2>. QED BY <2>1 DEF FifosWith
<1>6. \A k : Abstract!EntriesFor(k, r, f, keys) = At(entries, Mine(k))
  <2>1. \A k : Abstract!EntriesFor(k, r, f, keys) = Abstract!At(entries, Mine(k))
    BY DEF Abstract!EntriesFor
  <2> HIDE DEF entries, Mine
  <2>2. \A k : Abstract!At(entries, Mine(k)) = At(entries, Mine(k))
    BY SamePositions
  <2>. QED BY <2>1, <2>2
<1> HIDE DEF entries, Mine
<1>7. Abstract!Register(r, f, keys)
  <2>1. [k \in Keys |-> Waiters(k)]' = [k \in Keys |-> [h \in Keys |-> Waiters(h)][k] \o
                                           Abstract!EntriesFor(k, r, f, keys)]
    BY <1>5, <1>6 DEF Fifos
  <2>2. outcome' = Abstract!Nobody
    BY <1>3 DEF Nobody, Abstract!Nobody
  <2>. QED BY <2>1, <2>2 DEF Abstract!Register
<1>8. r \in Abstract!Vacant
  <2>1. ASSUME NEW k \in Keys, NEW w \in Abstract!ToSet(Fifos[k]) PROVE w.select # r
    <3>1. PICK c, fifo : c = Chain(k) /\ fifo = Fifos[k]
      OBVIOUS
    <3>2. /\ fifo = [i \in DOMAIN c |-> Waiter[c[i]]]
          /\ \A i \in DOMAIN c : /\ c[i] \in DOMAIN nodes.entries
                                 /\ fifo[i].select = nodes.entries[c[i]].reg_id
      BY <3>1, FifosNow
    <3>3. PICK i \in DOMAIN fifo : w = fifo[i]
      BY <2>1, <3>1 DEF Abstract!ToSet
    <3>4. i \in DOMAIN c
      BY <3>2
    <3>5. w.select \in DOMAIN regs.entries
      BY <3>2, <3>3, <3>4 DEF RegistryInv, NodesOwned
    <3>. QED BY <1>4, <3>5
  <2>2. \A k \in Keys : \A w \in Abstract!ToSet([h \in Keys |-> Waiters(h)][k]) : w.select # r
    BY <2>1 DEF Fifos
  <2>. QED BY <1>4, <2>2 DEF Abstract!Vacant
<1>9. keys \in Abstract!ArmLists
  BY DEF ArmLists, Abstract!ArmLists
<1>. QED BY <1>7, <1>8, <1>9 DEF Abstract!WaitQueuesNext

\* A withdrawn select leaves the FIFOs.
LEMMA WithdrawIsAbstract ==
    ASSUME RegistryInv, NEW r \in DOMAIN regs.entries, Withdraws(r)
    PROVE  [k \in Keys |-> Waiters(k)]' = Abstract!Without(r)
<1> DEFINE Rest(k) == {i \in DOMAIN Fifos[k] : Fifos[k][i].select # r}
<1>1. Fifos' = [k \in Keys |-> At(Fifos[k], Rest(k))]
  BY FifosShrink
<1>2. \A k : Abstract!Others(Fifos[k], r) = Abstract!At(Fifos[k], Rest(k))
  BY DEF Abstract!Others
<1> HIDE DEF Rest
<1>3. \A k : Abstract!At(Fifos[k], Rest(k)) = At(Fifos[k], Rest(k))
  BY SamePositions
<1>4. Abstract!Without(r) = [k \in Keys |-> Abstract!Others(Fifos[k], r)]
  BY DEF Abstract!Without, Fifos
<1>5. Abstract!Without(r) = Fifos'
  BY <1>1, <1>2, <1>3, <1>4
<1>. QED BY <1>5 DEF Fifos

LEMMA WakeIsAbstract ==
    ASSUME RegistryInv, NEW key \in Keys, WakeOne(key)
    PROVE  Abstract!WaitQueuesNext
<1>1. PICK head : head = per_key[key].head
  OBVIOUS
<1>2. head # NoNode /\ per_key[key].head # NoNode
  BY <1>1 DEF WakeOne
<1>3. Consistent(head)
  BY <1>1, <1>2, HeadIsConsistent
<1>4. PICK r : r = nodes.entries[head].reg_id
  OBVIOUS
<1>5. r \in DOMAIN regs.entries /\ Withdraws(r)
  BY <1>1, <1>4, WakeWithdraws
<1>6. outcome' = [fiber |-> nodes.entries[head].fiber_id,
                  arm |-> CHOOSE i \in DOMAIN ArmsOf(r) : ArmsOf(r)[i].node_id = head]
  BY <1>1, <1>3, <1>4 DEF WakeOne, ArmsOf
<1>7. PICK first : first = Waiter[head]
  OBVIOUS
<1>8. first = [select |-> r, fiber |-> nodes.entries[head].fiber_id,
               arm |-> CHOOSE i \in DOMAIN ArmsOf(r) : ArmsOf(r)[i].node_id = head]
  BY <1>3, <1>4, <1>7 DEF Waiter, Consistent
<1>9. outcome' = [fiber |-> first.fiber, arm |-> first.arm] /\ first.select = r
  BY <1>6, <1>8
<1>10. PICK fifo : fifo = Fifos[key]
  OBVIOUS
<1>11. fifo # <<>> /\ Head(fifo) = first
  BY <1>1, <1>2, <1>7, <1>10, SomeWaiters
<1>12. [k \in Keys |-> Waiters(k)]' = Abstract!Without(r)
  BY <1>5, WithdrawIsAbstract
<1>13. [k \in Keys |-> Waiters(k)][key] = fifo
  BY <1>10 DEF Fifos
<1>14. Abstract!Wake(key)
  BY <1>9, <1>11, <1>12, <1>13 DEF Abstract!Wake
<1>. QED BY <1>14 DEF Abstract!WaitQueuesNext

LEMMA StepIsAbstract ==
    RegistryInv /\ [WaitRegistryNext]_registryVars
       => [Abstract!WaitQueuesNext]_<<[k \in Keys |-> Waiters(k)], outcome>>
<1> SUFFICES ASSUME RegistryInv, [WaitRegistryNext]_registryVars
             PROVE  [Abstract!WaitQueuesNext]_<<[k \in Keys |-> Waiters(k)], outcome>>
  OBVIOUS
<1>0. ASSUME per_key' = per_key, nodes' = nodes, regs' = regs
      PROVE  [k \in Keys |-> Waiters(k)]' = [k \in Keys |-> Waiters(k)]
  <2>1. \A k : Chain(k)' = Chain(k)
    BY <1>0 DEF Chain, Walk, Following
  <2>2. Waiter' = Waiter
    BY <1>0 DEF Waiter, ArmsOf
  <2>3. \A k \in Keys : Waiters(k)' = Waiters(k)
    BY <2>1, <2>2 DEF Waiters
  <2>. QED BY <2>3
<1>1. ASSUME NEW f \in Fibers, NEW keys \in ArmLists, RegisterSelect(f, keys)
      PROVE  Abstract!WaitQueuesNext
  BY <1>1, RegisterIsAbstract
<1>2. ASSUME NEW k \in Keys, WakeNobody(k) PROVE Abstract!WaitQueuesNext
  <2>1. per_key[k].head = NoNode /\ outcome' = Nobody
        /\ per_key' = per_key /\ nodes' = nodes /\ regs' = regs
    BY <1>2 DEF WakeNobody
  <2>2. [h \in Keys |-> Waiters(h)][k] = <<>>
    BY <2>1, NoWaiters DEF Fifos
  <2>3. outcome' = Abstract!Nobody
    BY <2>1 DEF Nobody, Abstract!Nobody
  <2>4. [h \in Keys |-> Waiters(h)]' = [h \in Keys |-> Waiters(h)]
    BY <1>0, <2>1
  <2>5. Abstract!Wake(k)
    BY <2>2, <2>3, <2>4 DEF Abstract!Wake
  <2>. QED BY <2>5 DEF Abstract!WaitQueuesNext
<1>3. ASSUME NEW k \in Keys, WakeOne(k) PROVE Abstract!WaitQueuesNext
  BY <1>3, WakeIsAbstract
<1>4. ASSUME NEW id \in DOMAIN regs.entries, CancelByRegisteredSelectId(id)
      PROVE  Abstract!WaitQueuesNext
  <2>1. Withdraws(id)
    BY <1>4 DEF CancelByRegisteredSelectId, Withdraws, ArmsOf
  <2>2. [h \in Keys |-> Waiters(h)]' = Abstract!Without(id)
    BY <2>1, WithdrawIsAbstract
  <2>3. outcome' = Abstract!Nobody
    BY <1>4 DEF CancelByRegisteredSelectId, Nobody, Abstract!Nobody
  <2>4. id \in RegIds
    BY RegistrationFacts
  <2>5. Abstract!Cancel(id)
    BY <2>2, <2>3 DEF Abstract!Cancel
  <2>. QED BY <2>4, <2>5 DEF Abstract!WaitQueuesNext
<1>5. CASE UNCHANGED registryVars
  <2>1. per_key' = per_key /\ nodes' = nodes /\ regs' = regs /\ outcome' = outcome
    BY <1>5 DEF registryVars
  <2>. QED BY <1>0, <2>1
<1>. QED BY <1>1, <1>2, <1>3, <1>4, <1>5 DEF WaitRegistryNext

\* The slabs, handles and linked lists of wait_registry.rs implement a FIFO per source:
\* wake_one takes who waited longest and withdraws its other arms, and nobody else
\* loses its place.
THEOREM ImplementsFifos == WaitRegistrySpec => ImplementsWaitQueues
  BY InitFifos, RegistryInvariant, StepIsAbstract, PTL
     DEF WaitRegistrySpec, ImplementsWaitQueues, Abstract!WaitQueuesSpec

=============================================================================
