--------------------------- MODULE PositionsProofs ---------------------------
(***************************************************************************)
(* Facts about natural numbers, lists and their positions that the proofs  *)
(* about the runtime and its wait registry share.                          *)
(***************************************************************************)
EXTENDS Positions, Functions, SequencesExt, FiniteSetTheorems, SequenceTheorems,
        WellFoundedInduction, TLAPS

\* A set of natural numbers has a least element.
LEMMA LeastNatural ==
    ASSUME NEW T \in SUBSET Nat, T # {}
    PROVE  \E x \in T : \A y \in T : x <= y
<1>1. \E x \in T : \A y \in T : ~ (<<y, x>> \in OpToRel(<, Nat))
  BY WFMin, NatLessThanWellFounded
<1>2. PICK x \in T : \A y \in T : ~ (<<y, x>> \in OpToRel(<, Nat))
  BY <1>1
<1>3. \A y \in T : ~ (y < x)
  BY <1>2 DEF OpToRel
<1>. QED BY <1>3

\* Induction with a set in the place of the predicate: what holds at 0 and goes
\* on from each number below a bound to the next holds up to the bound.
LEMMA TurnByTurn ==
    ASSUME NEW N \in Nat, NEW S, 0 \in S,
           \A i \in 1 .. N : i - 1 \in S => i \in S
    PROVE  \A i \in 0 .. N : i \in S
<1> DEFINE T == (0 .. N) \ S
<1> SUFFICES ASSUME T # {} PROVE FALSE
  OBVIOUS
<1>1. T \in SUBSET Nat
  OBVIOUS
<1>2. PICK n \in T : \A m \in T : n <= m
  BY <1>1, LeastNatural
<1>3. n \in 1 .. N /\ n \notin S
  BY <1>2
<1>4. n - 1 \in 0 .. N /\ ~ (n <= n - 1)
  BY <1>3
<1>5. n - 1 \in S
  BY <1>2, <1>4
<1>. QED BY <1>3, <1>5

-----------------------------------------------------------------------------
\* How many of some positions come before one of them.
Before(P, i) == Cardinality({j \in P : j < i})

LEMMA BeforeCounts ==
    ASSUME NEW P \in SUBSET Nat, IsFiniteSet(P), NEW i \in P
    PROVE  Before(P, i) \in 0 .. Cardinality(P) - 1
<1> DEFINE T == {j \in P : j < i}
<1>1. T \in SUBSET P /\ i \in P \ T
  OBVIOUS
<1>2. T # P
  BY <1>1
<1> HIDE DEF T
<1>3. IsFiniteSet(T) /\ Cardinality(T) <= Cardinality(P)
      /\ Cardinality(T) # Cardinality(P)
  BY <1>1, <1>2, FS_Subset
<1>4. Cardinality(T) \in Nat /\ Cardinality(P) \in Nat
  BY <1>3, FS_CardinalityType
<1>5. Before(P, i) = Cardinality(T)
  BY DEF Before, T
<1>. QED BY <1>3, <1>4, <1>5

LEMMA BeforeDiffers ==
    ASSUME NEW P \in SUBSET Nat, IsFiniteSet(P), NEW i \in P, NEW k \in P, i < k
    PROVE  Before(P, i) < Before(P, k)
<1> DEFINE S == {j \in P : j < i}
           T == {j \in P : j < k}
<1>0. i \in Nat /\ k \in Nat /\ \A j \in P : j < i => j < k
  OBVIOUS
<1>7. i \in T /\ i \notin S
  BY <1>0
<1>1. S \in SUBSET T /\ T \in SUBSET P /\ i \in T \ S
  BY <1>0, <1>7
<1>2. S # T
  BY <1>1
<1> HIDE DEF S, T
<1>3. IsFiniteSet(T)
  BY <1>1, FS_Subset
<1>4. IsFiniteSet(S) /\ Cardinality(S) <= Cardinality(T)
      /\ Cardinality(S) # Cardinality(T)
  BY <1>1, <1>2, <1>3, FS_Subset
<1>5. Cardinality(S) \in Nat /\ Cardinality(T) \in Nat
  BY <1>3, <1>4, FS_CardinalityType
<1>6. Before(P, i) = Cardinality(S) /\ Before(P, k) = Cardinality(T)
  BY DEF Before, S, T
<1>. QED BY <1>4, <1>5, <1>6

\* Every number below the size of a finite set counts before one of its
\* elements.
LEMMA BeforeReaches ==
    ASSUME NEW P \in SUBSET Nat, IsFiniteSet(P),
           NEW n \in 0 .. Cardinality(P) - 1
    PROVE  \E i \in P : Before(P, i) = n
<1> DEFINE T == 0 .. Cardinality(P) - 1
           f == [i \in P |-> Before(P, i)]
<1>1. Cardinality(P) \in Nat
  BY FS_CardinalityType
<1>2. f \in [P -> T]
  BY BeforeCounts
<1>3. ASSUME NEW i \in P, NEW k \in P, f[i] = f[k] PROVE i = k
  <2>1. Before(P, i) = Before(P, k) /\ Before(P, i) \in Int
        /\ Before(P, k) \in Int
    BY <1>3, BeforeCounts
  <2>2. ~ (i < k) /\ ~ (k < i)
    BY <2>1, BeforeDiffers
  <2>. QED BY <2>2
<1>4. f \in Injection(P, T)
  <2>1. DOMAIN f = P
    OBVIOUS
  <2>. QED BY <1>2, <1>3, <2>1 DEF Injection, IsInjective
<1>5. IsFiniteSet(T) /\ Cardinality(T) = Cardinality(P)
  <2>0. PICK c \in Int : c = Cardinality(P) - 1
    BY <1>1
  <2>1. IsFiniteSet(0 .. c)
        /\ Cardinality(0 .. c) = IF 0 > c THEN 0 ELSE c - 0 + 1
    BY FS_Interval, 0 \in Int
  <2>. QED BY <1>1, <2>0, <2>1
<1>6. f \in Surjection(P, T)
  BY <1>4, <1>5, FS_Injection
<1>7. \E i \in P : f[i] = n
  BY <1>6 DEF Surjection
<1>. QED BY <1>7


\* The element at each of the positions, and where At puts it.
LEMMA AtPlaces ==
    ASSUME NEW list, NEW P \in SUBSET Nat, IsFiniteSet(P)
    PROVE  /\ Cardinality(P) \in Nat
           /\ DOMAIN At(list, P) = 1 .. Cardinality(P)
           /\ At(list, P) = [n \in 1 .. Cardinality(P) |-> At(list, P)[n]]
           /\ \A p \in P : /\ Before(P, p) + 1 \in 1 .. Cardinality(P)
                           /\ At(list, P)[Before(P, p) + 1] = list[p]
           /\ \A n \in 1 .. Cardinality(P) :
                 \E p \in P : n = Before(P, p) + 1
<1> DEFINE c == Cardinality(P)
<1>1. c \in Nat
  BY FS_CardinalityType
<1>2. At(list, P) = [n \in 1 .. c |-> list[Nth(P, n)]]
  BY DEF At
<1>3. ASSUME NEW p \in P
      PROVE  /\ Before(P, p) + 1 \in 1 .. c
             /\ At(list, P)[Before(P, p) + 1] = list[p]
  <2>1. PICK b \in 0 .. c - 1 : b = Before(P, p)
    BY BeforeCounts
  <2>2. b + 1 \in 1 .. c /\ (b + 1) - 1 = b
    BY <1>1
  <2>3. Nth(P, b + 1) = CHOOSE i \in P : Before(P, i) = b
    BY <2>2 DEF Nth, Before
  <2>4. PICK q \in P : q = Nth(P, b + 1) /\ Before(P, q) = b
    BY <2>1, <2>3
  <2>5. ~ (q < p) /\ ~ (p < q)
    BY <2>1, <2>4, BeforeDiffers
  <2>6. q = p
    BY <2>5
  <2>. QED BY <1>2, <2>1, <2>2, <2>4, <2>6
<1>4. ASSUME NEW n \in 1 .. c
      PROVE  \E p \in P : n = Before(P, p) + 1
  <2>1. n - 1 \in 0 .. c - 1
    BY <1>1
  <2>2. PICK p \in P : Before(P, p) = n - 1
    BY <2>1, BeforeReaches
  <2>. QED BY <2>2
<1>. QED BY <1>1, <1>2, <1>3, <1>4

\* A list that has the right elements at the right places is At.
LEMMA AtUnique ==
    ASSUME NEW list, NEW P \in SUBSET Nat, IsFiniteSet(P),
           NEW S, NEW s \in [1 .. Cardinality(P) -> S],
           \A p \in P : s[Before(P, p) + 1] = list[p]
    PROVE  s = At(list, P)
<1>1. ASSUME NEW n \in 1 .. Cardinality(P)
      PROVE  s[n] = At(list, P)[n]
  <2>1. PICK p \in P : n = Before(P, p) + 1
    BY AtPlaces
  <2>2. s[n] = list[p]
    BY <2>1
  <2>3. At(list, P)[n] = list[p]
    BY <2>1, AtPlaces
  <2>. QED BY <2>2, <2>3
<1>2. At(list, P) = [n \in 1 .. Cardinality(P) |-> At(list, P)[n]]
  BY AtPlaces
<1>. QED BY <1>1, <1>2

\* Only the elements at the positions count.
LEMMA AtSame ==
    ASSUME NEW list, NEW other, NEW P \in SUBSET Nat, IsFiniteSet(P),
           \A p \in P : list[p] = other[p]
    PROVE  At(list, P) = At(other, P)
<1> DEFINE s == At(list, P)
           S == {s[n] : n \in 1 .. Cardinality(P)}
<1>1. /\ s = [n \in 1 .. Cardinality(P) |-> s[n]]
      /\ \A p \in P : s[Before(P, p) + 1] = list[p]
  BY AtPlaces
<1> HIDE DEF s
<1>2. s \in [1 .. Cardinality(P) -> S] /\ \A p \in P : s[Before(P, p) + 1] = other[p]
  BY <1>1
<1> HIDE DEF S
<1>3. s = At(other, P)
  BY <1>2, AtUnique
<1>. QED BY <1>3 DEF s

LEMMA AtNone ==
    ASSUME NEW list
    PROVE  At(list, {}) = <<>>
<1>1. Cardinality({}) = 0
  BY FS_EmptySet
<1>. QED BY <1>1 DEF At

LEMMA AtAll ==
    ASSUME NEW S, NEW list \in Seq(S)
    PROVE  At(list, DOMAIN list) = list
<1> DEFINE P == 1 .. Len(list)
<1>1. Len(list) \in Nat /\ DOMAIN list = P /\ P \in SUBSET Nat
      /\ list = [n \in P |-> list[n]]
  OBVIOUS
<1>2. IsFiniteSet(P) /\ Cardinality(P) = Len(list)
  <2>1. PICK n \in Int : n = Len(list)
    BY <1>1
  <2>2. /\ IsFiniteSet(1 .. n)
        /\ Cardinality(1 .. n) = IF 1 > n THEN 0 ELSE n - 1 + 1
    BY FS_Interval, 1 \in Int
  <2>. QED BY <1>1, <2>1, <2>2
<1>3. ASSUME NEW p \in P PROVE Before(P, p) + 1 = p
  <2>1. {j \in P : j < p} = 1 .. p - 1
    BY <1>1
  <2>2. Cardinality(1 .. p - 1) = IF 1 > p - 1 THEN 0 ELSE (p - 1) - 1 + 1
    <3>1. PICK m \in Int : m = p - 1
      BY <1>1
    <3>2. Cardinality(1 .. m) = IF 1 > m THEN 0 ELSE m - 1 + 1
      BY FS_Interval, 1 \in Int
    <3>. QED BY <3>1, <3>2
  <2>3. Before(P, p) = Cardinality(1 .. p - 1)
    BY <2>1 DEF Before
  <2>4. p \in Nat /\ p >= 1
    BY <1>1
  <2>. QED BY <2>2, <2>3, <2>4
<1>4. \A p \in P : list[Before(P, p) + 1] = list[p]
  BY <1>3
<1>5. list \in [1 .. Cardinality(P) -> S]
  BY <1>1, <1>2
<1>7. P \in SUBSET Nat /\ IsFiniteSet(P)
  BY <1>1, <1>2
<1> HIDE DEF P
<1>6. list = At(list, P)
  BY <1>4, <1>5, <1>7, AtUnique
<1>. QED BY <1>1, <1>6

\* A list without its m-th element.
Removed(list, m) ==
    [n \in 1 .. Len(list) - 1 |-> IF n < m THEN list[n] ELSE list[n + 1]]

LEMMA AtRemoves ==
    ASSUME NEW list, NEW P \in SUBSET Nat, IsFiniteSet(P), NEW p \in P
    PROVE  At(list, P \ {p}) = Removed(At(list, P), Before(P, p) + 1)
<1> DEFINE Q == P \ {p}
           s == At(list, P)
           m == Before(P, p) + 1
           t == Removed(s, m)
<1>1. Q \in SUBSET Nat /\ IsFiniteSet(Q) /\ Cardinality(Q) = Cardinality(P) - 1
  BY FS_RemoveElement
<1>2. Cardinality(P) \in Nat /\ DOMAIN s = 1 .. Cardinality(P) /\ Len(s) = Cardinality(P)
  <2>1. Cardinality(P) \in Nat /\ DOMAIN s = 1 .. Cardinality(P)
        /\ s = [n \in 1 .. Cardinality(P) |-> s[n]]
    BY AtPlaces
  <2> HIDE DEF s
  <2>2. s \in Seq({s[n] : n \in 1 .. Cardinality(P)})
    BY <2>1
  <2>. QED BY <2>1, <2>2
<1>3. m \in 1 .. Cardinality(P)
  BY AtPlaces
<1>4. t = [n \in 1 .. Cardinality(Q) |-> t[n]]
      /\ \A n \in 1 .. Cardinality(Q) : t[n] = IF n < m THEN s[n] ELSE s[n + 1]
  BY <1>1, <1>2 DEF Removed
<1>5. ASSUME NEW q \in Q PROVE t[Before(Q, q) + 1] = list[q]
  <2> DEFINE b == Before(P, q)
             d == Before(Q, q)
  <2>1. b + 1 \in 1 .. Cardinality(P) /\ s[b + 1] = list[q]
    BY AtPlaces
  <2>2. d + 1 \in 1 .. Cardinality(Q)
    BY <1>1, AtPlaces
  <2>3. b \in Nat /\ d \in Nat /\ Before(P, p) \in Nat
    <3>1. /\ b \in 0 .. Cardinality(P) - 1
          /\ Before(P, p) \in 0 .. Cardinality(P) - 1
      BY BeforeCounts
    <3>2. d \in 0 .. Cardinality(Q) - 1
      BY <1>1, BeforeCounts
    <3>. QED BY <3>1, <3>2
  <2>4. CASE q < p
    <3>1. {j \in Q : j < q} = {j \in P : j < q}
      BY <2>4
    <3>2. d = b
      BY <3>1 DEF Before
    <3>3. b < Before(P, p)
      BY <2>4, BeforeDiffers
    <3> HIDE DEF b, d, t, s
    <3>4. t[d + 1] = s[b + 1]
      BY <1>3, <1>4, <2>2, <2>3, <3>2, <3>3
    <3>. QED BY <2>1, <3>4 DEF d
  <2>5. CASE p < q
    <3> DEFINE B == {j \in P : j < q}
    <3>1. {j \in Q : j < q} = B \ {p} /\ p \in B
      BY <2>5
    <3>2. IsFiniteSet(B)
      BY FS_Subset
    <3>3. Cardinality(B \ {p}) = Cardinality(B) - 1
      BY <3>1, <3>2, FS_RemoveElement
    <3>4. d = b - 1
      BY <3>1, <3>3 DEF Before
    <3>5. Before(P, p) < b
      BY <2>5, BeforeDiffers
    <3> HIDE DEF b, d, t, s
    <3>6. t[d + 1] = s[b + 1]
      <4>1. PICK x \in Nat, y \in Nat : x = b /\ y = Before(P, p)
        BY <2>3
      <4>2. d + 1 = x /\ m = y + 1 /\ y < x
        BY <3>4, <3>5, <4>1
      <4>3. ~ (x < y + 1)
        BY <4>2
      <4>. QED BY <1>4, <2>2, <4>1, <4>2, <4>3
    <3>. QED BY <2>1, <3>6 DEF d
  <2>. QED BY <2>4, <2>5
<1> DEFINE S == {t[n] : n \in 1 .. Cardinality(Q)}
<1> HIDE DEF Q, t
<1>7. t \in [1 .. Cardinality(Q) -> S]
  BY <1>4
<1> HIDE DEF S
<1>6. t = At(list, Q)
  BY <1>1, <1>5, <1>7, AtUnique
<1>. QED BY <1>6 DEF Q, t

LEMMA AtAppends ==
    ASSUME NEW list, NEW P \in SUBSET Nat, IsFiniteSet(P), NEW m \in Nat,
           \A p \in P : p < m
    PROVE  At(list, P \cup {m}) = Append(At(list, P), list[m])
<1> DEFINE Q == P \cup {m}
           s == At(list, P)
           t == Append(s, list[m])
<1>1. m \notin P
  OBVIOUS
<1>2. Q \in SUBSET Nat /\ IsFiniteSet(Q) /\ Cardinality(Q) = Cardinality(P) + 1
  BY <1>1, FS_AddElement
<1>3. Cardinality(P) \in Nat /\ DOMAIN s = 1 .. Cardinality(P) /\ Len(s) = Cardinality(P)
      /\ s \in Seq({s[n] : n \in 1 .. Cardinality(P)})
  <2>1. Cardinality(P) \in Nat /\ DOMAIN s = 1 .. Cardinality(P)
        /\ s = [n \in 1 .. Cardinality(P) |-> s[n]]
    BY AtPlaces
  <2> HIDE DEF s
  <2>2. s \in Seq({s[n] : n \in 1 .. Cardinality(P)})
    BY <2>1
  <2>. QED BY <2>1, <2>2
<1>4. t = [n \in 1 .. Cardinality(Q) |-> t[n]]
      /\ (\A n \in 1 .. Cardinality(P) : t[n] = s[n])
      /\ t[Cardinality(P) + 1] = list[m]
  <2> DEFINE S == {s[n] : n \in 1 .. Cardinality(P)} \cup {list[m]}
  <2>1. s \in Seq(S) /\ list[m] \in S
    BY <1>3
  <2> HIDE DEF s, S, Q
  <2>2. Append(s, list[m]) \in Seq(S) /\ Len(t) = Len(s) + 1
        /\ (\A n \in 1 .. Len(s) : t[n] = s[n]) /\ t[Len(s) + 1] = list[m]
    BY <2>1
  <2>3. t = [n \in 1 .. Len(t) |-> t[n]]
    BY <2>2
  <2>. QED BY <1>2, <1>3, <2>2, <2>3
<1>5. ASSUME NEW q \in Q PROVE t[Before(Q, q) + 1] = list[q]
  <2>1. CASE q \in P
    <3>1. {j \in Q : j < q} = {j \in P : j < q}
      BY <2>1
    <3>2. Before(Q, q) = Before(P, q)
      BY <3>1 DEF Before
    <3>3. Before(P, q) + 1 \in 1 .. Cardinality(P) /\ s[Before(P, q) + 1] = list[q]
      BY <2>1, AtPlaces
    <3> HIDE DEF s, t
    <3>. QED BY <1>4, <3>2, <3>3
  <2>2. CASE q = m
    <3>1. {j \in Q : j < m} = P
      <4>1. ~ (m < m) /\ \A j \in Q : j = m \/ j \in P
        OBVIOUS
      <4>2. \A j \in P : j \in Q /\ j < m
        OBVIOUS
      <4> HIDE DEF Q
      <4>. QED BY <4>1, <4>2
    <3>2. Before(Q, m) = Cardinality(P)
      BY <3>1 DEF Before
    <3>. QED BY <1>4, <2>2, <3>2
  <2>. QED BY <2>1, <2>2
<1> DEFINE S == {t[n] : n \in 1 .. Cardinality(Q)}
<1> HIDE DEF Q, t
<1>7. t \in [1 .. Cardinality(Q) -> S]
  BY <1>4
<1> HIDE DEF S
<1>6. t = At(list, Q)
  BY <1>2, <1>5, <1>7, AtUnique
<1>. QED BY <1>6 DEF Q, t

\* What a list holds at some of its positions.
LEMMA AtElements ==
    ASSUME NEW S, NEW list \in Seq(S), NEW P \in SUBSET DOMAIN list
    PROVE  /\ P \in SUBSET Nat /\ IsFiniteSet(P)
           /\ At(list, P) \in Seq(S)
           /\ ToSet(At(list, P)) = {list[i] : i \in P}
<1> DEFINE s == At(list, P)
           c == Cardinality(P)
<1>1. P \in SUBSET Nat /\ IsFiniteSet(P)
  <2>1. DOMAIN list = 1 .. Len(list) /\ Len(list) \in Nat
    OBVIOUS
  <2>2. IsFiniteSet(1 .. Len(list))
    BY <2>1, FS_Interval, 1 \in Int, Len(list) \in Int
  <2>. QED BY <2>1, <2>2, FS_Subset
<1>2. /\ c \in Nat /\ DOMAIN s = 1 .. c /\ s = [n \in 1 .. c |-> s[n]]
      /\ \A p \in P : Before(P, p) + 1 \in 1 .. c /\ s[Before(P, p) + 1] = list[p]
  BY <1>1, AtPlaces
<1>3. ASSUME NEW n \in 1 .. c PROVE \E p \in P : s[n] = list[p]
  <2>1. PICK p \in P : n = Before(P, p) + 1
    BY <1>1, AtPlaces
  <2>. QED BY <1>2, <2>1
<1> HIDE DEF s
<1>4. \A n \in 1 .. c : s[n] \in S
  BY <1>3
<1>5. s \in Seq(S)
  BY <1>2, <1>4
<1>6. \A p \in P : list[p] \in ToSet(s)
  BY <1>2 DEF ToSet
<1>7. \A x \in ToSet(s) : x \in {list[i] : i \in P}
  BY <1>2, <1>3 DEF ToSet
<1>8. ToSet(s) = {list[i] : i \in P}
  BY <1>6, <1>7
<1>. QED BY <1>1, <1>5, <1>8 DEF s

-----------------------------------------------------------------------------
\* Elements of lists after the operations of VecDeque.
LEMMA ListAppend ==
    ASSUME NEW S, NEW list \in Seq(S), NEW x \in S
    PROVE  Append(list, x) \in Seq(S) /\ ToSet(Append(list, x)) = ToSet(list) \cup {x}
<1> DEFINE t == Append(list, x)
<1>1. /\ t \in Seq(S) /\ DOMAIN list = 1 .. Len(list)
      /\ DOMAIN t = 1 .. Len(list) + 1 /\ t[Len(list) + 1] = x
      /\ \A i \in 1 .. Len(list) : t[i] = list[i]
  OBVIOUS
<1>2. DOMAIN t = DOMAIN list \cup {Len(list) + 1}
  BY <1>1
<1> HIDE DEF t
<1>3. ToSet(t) = ToSet(list) \cup {x}
  BY <1>1, <1>2 DEF ToSet
<1>. QED BY <1>1, <1>3 DEF t

LEMMA ListPush ==
    ASSUME NEW S, NEW list \in Seq(S), NEW x \in S
    PROVE  <<x>> \o list \in Seq(S) /\ ToSet(<<x>> \o list) = ToSet(list) \cup {x}
<1> DEFINE t == <<x>> \o list
<1>1. t \in Seq(S) /\ DOMAIN t = 1 .. Len(list) + 1 /\ t[1] = x
      /\ \A i \in 1 .. Len(list) : t[i + 1] = list[i]
  OBVIOUS
<1>2. \A i \in 2 .. Len(list) + 1 : i - 1 \in 1 .. Len(list) /\ t[i] = list[i - 1]
  OBVIOUS
<1>3. \A i \in 1 .. Len(list) : i + 1 \in DOMAIN t
  OBVIOUS
<1>4. DOMAIN list = 1 .. Len(list) /\ 1 \in DOMAIN t
      /\ \A i \in DOMAIN t : i = 1 \/ i \in 2 .. Len(list) + 1
  BY <1>1
<1> HIDE DEF t
<1>5. ASSUME NEW y \in ToSet(t) PROVE y \in ToSet(list) \cup {x}
  <2>1. PICK i \in DOMAIN t : t[i] = y
    BY <1>5 DEF ToSet
  <2>2. CASE i = 1
    BY <1>1, <2>1, <2>2
  <2>3. CASE i \in 2 .. Len(list) + 1
    <3>1. i - 1 \in DOMAIN list /\ y = list[i - 1]
      BY <1>2, <1>4, <2>1, <2>3
    <3>. QED BY <3>1 DEF ToSet
  <2>. QED BY <1>4, <2>2, <2>3
<1>6. \A y \in ToSet(list) : y \in ToSet(t)
  BY <1>1, <1>3, <1>4 DEF ToSet
<1>7. x \in ToSet(t)
  BY <1>1, <1>4 DEF ToSet
<1>8. ToSet(t) = ToSet(list) \cup {x}
  BY <1>5, <1>6, <1>7
<1>. QED BY <1>1, <1>8 DEF t

LEMMA ListTail ==
    ASSUME NEW S, NEW list \in Seq(S), list # <<>>
    PROVE  /\ Head(list) \in ToSet(list) /\ Head(list) \in S
           /\ Tail(list) \in Seq(S)
           /\ ToSet(list) = ToSet(Tail(list)) \cup {Head(list)}
<1>1. /\ DOMAIN list = 1 .. Len(list) /\ Len(list) >= 1 /\ Head(list) = list[1]
      /\ Tail(list) \in Seq(S) /\ DOMAIN Tail(list) = 1 .. Len(list) - 1
      /\ \A i \in 1 .. Len(list) - 1 : Tail(list)[i] = list[i + 1]
  OBVIOUS
<1>2. \A i \in 2 .. Len(list) : i - 1 \in 1 .. Len(list) - 1
                                /\ Tail(list)[i - 1] = list[i]
  BY <1>1
<1>3. 1 \in DOMAIN list /\ (\A i \in DOMAIN list : i = 1 \/ i \in 2 .. Len(list))
      /\ \A i \in 1 .. Len(list) - 1 : i + 1 \in DOMAIN list
  BY <1>1
<1>4. Head(list) \in ToSet(list) /\ Head(list) \in S
  BY <1>1, <1>3 DEF ToSet
<1>5. \A y \in ToSet(Tail(list)) : y \in ToSet(list)
  BY <1>1, <1>3 DEF ToSet
<1>6. \A y \in ToSet(list) : y \in ToSet(Tail(list)) \cup {Head(list)}
  <2> SUFFICES ASSUME NEW i \in DOMAIN list
               PROVE  list[i] \in ToSet(Tail(list)) \cup {Head(list)}
    BY DEF ToSet
  <2>1. CASE i = 1
    BY <1>1, <2>1
  <2>2. CASE i \in 2 .. Len(list)
    BY <1>1, <1>2, <2>2 DEF ToSet
  <2>. QED BY <1>3, <2>1, <2>2
<1>. QED BY <1>1, <1>4, <1>5, <1>6

\* A list stays without duplicates: what is new is added, what is first is
\* taken, and what is first goes to the back.
LEMMA AppendKeepsApart ==
    ASSUME NEW S, NEW list \in Seq(S), IsInjective(list), NEW x \in S \ ToSet(list)
    PROVE  IsInjective(Append(list, x))
<1> DEFINE t == Append(list, x)
<1>1. /\ DOMAIN list = 1 .. Len(list) /\ DOMAIN t = DOMAIN list \cup {Len(list) + 1}
      /\ t[Len(list) + 1] = x
      /\ \A i \in DOMAIN list : t[i] = list[i]
  OBVIOUS
<1>2. \A i \in DOMAIN list : t[i] # x
  BY <1>1 DEF ToSet
<1> HIDE DEF t
<1>3. IsInjective(t)
  BY <1>1, <1>2 DEF IsInjective
<1>. QED BY <1>3 DEF t

LEMMA PushKeepsApart ==
    ASSUME NEW S, NEW list \in Seq(S), IsInjective(list), NEW x \in S \ ToSet(list)
    PROVE  IsInjective(<<x>> \o list)
<1> DEFINE t == <<x>> \o list
<1>1. t \in Seq(S) /\ DOMAIN t = 1 .. Len(list) + 1 /\ t[1] = x
  OBVIOUS
<1>2. \A i \in 2 .. Len(list) + 1 : i - 1 \in DOMAIN list /\ t[i] = list[i - 1]
  OBVIOUS
<1> HIDE DEF t
<1>3. \A i \in 2 .. Len(list) + 1 : t[i] # x
  BY <1>2 DEF ToSet
<1>4. ASSUME NEW i \in DOMAIN t, NEW k \in DOMAIN t, t[i] = t[k]
      PROVE  i = k
  <2>1. CASE i = 1 \/ k = 1
    BY <1>1, <1>3, <1>4, <2>1
  <2>2. CASE i # 1 /\ k # 1
    <3>1. i \in 2 .. Len(list) + 1 /\ k \in 2 .. Len(list) + 1
      BY <1>1, <2>2
    <3>2. i - 1 = k - 1
      BY <1>2, <1>4, <3>1 DEF IsInjective
    <3>. QED BY <3>1, <3>2
  <2>. QED BY <2>1, <2>2
<1>. QED BY <1>4 DEF IsInjective, t

LEMMA TailKeepsApart ==
    ASSUME NEW S, NEW list \in Seq(S), IsInjective(list), list # <<>>
    PROVE  IsInjective(Tail(list)) /\ ToSet(Tail(list)) = ToSet(list) \ {Head(list)}
<1>1. /\ DOMAIN list = 1 .. Len(list) /\ Len(list) >= 1 /\ Head(list) = list[1]
      /\ DOMAIN Tail(list) = 1 .. Len(list) - 1
      /\ \A i \in 1 .. Len(list) - 1 : Tail(list)[i] = list[i + 1]
  OBVIOUS
<1>2. \A i \in 1 .. Len(list) - 1 : i + 1 \in DOMAIN list /\ i + 1 # 1
  BY <1>1
<1>3. IsInjective(Tail(list)) /\ Head(list) \notin ToSet(Tail(list))
  BY <1>1, <1>2 DEF IsInjective, ToSet
<1>. QED BY <1>3, ListTail

=============================================================================
