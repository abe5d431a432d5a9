----------------------------- MODULE ListProofs -----------------------------
(***************************************************************************)
(* Proofs about the linked lists (List, ListSpec), for any number of lists *)
(* and links: the rings stay intact, the lengths stay valid, loops visit   *)
(* what they shall, and every operation does to the sequence a ring stands *)
(* for what ListSpec says.                                                 *)
(***************************************************************************)
EXTENDS List, FiniteSetTheorems, FunctionTheorems, SequenceTheorems,
        WellFoundedInduction, TLAPS

-----------------------------------------------------------------------------
(* Rings and the sequences they stand for.                                 *)

First(s, b) == IF s = <<>> THEN b ELSE s[1]
Final(a, s) == IF s = <<>> THEN a ELSE s[Len(s)]

(* The pointers f lead from node a through the links s to node b.          *)
Path(f, a, s, b) ==
    /\ f[a] = First(s, b)
    /\ \A i \in 1..Len(s) : f[s[i]] = IF i = Len(s) THEN b ELSE s[i + 1]

(* Sequences of links, put together.                                       *)
Join(u, v) == u \o v
One(x) == <<x>>

RingNodes(l, s) == {l} \cup Elements(s)

Simple(s) == \A i, j \in 1..Len(s) : s[i] = s[j] => i = j

(* No link is in two places.                                               *)
Proper(c) ==
    /\ c \in [Lists -> Seq(Links)]
    /\ \A l \in Lists : Simple(c[l])
    /\ \A l, m \in Lists : l # m => Elements(c[l]) \cap Elements(c[m]) = {}

(* The pointers f make rings of the sequences c.                           *)
Rings(f, c) == \A l \in Lists : Path(f, l, c[l], l)

Reversed(s) == [i \in 1..Len(s) |-> s[Len(s) + 1 - i]]
Backwards(c) == [l \in Lists |-> Reversed(c[l])]

LEMMA LinksAndLists ==
    /\ Links \cap Lists = {} /\ Nodes = Links \cup Lists
    /\ IsFiniteSet(Links) /\ Cardinality(Links) \in Nat
    /\ SizeMod \in Nat /\ Cardinality(Links) < SizeMod
  BY ListAssumption, FS_CardinalityType DEF Nodes

-----------------------------------------------------------------------------
(* Reading a ring returns the sequence.                                    *)

Less == {ss \in Nat \X Nat : ss[1] < ss[2]}

LEMMA LeastElement ==
    ASSUME NEW T, T \subseteq Nat, T # {}
    PROVE  \E x \in T : \A y \in T : x <= y
<1>1. IsWellFoundedOn(Less, Nat)
  BY NatLessThanWellFounded DEF OpToRel, Less
<1>2. PICK x \in T : \A y \in T : ~(<<y, x>> \in Less)
  BY <1>1, WFMin
<1>3. ASSUME NEW y \in T, y < x PROVE FALSE
  <2>1. <<y, x>> \in Less
    BY <1>3 DEF Less
  <2> QED
    BY <1>2, <2>1
<1> QED
  BY <1>2, <1>3

(* A list is not longer than there are links.                              *)
LEMMA AtMostAll ==
    ASSUME NEW s \in Seq(Links), Simple(s)
    PROVE  Len(s) <= Cardinality(Links)
<1>1. Len(s) \in Nat /\ s \in [1..Len(s) -> Links]
  OBVIOUS
<1>2. s \in Injection(1..Len(s), Links)
  BY <1>1 DEF Simple, Injection, IsInjective
<1>3. IsFiniteSet(1..Len(s)) /\ Cardinality(1..Len(s)) = Len(s)
  BY <1>1, FS_Interval
<1>4. Cardinality(1..Len(s)) <= Cardinality(Links)
  BY <1>2, LinksAndLists, FS_Injection
<1> QED
  BY <1>3, <1>4

(* Following the pointers f from x is well-defined.                        *)
Follows(h, f, x, k) ==
    h = [n \in 0..k |-> IF n = 0 THEN x ELSE f[h[n - 1]]]

LEMMA FollowExists ==
    ASSUME NEW f, NEW x, NEW k \in Nat
    PROVE  \E h : Follows(h, f, x, k)
<1> DEFINE T == {m \in Nat : ~\E h : Follows(h, f, x, m)}
<1> SUFFICES ASSUME T # {} PROVE FALSE
  OBVIOUS
<1>1. PICK m \in T : \A y \in T : m <= y
  BY LeastElement
<1>2. m # 0
  <2>1. Follows([n \in 0..0 |-> x], f, x, 0)
    BY DEF Follows
  <2> QED
    BY <1>1, <2>1
<1>3. m - 1 \in Nat /\ m - 1 \notin T
  BY <1>1, <1>2
<1>4. PICK h : Follows(h, f, x, m - 1)
  BY <1>3
<1> DEFINE h2 == [n \in 0..m |-> IF n = m THEN f[h[m - 1]] ELSE h[n]]
<1>5. ASSUME NEW n \in 0..m PROVE h2[n] = IF n = 0 THEN x ELSE f[h2[n - 1]]
  <2>1. CASE n = m
    BY <1>2, <1>3, <2>1
  <2>2. CASE n # m
    <3>1. n \in 0..(m - 1) /\ (n # 0 => n - 1 \in 0..(m - 1) /\ n - 1 # m)
      BY <1>3, <2>2
    <3>2. h[n] = IF n = 0 THEN x ELSE f[h[n - 1]]
      BY <1>4, <3>1 DEF Follows
    <3> QED
      BY <2>2, <3>1, <3>2
  <2> QED
    BY <2>1, <2>2
<1>6. Follows(h2, f, x, m)
  BY <1>5 DEF Follows
<1> QED
  BY <1>1, <1>6

LEMMA Follow ==
    ASSUME NEW f, NEW x
    PROVE  \A n \in 0..(Cardinality(Links) + 1) :
               LIST_forward(f, x)[n] =
                   IF n = 0 THEN x ELSE f[LIST_forward(f, x)[n - 1]]
<1> DEFINE k == Cardinality(Links) + 1
<1>1. k \in Nat
  BY LinksAndLists
<1>2. PICK h : Follows(h, f, x, k)
  BY <1>1, FollowExists
<1>3. LIST_forward(f, x) = [n \in 0..k |->
          IF n = 0 THEN x ELSE f[LIST_forward(f, x)[n - 1]]]
  BY <1>2 DEF LIST_forward, Follows
<1> QED
  BY <1>3, Zenon

(* Following the pointers of a ring from its first node.                   *)
LEMMA FollowRing ==
    ASSUME NEW f, NEW l \in Lists, NEW s \in Seq(Links), Simple(s),
           Path(f, l, s, l)
    PROVE  \A n \in 0..Len(s) :
               LIST_forward(f, f[l])[n] = IF n = Len(s) THEN l ELSE s[n + 1]
<1> DEFINE g == LIST_forward(f, f[l])
           T == {n \in 0..Len(s) : g[n] # IF n = Len(s) THEN l ELSE s[n + 1]}
<1> HIDE DEF g
<1>1. Len(s) \in Nat /\ Len(s) <= Cardinality(Links) /\ Cardinality(Links) \in Nat
  BY LinksAndLists, AtMostAll
<1>2. \A n \in 0..Len(s) : g[n] = IF n = 0 THEN f[l] ELSE f[g[n - 1]]
  BY <1>1, Follow DEF g
<1> SUFFICES ASSUME T # {} PROVE FALSE
  BY DEF g
<1>3. PICK n \in T : \A y \in T : n <= y
  <2>1. T \subseteq Nat
    BY <1>1
  <2> QED
    BY <2>1, LeastElement
<1>4. n # 0
  BY <1>1, <1>2, <1>3 DEF Path, First
<1>5. n - 1 \in 0..Len(s) /\ n - 1 \notin T /\ (n - 1) + 1 = n /\ n \in 1..Len(s)
  BY <1>1, <1>3, <1>4
<1>6. g[n - 1] = s[n]
  BY <1>1, <1>5
<1>7. g[n] = IF n = Len(s) THEN l ELSE s[n + 1]
  BY <1>2, <1>3, <1>4, <1>5, <1>6 DEF Path
<1> QED
  BY <1>3, <1>7

LEMMA RingIsSequence ==
    ASSUME NEW f, NEW l \in Lists, NEW s \in Seq(Links), Simple(s),
           Path(f, l, s, l)
    PROVE  Ring(f, l) = s
<1> DEFINE g == LIST_forward(f, f[l])
           ends == {n \in 0..Cardinality(Links) : g[n] = l}
           size == IF ends = {} THEN Cardinality(Links) + 1
                   ELSE CHOOSE n \in ends : \A m \in ends : n <= m
<1>1. Ring(f, l) = [i \in 1..size |-> g[i - 1]]
  BY DEF Ring
<1> HIDE DEF g
<1>2. Len(s) \in Nat /\ Len(s) <= Cardinality(Links) /\ Cardinality(Links) \in Nat
  BY LinksAndLists, AtMostAll
<1>3. \A n \in 0..Len(s) : g[n] = IF n = Len(s) THEN l ELSE s[n + 1]
  BY FollowRing DEF g
<1>4. Len(s) \in ends
  BY <1>2, <1>3
<1>5. \A n \in ends : Len(s) <= n
  <2> SUFFICES ASSUME NEW n \in ends, n < Len(s) PROVE FALSE
    BY <1>2
  <2>1. n \in 0..Len(s) /\ n + 1 \in 1..Len(s) /\ n # Len(s)
    BY <1>2
  <2>2. g[n] = s[n + 1] /\ s[n + 1] \in Links
    BY <1>3, <2>1
  <2> QED
    BY <2>2, LinksAndLists
<1>6. size = Len(s)
  <2>1. \A n \in ends : (\A m \in ends : n <= m) => n = Len(s)
    BY <1>2, <1>4, <1>5
  <2> QED
    BY <1>4, <1>5, <2>1
<1> HIDE DEF size
<1>7. \A i \in 1..Len(s) : g[i - 1] = s[i]
  <2> SUFFICES ASSUME NEW i \in 1..Len(s) PROVE g[i - 1] = s[i]
    OBVIOUS
  <2>1. i - 1 \in 0..Len(s) /\ (i - 1) + 1 = i /\ i - 1 # Len(s)
    BY <1>2
  <2> QED
    BY <1>3, <2>1
<1>8. s = [i \in 1..Len(s) |-> s[i]]
  OBVIOUS
<1> QED
  BY <1>1, <1>6, <1>7, <1>8

-----------------------------------------------------------------------------
(* Sequences and paths.                                                    *)

LEMMA ElementsOf ==
    ASSUME NEW s \in Seq(Links)
    PROVE  /\ Elements(s) \subseteq Links
           /\ \A i \in 1..Len(s) : s[i] \in Elements(s)
           /\ \A y \in Elements(s) : \E i \in 1..Len(s) : s[i] = y
           /\ s # <<>> => Len(s) \in 1..Len(s)
           /\ Len(s) \in Nat
  BY DEF Elements

LEMMA FinalNode ==
    ASSUME NEW s \in Seq(Links), NEW a
    PROVE  /\ s = <<>> => Final(a, s) = a
           /\ s # <<>> => Final(a, s) = s[Len(s)] /\ Final(a, s) \in Elements(s)
  BY ElementsOf DEF Final

LEMMA JoinElements ==
    ASSUME NEW u \in Seq(Links), NEW v \in Seq(Links)
    PROVE  /\ Join(u, v) \in Seq(Links)
           /\ Len(Join(u, v)) = Len(u) + Len(v)
           /\ Elements(Join(u, v)) = Elements(u) \cup Elements(v)
<1>1. /\ u \o v \in Seq(Links) /\ Len(u \o v) = Len(u) + Len(v)
      /\ Len(u) \in Nat /\ Len(v) \in Nat
      /\ \A i \in 1..Len(u) : (u \o v)[i] = u[i]
      /\ \A i \in 1..Len(v) : (u \o v)[Len(u) + i] = v[i]
      /\ \A i \in 1..(Len(u) + Len(v)) :
            (u \o v)[i] = IF i <= Len(u) THEN u[i] ELSE v[i - Len(u)]
  OBVIOUS
<1>2. Elements(u \o v) \subseteq Elements(u) \cup Elements(v)
  BY <1>1 DEF Elements
<1>3. Elements(u) \subseteq Elements(u \o v)
  BY <1>1 DEF Elements
<1>4. ASSUME NEW i \in 1..Len(v) PROVE v[i] \in Elements(u \o v)
  <2>1. Len(u) + i \in 1..Len(u \o v) /\ (u \o v)[Len(u) + i] = v[i]
    BY <1>1
  <2> QED
    BY <2>1 DEF Elements
<1>5. Elements(v) \subseteq Elements(u \o v)
  BY <1>4 DEF Elements
<1> QED
  BY <1>1, <1>2, <1>3, <1>5 DEF Join

LEMMA JoinSimple ==
    ASSUME NEW u \in Seq(Links), NEW v \in Seq(Links)
    PROVE  Simple(Join(u, v)) <=>
             Simple(u) /\ Simple(v) /\ Elements(u) \cap Elements(v) = {}
<1>1. /\ Len(u \o v) = Len(u) + Len(v)
      /\ Len(u) \in Nat /\ Len(v) \in Nat
      /\ \A i \in 1..(Len(u) + Len(v)) :
            (u \o v)[i] = IF i <= Len(u) THEN u[i] ELSE v[i - Len(u)]
  OBVIOUS
<1> DEFINE w == u \o v
<1> HIDE DEF w
<1>2. ASSUME Simple(w) PROVE Simple(u) /\ Simple(v) /\ Elements(u) \cap Elements(v) = {}
  <2>1. Simple(u)
    BY <1>1, <1>2 DEF Simple, w
  <2>2. Simple(v)
    <3> SUFFICES ASSUME NEW i \in 1..Len(v), NEW j \in 1..Len(v), v[i] = v[j]
                 PROVE  i = j
      BY DEF Simple
    <3>1. /\ Len(u) + i \in 1..Len(w) /\ Len(u) + j \in 1..Len(w)
          /\ w[Len(u) + i] = v[i] /\ w[Len(u) + j] = v[j]
      BY <1>1 DEF w
    <3>2. Len(u) + i = Len(u) + j
      BY <1>2, <3>1 DEF Simple
    <3> QED
      BY <1>1, <3>2
  <2>3. ASSUME NEW i \in 1..Len(u), NEW j \in 1..Len(v), u[i] = v[j] PROVE FALSE
    <3>1. /\ i \in 1..Len(w) /\ Len(u) + j \in 1..Len(w)
          /\ w[i] = u[i] /\ w[Len(u) + j] = v[j] /\ i # Len(u) + j
      BY <1>1 DEF w
    <3> QED
      BY <1>2, <2>3, <3>1 DEF Simple
  <2> QED
    BY <2>1, <2>2, <2>3 DEF Elements
<1>3. ASSUME Simple(u), Simple(v), Elements(u) \cap Elements(v) = {}
      PROVE  Simple(w)
  <2>1. \A i \in 1..Len(u), j \in 1..Len(v) : u[i] # v[j]
    BY <1>3 DEF Elements
  <2> SUFFICES ASSUME NEW i \in 1..Len(w), NEW j \in 1..Len(w), w[i] = w[j]
               PROVE  i = j
    BY DEF Simple
  <2>2. CASE i <= Len(u) /\ j <= Len(u)
    BY <1>1, <1>3, <2>2 DEF Simple, w
  <2>3. CASE i > Len(u) /\ j > Len(u)
    <3>1. i - Len(u) \in 1..Len(v) /\ j - Len(u) \in 1..Len(v)
      BY <1>1, <2>3 DEF w
    <3>2. v[i - Len(u)] = v[j - Len(u)]
      BY <1>1, <2>3 DEF w
    <3>3. i - Len(u) = j - Len(u)
      BY <1>3, <3>1, <3>2 DEF Simple
    <3> QED
      BY <1>1, <3>3 DEF w
  <2>4. CASE i <= Len(u) /\ j > Len(u)
    BY <1>1, <2>1, <2>4 DEF w
  <2>5. CASE i > Len(u) /\ j <= Len(u)
    BY <1>1, <2>1, <2>5 DEF w
  <2> QED
    BY <1>1, <2>2, <2>3, <2>4, <2>5 DEF w
<1> QED
  BY <1>2, <1>3 DEF w, Join

(* A path through u and v is one through u and one through v.              *)
LEMMA PathSplit ==
    ASSUME NEW f, NEW a, NEW b, NEW u \in Seq(Links), NEW v \in Seq(Links)
    PROVE  Path(f, a, Join(u, v), b) <=>
             Path(f, a, u, First(v, b)) /\ Path(f, Final(a, u), v, b)
<1> DEFINE w == u \o v
<1>1. /\ Len(w) = Len(u) + Len(v) /\ Len(u) \in Nat /\ Len(v) \in Nat
      /\ \A i \in 1..Len(w) :
            w[i] = IF i <= Len(u) THEN u[i] ELSE v[i - Len(u)]
      /\ \A i \in 1..Len(v) : w[Len(u) + i] = v[i]
      /\ u = <<>> <=> Len(u) = 0
      /\ v = <<>> <=> Len(v) = 0
      /\ w = <<>> <=> Len(w) = 0
  OBVIOUS
<1> HIDE DEF w
<1>2. ASSUME Path(f, a, w, b)
      PROVE  Path(f, a, u, First(v, b)) /\ Path(f, Final(a, u), v, b)
  <2>1. f[a] = First(u, First(v, b))
    BY <1>1, <1>2 DEF Path, First
  <2>2. ASSUME NEW i \in 1..Len(u)
        PROVE  f[u[i]] = IF i = Len(u) THEN First(v, b) ELSE u[i + 1]
    <3>1. i \in 1..Len(w) /\ w[i] = u[i]
      BY <1>1
    <3>2. f[u[i]] = IF i = Len(w) THEN b ELSE w[i + 1]
      BY <1>2, <3>1 DEF Path
    <3> QED
      BY <1>1, <3>2 DEF First
  <2>3. f[Final(a, u)] = First(v, b)
    BY <1>1, <1>2, <2>1, <2>2 DEF Final, First
  <2>4. ASSUME NEW i \in 1..Len(v)
        PROVE  f[v[i]] = IF i = Len(v) THEN b ELSE v[i + 1]
    <3>1. Len(u) + i \in 1..Len(w) /\ w[Len(u) + i] = v[i]
      BY <1>1
    <3>2. f[v[i]] = IF Len(u) + i = Len(w) THEN b ELSE w[(Len(u) + i) + 1]
      BY <1>2, <3>1 DEF Path
    <3>3. i # Len(v) => w[(Len(u) + i) + 1] = v[i + 1]
      BY <1>1
    <3>4. Len(u) + i = Len(w) <=> i = Len(v)
      BY <1>1
    <3> QED
      BY <3>2, <3>3, <3>4
  <2> QED
    BY <2>1, <2>2, <2>3, <2>4 DEF Path
<1>3. ASSUME Path(f, a, u, First(v, b)), Path(f, Final(a, u), v, b)
      PROVE  Path(f, a, w, b)
  <2>1. f[a] = First(w, b)
    BY <1>1, <1>3 DEF Path, First, Final
  <2>2. ASSUME NEW i \in 1..Len(w)
        PROVE  f[w[i]] = IF i = Len(w) THEN b ELSE w[i + 1]
    <3>1. CASE i <= Len(u)
      BY <1>1, <1>3, <3>1, SMTT(30) DEF Path, First
    <3>2. CASE i > Len(u)
      <4>1. i - Len(u) \in 1..Len(v) /\ w[i] = v[i - Len(u)]
        BY <1>1, <3>2
      <4>2. f[w[i]] = IF i - Len(u) = Len(v) THEN b ELSE v[(i - Len(u)) + 1]
        BY <1>3, <4>1 DEF Path
      <4>3. i # Len(w) => w[i + 1] = v[(i - Len(u)) + 1]
        <5>1. (i + 1) - Len(u) = (i - Len(u)) + 1
          BY <1>1
        <5> QED
          BY <1>1, <3>2, <5>1
      <4> QED
        BY <1>1, <4>1, <4>2, <4>3
    <3> QED
      BY <1>1, <3>1, <3>2
  <2> QED
    BY <2>1, <2>2 DEF Path
<1> QED
  BY <1>2, <1>3 DEF w, Join

(* Other pointers g lead from a2 through the same links to b2, if they     *)
(* differ from f at the last link only.                                    *)
LEMMA PathMoves ==
    ASSUME NEW f, NEW g, NEW a, NEW a2, NEW b, NEW b2,
           NEW s \in Seq(Links), Simple(s), Path(f, a, s, b),
           s = <<>> => g[a2] = b2,
           s # <<>> => g[a2] = f[a] /\ g[Final(a, s)] = b2,
           \A y \in Elements(s) : y # Final(a, s) => g[y] = f[y]
    PROVE  Path(g, a2, s, b2)
<1>1. Len(s) \in Nat /\ (s = <<>> <=> Len(s) = 0)
  OBVIOUS
<1>2. g[a2] = First(s, b2)
  BY DEF Path, First
<1>3. ASSUME NEW i \in 1..Len(s)
      PROVE  g[s[i]] = IF i = Len(s) THEN b2 ELSE s[i + 1]
  <2>1. s # <<>> /\ Final(a, s) = s[Len(s)] /\ Len(s) \in 1..Len(s)
    BY <1>1 DEF Final
  <2>2. i # Len(s) => s[i] # Final(a, s)
    BY <2>1 DEF Simple
  <2> QED
    BY <2>1, <2>2, ElementsOf DEF Path
<1> QED
  BY <1>2, <1>3 DEF Path

LEMMA PathStays ==
    ASSUME NEW f, NEW g, NEW a, NEW b, NEW s \in Seq(Links), Path(f, a, s, b),
           \A y \in RingNodes(a, s) : g[y] = f[y]
    PROVE  Path(g, a, s, b)
  BY ElementsOf DEF Path, RingNodes

-----------------------------------------------------------------------------
(* Reversed sequences.                                                     *)

LEMMA Reverse ==
    ASSUME NEW s \in Seq(Links), Simple(s)
    PROVE  /\ Reversed(s) \in Seq(Links) /\ Len(Reversed(s)) = Len(s)
           /\ Simple(Reversed(s)) /\ Elements(Reversed(s)) = Elements(s)
           /\ Reversed(s) = <<>> <=> s = <<>>
           /\ \A a : First(Reversed(s), a) = Final(a, s)
           /\ \A a : Final(a, Reversed(s)) = First(s, a)
<1> DEFINE r == Reversed(s)
<1>1. Len(s) \in Nat /\ (s = <<>> <=> Len(s) = 0)
  OBVIOUS
<1>2. r \in Seq(Links) /\ Len(r) = Len(s)
  BY DEF Reversed
<1>3. \A i \in 1..Len(s) : r[i] = s[Len(s) + 1 - i] /\ Len(s) + 1 - i \in 1..Len(s)
  BY <1>1 DEF Reversed
<1>4. r = <<>> <=> s = <<>>
  BY <1>1, <1>2
<1> HIDE DEF r
<1>5. Simple(r)
  <2> SUFFICES ASSUME NEW i \in 1..Len(s), NEW j \in 1..Len(s), r[i] = r[j]
               PROVE  i = j
    BY <1>2 DEF Simple
  <2>1. Len(s) + 1 - i = Len(s) + 1 - j
    BY <1>3 DEF Simple
  <2> QED
    BY <1>1, <2>1
<1>6. Elements(r) \subseteq Elements(s)
  BY <1>2, <1>3 DEF Elements
<1>7. ASSUME NEW i \in 1..Len(s) PROVE s[i] \in Elements(r)
  <2>1. Len(s) + 1 - i \in 1..Len(s) /\ Len(s) + 1 - (Len(s) + 1 - i) = i
    BY <1>1
  <2>2. r[Len(s) + 1 - i] = s[i]
    BY <1>3, <2>1
  <2> QED
    BY <1>2, <2>1, <2>2 DEF Elements
<1>8. s # <<>> => r[1] = s[Len(s)] /\ r[Len(s)] = s[1]
  BY <1>1, <1>3
<1>9. Elements(r) = Elements(s)
  BY <1>6, <1>7 DEF Elements
<1>10. \A a : First(r, a) = Final(a, s) /\ Final(a, r) = First(s, a)
  BY <1>2, <1>4, <1>8 DEF First, Final
<1> QED
  BY <1>2, <1>4, <1>5, <1>9, <1>10 DEF r

LEMMA ReverseTwice ==
    ASSUME NEW s \in Seq(Links)
    PROVE  Reversed(Reversed(s)) = s
<1>1. Len(s) \in Nat /\ Reversed(s) \in Seq(Links) /\ Len(Reversed(s)) = Len(s)
  BY DEF Reversed
<1>2. ASSUME NEW i \in 1..Len(s) PROVE Reversed(Reversed(s))[i] = s[i]
  <2>1. Len(s) + 1 - i \in 1..Len(s) /\ Len(s) + 1 - (Len(s) + 1 - i) = i
    BY <1>1
  <2> QED
    BY <1>1, <2>1 DEF Reversed
<1>3. Reversed(Reversed(s)) = [i \in 1..Len(s) |-> Reversed(Reversed(s))[i]]
  BY <1>1 DEF Reversed
<1>4. s = [i \in 1..Len(s) |-> s[i]]
  OBVIOUS
<1> QED
  BY <1>2, <1>3, <1>4

LEMMA ItsElements ==
    ASSUME NEW s \in Seq(Links)
    PROVE  s = [i \in 1..Len(s) |-> s[i]]
  OBVIOUS

LEMMA ReverseJoin ==
    ASSUME NEW u \in Seq(Links), NEW v \in Seq(Links)
    PROVE  Reversed(Join(u, v)) = Join(Reversed(v), Reversed(u))
<1> DEFINE w == u \o v
           n == Len(u) + Len(v)
           ru == Reversed(u)
           rv == Reversed(v)
<1>1. /\ Len(w) = n /\ Len(u) \in Nat /\ Len(v) \in Nat
      /\ \A i \in 1..n : w[i] = IF i <= Len(u) THEN u[i] ELSE v[i - Len(u)]
  OBVIOUS
<1>2. /\ Len(ru) = Len(u) /\ Len(rv) = Len(v)
      /\ ru \in Seq(Links) /\ rv \in Seq(Links)
      /\ \A i \in 1..Len(u) : ru[i] = u[Len(u) + 1 - i]
      /\ \A i \in 1..Len(v) : rv[i] = v[Len(v) + 1 - i]
  BY <1>1 DEF Reversed
<1> HIDE DEF ru, rv
<1>3. /\ rv \o ru = [i \in 1..n |-> (rv \o ru)[i]]
      /\ \A i \in 1..n :
            (rv \o ru)[i] = IF i <= Len(v) THEN rv[i] ELSE ru[i - Len(v)]
  <2>0. ru \in Seq(Links) /\ rv \in Seq(Links)
    BY <1>2
  <2>1. /\ rv \o ru \in Seq(Links) /\ Len(rv \o ru) = Len(rv) + Len(ru)
        /\ \A i \in 1..(Len(rv) + Len(ru)) :
              (rv \o ru)[i] = IF i <= Len(rv) THEN rv[i] ELSE ru[i - Len(rv)]
    BY <2>0
  <2>2. Len(rv) + Len(ru) = n
    BY <1>1, <1>2
  <2>3. rv \o ru = [i \in 1..Len(rv \o ru) |-> (rv \o ru)[i]]
    BY <2>1, ItsElements, Zenon
  <2> QED
    BY <1>2, <2>1, <2>2, <2>3
<1>4. Reversed(w) = [i \in 1..n |-> w[n + 1 - i]]
  BY <1>1 DEF Reversed
<1> HIDE DEF w
<1>5. ASSUME NEW i \in 1..n PROVE w[n + 1 - i] = (rv \o ru)[i]
  <2>1. CASE i <= Len(v)
    <3>1. /\ n + 1 - i \in 1..n /\ ~(n + 1 - i <= Len(u)) /\ i \in 1..Len(v)
          /\ (n + 1 - i) - Len(u) = Len(v) + 1 - i
      BY <1>1, <2>1
    <3>2. w[n + 1 - i] = v[Len(v) + 1 - i]
      BY <1>1, <3>1
    <3> QED
      BY <1>2, <1>3, <2>1, <3>1, <3>2
  <2>2. CASE i > Len(v)
    <3>1. /\ n + 1 - i \in 1..n /\ n + 1 - i <= Len(u)
          /\ i - Len(v) \in 1..Len(u)
          /\ n + 1 - i = Len(u) + 1 - (i - Len(v))
      BY <1>1, <2>2
    <3>2. w[n + 1 - i] = u[Len(u) + 1 - (i - Len(v))]
      BY <1>1, <3>1
    <3>3. (rv \o ru)[i] = ru[i - Len(v)]
      BY <1>1, <1>3, <2>2
    <3> QED
      BY <1>2, <3>1, <3>2, <3>3
  <2>3. i <= Len(v) \/ i > Len(v)
    BY <1>1
  <2> QED
    BY <2>1, <2>2, <2>3
<1> QED
  BY <1>3, <1>4, <1>5 DEF w, ru, rv, Join

LEMMA OneLink ==
    ASSUME NEW x \in Links
    PROVE  /\ One(x) \in Seq(Links) /\ Len(One(x)) = 1 /\ One(x) # <<>>
           /\ Elements(One(x)) = {x} /\ Simple(One(x))
           /\ Reversed(One(x)) = One(x)
           /\ \A a : First(One(x), a) = x /\ Final(a, One(x)) = x
           /\ \A f, a, b : Path(f, a, One(x), b) <=> f[a] = x /\ f[x] = b
<1>1. <<x>> \in Seq(Links) /\ Len(<<x>>) = 1 /\ <<x>>[1] = x /\ 1..1 = {1}
  OBVIOUS
<1>2. Reversed(<<x>>) = <<x>>
  <2>1. Reversed(<<x>>) = [i \in 1..1 |-> x]
    BY <1>1 DEF Reversed
  <2>2. <<x>> = [i \in 1..1 |-> x]
    BY <1>1
  <2> QED
    BY <2>1, <2>2
<1>3. <<x>> # <<>> /\ Elements(<<x>>) = {x} /\ Simple(<<x>>)
  BY <1>1 DEF Elements, Simple
<1>4. \A a : First(<<x>>, a) = x /\ Final(a, <<x>>) = x
  BY <1>1, <1>3 DEF First, Final
<1>5. \A f, a, b : Path(f, a, <<x>>, b) <=> f[a] = x /\ f[x] = b
  BY <1>1, <1>4 DEF Path
<1> QED
  BY <1>1, <1>2, <1>3, <1>4, <1>5 DEF One

LEMMA NoLink ==
    /\ <<>> \in Seq(Links) /\ Len(<<>>) = 0 /\ Elements(<<>>) = {}
    /\ Simple(<<>>) /\ Reversed(<<>>) = <<>>
    /\ \A a : First(<<>>, a) = a /\ Final(a, <<>>) = a
<1>1. <<>> \in Seq(Links) /\ Len(<<>>) = 0 /\ 1..0 = {}
  OBVIOUS
<1>2. Elements(<<>>) = {} /\ Simple(<<>>)
  BY <1>1 DEF Elements, Simple
<1>3. Reversed(<<>>) = <<>>
  <2>1. Len(Reversed(<<>>)) = 0 /\ Reversed(<<>>) \in Seq(Links)
    BY <1>1 DEF Reversed
  <2> QED
    BY <2>1
<1> QED
  BY <1>1, <1>2, <1>3 DEF First, Final

LEMMA ReverseProper ==
    ASSUME NEW c, Proper(c)
    PROVE  Proper(Backwards(c))
<1>1. \A l \in Lists : /\ Backwards(c)[l] = Reversed(c[l])
                       /\ c[l] \in Seq(Links) /\ Simple(c[l])
  BY DEF Backwards, Proper
<1>2. \A l \in Lists : /\ Backwards(c)[l] \in Seq(Links)
                       /\ Simple(Backwards(c)[l])
                       /\ Elements(Backwards(c)[l]) = Elements(c[l])
  BY <1>1, Reverse
<1>3. Backwards(c) = [l \in Lists |-> Backwards(c)[l]]
  BY DEF Backwards
<1> QED
  BY <1>2, <1>3 DEF Proper

-----------------------------------------------------------------------------
(* Changing one ring or two, while the others stay.                        *)

LEMMA Apart ==
    ASSUME NEW c, Proper(c), NEW l \in Lists
    PROVE  /\ c[l] \in Seq(Links) /\ Simple(c[l])
           /\ RingNodes(l, c[l]) \subseteq Nodes
           /\ \A m \in Lists : m # l =>
                 RingNodes(l, c[l]) \cap RingNodes(m, c[m]) = {}
<1>1. c[l] \in Seq(Links) /\ Simple(c[l])
  BY DEF Proper
<1>2. \A m \in Lists : Elements(c[m]) \subseteq Links
  BY ElementsOf DEF Proper
<1> QED
  BY <1>1, <1>2, LinksAndLists DEF Proper, RingNodes

LEMMA ProperOne ==
    ASSUME NEW c, Proper(c), NEW l \in Lists, NEW s \in Seq(Links), Simple(s),
           \A m \in Lists : m # l => Elements(s) \cap Elements(c[m]) = {}
    PROVE  Proper([c EXCEPT ![l] = s])
<1> DEFINE d == [c EXCEPT ![l] = s]
<1>1. /\ c \in [Lists -> Seq(Links)]
      /\ d \in [Lists -> Seq(Links)]
      /\ d[l] = s /\ \A m \in Lists : m # l => d[m] = c[m]
  BY DEF Proper
<1> HIDE DEF d
<1>2. \A m \in Lists : Simple(d[m])
  BY <1>1 DEF Proper
<1>3. \A m, k \in Lists : m # k => Elements(d[m]) \cap Elements(d[k]) = {}
  BY <1>1 DEF Proper
<1>4. Proper(d)
  BY <1>1, <1>2, <1>3 DEF Proper
<1> QED
  BY <1>4 DEF d

LEMMA ProperTwo ==
    ASSUME NEW c, Proper(c), NEW l \in Lists, NEW k \in Lists, k # l,
           NEW s \in Seq(Links), Simple(s), NEW t \in Seq(Links), Simple(t),
           Elements(s) \cap Elements(t) = {},
           \A m \in Lists \ {l, k} :
               (Elements(s) \cup Elements(t)) \cap Elements(c[m]) = {}
    PROVE  Proper([c EXCEPT ![l] = s, ![k] = t])
<1> DEFINE d == [c EXCEPT ![l] = s, ![k] = t]
<1>1. /\ c \in [Lists -> Seq(Links)]
      /\ d \in [Lists -> Seq(Links)]
      /\ d[l] = s /\ d[k] = t /\ \A m \in Lists \ {l, k} : d[m] = c[m]
  BY DEF Proper
<1> HIDE DEF d
<1>2. \A m \in Lists : Simple(d[m])
  BY <1>1 DEF Proper
<1>3. ASSUME NEW m \in Lists, NEW j \in Lists, m # j
      PROVE  Elements(d[m]) \cap Elements(d[j]) = {}
  <2>1. CASE m \in {l, k} /\ j \in {l, k}
    BY <1>1, <1>3, <2>1
  <2>2. CASE m \in {l, k} /\ j \notin {l, k}
    BY <1>1, <2>2
  <2>3. CASE m \notin {l, k} /\ j \in {l, k}
    BY <1>1, <2>3
  <2>4. CASE m \notin {l, k} /\ j \notin {l, k}
    BY <1>1, <1>3, <2>4 DEF Proper
  <2> QED
    BY <2>1, <2>2, <2>3, <2>4
<1>4. Proper(d)
  BY <1>1, <1>2, <1>3 DEF Proper
<1> QED
  BY <1>4 DEF d

LEMMA RingsOne ==
    ASSUME NEW c, Proper(c), NEW f, Rings(f, c), NEW g,
           NEW l \in Lists, NEW s, Path(g, l, s, l),
           \A m \in Lists \ {l} : \A y \in RingNodes(m, c[m]) : g[y] = f[y]
    PROVE  Rings(g, [c EXCEPT ![l] = s])
<1>1. c \in [Lists -> Seq(Links)]
  BY DEF Proper
<1>2. ASSUME NEW m \in Lists \ {l} PROVE Path(g, m, c[m], m)
  <2>1. c[m] \in Seq(Links) /\ Path(f, m, c[m], m)
    BY <1>1 DEF Rings
  <2>2. \A y \in RingNodes(m, c[m]) : g[y] = f[y]
    OBVIOUS
  <2> QED
    BY <2>1, <2>2, PathStays
<1> QED
  BY <1>1, <1>2 DEF Rings

LEMMA RingsTwo ==
    ASSUME NEW c, Proper(c), NEW f, Rings(f, c), NEW g,
           NEW l \in Lists, NEW s, Path(g, l, s, l),
           NEW k \in Lists, k # l, NEW t, Path(g, k, t, k),
           \A m \in Lists \ {l, k} : \A y \in RingNodes(m, c[m]) : g[y] = f[y]
    PROVE  Rings(g, [c EXCEPT ![l] = s, ![k] = t])
<1>1. c \in [Lists -> Seq(Links)]
  BY DEF Proper
<1>2. ASSUME NEW m \in Lists \ {l, k} PROVE Path(g, m, c[m], m)
  <2>1. c[m] \in Seq(Links) /\ Path(f, m, c[m], m)
    BY <1>1 DEF Rings
  <2>2. \A y \in RingNodes(m, c[m]) : g[y] = f[y]
    OBVIOUS
  <2> QED
    BY <2>1, <2>2, PathStays
<1> QED
  BY <1>1, <1>2 DEF Rings

LEMMA PathEnds ==
    ASSUME NEW f, NEW a, NEW b, NEW s \in Seq(Links), Path(f, a, s, b)
    PROVE  f[a] = First(s, b) /\ f[Final(a, s)] = b
  BY ElementsOf DEF Path, First, Final

LEMMA FinalJoin ==
    ASSUME NEW u \in Seq(Links), NEW v \in Seq(Links)
    PROVE  /\ \A a : Final(a, Join(u, v)) = Final(Final(a, u), v)
           /\ \A b : First(Join(u, v), b) = First(u, First(v, b))
<1>1. /\ Len(u \o v) = Len(u) + Len(v) /\ Len(u) \in Nat /\ Len(v) \in Nat
      /\ \A i \in 1..(Len(u) + Len(v)) :
            (u \o v)[i] = IF i <= Len(u) THEN u[i] ELSE v[i - Len(u)]
      /\ (u = <<>>) <=> (Len(u) = 0)
      /\ (v = <<>>) <=> (Len(v) = 0)
      /\ (u \o v = <<>>) <=> (Len(u \o v) = 0)
  OBVIOUS
<1> QED
  BY <1>1 DEF Final, First, Join

(* A ring in two parts.                                                    *)
Split(c, l, u, v) ==
    u \in Seq(Links) /\ v \in Seq(Links) /\ c[l] = Join(u, v)
SplitBy(c, l, u, x, v) ==
    /\ u \in Seq(Links) /\ x \in Links /\ v \in Seq(Links)
    /\ c[l] = Join(Join(u, One(x)), v)

LEMMA SplitNodes ==
    ASSUME NEW c, Proper(c), NEW l \in Lists,
           NEW u, NEW v, Split(c, l, u, v)
    PROVE  /\ Simple(u) /\ Simple(v) /\ Elements(u) \cap Elements(v) = {}
           /\ Elements(c[l]) = Elements(u) \cup Elements(v)
           /\ l \notin Elements(u) /\ l \notin Elements(v) /\ l \in Nodes
           /\ Elements(u) \subseteq Nodes /\ Elements(v) \subseteq Nodes
           /\ u = <<>> => Final(l, u) = l
           /\ u # <<>> => Final(l, u) \in Elements(u)
           /\ \A a : v # <<>> => Final(a, v) \in Elements(v)
           /\ \A a : v = <<>> => Final(a, v) = a
<1>0. u \in Seq(Links) /\ v \in Seq(Links) /\ c[l] = Join(u, v)
  BY DEF Split
<1> USE <1>0
<1>1. Simple(Join(u, v)) /\ Elements(u) \subseteq Links /\ Elements(v) \subseteq Links
  BY Apart, ElementsOf
<1>2. /\ Simple(u) /\ Simple(v) /\ Elements(u) \cap Elements(v) = {}
      /\ Elements(c[l]) = Elements(u) \cup Elements(v)
  BY <1>1, JoinSimple, JoinElements
<1>3. /\ l \notin Elements(u) /\ l \notin Elements(v) /\ l \in Nodes
      /\ Elements(u) \subseteq Nodes /\ Elements(v) \subseteq Nodes
  BY <1>1, LinksAndLists
<1>4. /\ u = <<>> => Final(l, u) = l
      /\ u # <<>> => Final(l, u) \in Elements(u)
  BY FinalNode
<1>5. \A a : v # <<>> => Final(a, v) \in Elements(v)
  BY FinalNode
<1>6. \A a : v = <<>> => Final(a, v) = a
  BY FinalNode
<1> QED
  BY <1>2, <1>3, <1>4, <1>5, <1>6, Zenon

LEMMA SplitPaths ==
    ASSUME NEW c, Proper(c), NEW f, Rings(f, c), NEW l \in Lists,
           NEW u, NEW v, Split(c, l, u, v)
    PROVE  /\ Path(f, l, u, First(v, l)) /\ Path(f, Final(l, u), v, l)
           /\ f[Final(l, u)] = First(v, l)
           /\ f[Final(Final(l, u), v)] = l
           /\ f[l] = First(u, First(v, l))
<1>0. u \in Seq(Links) /\ v \in Seq(Links) /\ c[l] = Join(u, v)
  BY DEF Split
<1> USE <1>0
<1>1. Path(f, l, Join(u, v), l)
  BY DEF Rings
<1>2. Path(f, l, u, First(v, l)) /\ Path(f, Final(l, u), v, l)
  BY <1>1, PathSplit
<1> QED
  BY <1>2, PathEnds

-----------------------------------------------------------------------------
(* What the operations do to the pointers in one direction.                *)

(* A link is inserted behind the part u.                                   *)
LEMMA InsertRing ==
    ASSUME NEW c, Proper(c), NEW f \in [Nodes -> Nodes], Rings(f, c),
           NEW l \in Lists,
           NEW u, NEW v, Split(c, l, u, v),
           NEW x \in Links, \A m \in Lists : x \notin Elements(c[m])
    PROVE  LET p == Final(l, u)
           IN  Rings([f EXCEPT ![x] = f[p], ![p] = x],
                     [c EXCEPT ![l] = Join(Join(u, One(x)), v)])
<1>0. u \in Seq(Links) /\ v \in Seq(Links) /\ c[l] = Join(u, v)
  BY DEF Split
<1> USE <1>0
<1> DEFINE p == Final(l, u)
           g == [f EXCEPT ![x] = f[p], ![p] = x]
           b == First(v, l)
<1>1. /\ Simple(u) /\ Simple(v) /\ Elements(u) \cap Elements(v) = {}
      /\ Elements(c[l]) = Elements(u) \cup Elements(v)
      /\ l \notin Elements(u) /\ l \notin Elements(v) /\ l \in Nodes
      /\ Elements(u) \subseteq Nodes /\ Elements(v) \subseteq Nodes
      /\ u = <<>> => p = l
      /\ u # <<>> => p \in Elements(u)
      /\ v # <<>> => Final(p, v) \in Elements(v)
      /\ v = <<>> => Final(p, v) = p
  BY SplitNodes
<1>2. /\ Path(f, l, u, b) /\ Path(f, p, v, l)
      /\ f[p] = b /\ f[Final(p, v)] = l
  BY SplitPaths
<1>3. /\ x \in Nodes /\ x # l /\ x \notin Elements(u) /\ x \notin Elements(v)
      /\ p \in RingNodes(l, c[l]) /\ p \in Nodes /\ p # x /\ p \notin Elements(v)
  BY <1>1, LinksAndLists DEF RingNodes
<1>4. /\ g[x] = b /\ g[p] = x
      /\ \A y \in Nodes : y # x /\ y # p => g[y] = f[y]
  BY <1>2, <1>3
<1> HIDE DEF g, p, b
<1>5. Path(g, l, u, x)
  <2>1. Final(l, u) = p
    BY DEF p
  <2> QED
    BY <1>1, <1>2, <1>3, <1>4, <2>1, PathMoves
<1>6. Path(g, p, One(x), b)
  BY <1>4, OneLink
<1>7. Path(g, x, v, l)
  <2>1. v = <<>> => b = l
    BY DEF b, First
  <2>2. v # <<>> => g[x] = f[p] /\ g[Final(p, v)] = l
    BY <1>1, <1>2, <1>3, <1>4
  <2>3. \A y \in Elements(v) : g[y] = f[y]
    BY <1>1, <1>3, <1>4
  <2> QED
    BY <1>1, <1>2, <1>4, <2>1, <2>2, <2>3, PathMoves
<1>8. Path(g, l, Join(u, One(x)), b)
  BY <1>5, <1>6, OneLink, PathSplit DEF p
<1>9. Join(u, One(x)) \in Seq(Links) /\ Final(l, Join(u, One(x))) = x
  BY OneLink, JoinElements, FinalJoin
<1>10. Path(g, l, Join(Join(u, One(x)), v), l)
  BY <1>7, <1>8, <1>9, PathSplit DEF b
<1>11. ASSUME NEW m \in Lists \ {l}, NEW y \in RingNodes(m, c[m])
       PROVE  g[y] = f[y]
  <2>1. y \in Nodes /\ y \notin RingNodes(l, c[l])
    BY Apart
  <2>2. y # x /\ y # p
    BY <1>3, <2>1, LinksAndLists DEF RingNodes
  <2> QED
    BY <1>4, <2>1, <2>2
<1>12. Rings(g, [c EXCEPT ![l] = Join(Join(u, One(x)), v)])
  BY <1>10, <1>11, RingsOne
<1> QED
  BY <1>12 DEF g, p

(* The link behind the part u is unlinked.                                 *)
LEMMA RemoveRing ==
    ASSUME NEW c, Proper(c), NEW f \in [Nodes -> Nodes], Rings(f, c),
           NEW l \in Lists, NEW u, NEW x, NEW v,
           SplitBy(c, l, u, x, v)
    PROVE  LET p == Final(l, u)
           IN  Rings([f EXCEPT ![p] = f[x]], [c EXCEPT ![l] = Join(u, v)])
<1>0. /\ u \in Seq(Links) /\ x \in Links /\ v \in Seq(Links)
      /\ c[l] = Join(Join(u, One(x)), v)
  BY DEF SplitBy
<1> USE <1>0
<1> DEFINE p == Final(l, u)
           g == [f EXCEPT ![p] = f[x]]
           b == First(v, l)
           w == Join(u, One(x))
<1>1. w \in Seq(Links) /\ Split(c, l, w, v) /\ Final(l, w) = x
  BY OneLink, JoinElements, FinalJoin DEF Split
<1>2. /\ Simple(w) /\ Simple(v) /\ Elements(w) \cap Elements(v) = {}
      /\ Elements(c[l]) = Elements(w) \cup Elements(v)
      /\ l \notin Elements(w) /\ l \notin Elements(v) /\ l \in Nodes
      /\ Elements(w) \subseteq Nodes /\ Elements(v) \subseteq Nodes
  BY <1>1, SplitNodes
<1>3. /\ \A a : v # <<>> => Final(a, v) \in Elements(v)
      /\ \A a : v = <<>> => Final(a, v) = a
  BY FinalNode
<1>4. /\ Path(f, l, w, b) /\ Path(f, x, v, l)
      /\ f[x] = b /\ f[Final(x, v)] = l
  BY <1>1, SplitPaths
<1>5. /\ Simple(u) /\ Elements(w) = Elements(u) \cup {x}
      /\ x \notin Elements(u)
  <2>1. One(x) \in Seq(Links) /\ Elements(One(x)) = {x}
    BY OneLink
  <2>2. /\ Simple(u) /\ Elements(u) \cap Elements(One(x)) = {}
        /\ Elements(w) = Elements(u) \cup Elements(One(x))
    BY <1>2, <2>1, JoinElements, JoinSimple
  <2> QED
    BY <2>1, <2>2
<1>6. /\ u = <<>> => p = l
      /\ u # <<>> => p \in Elements(u)
  BY FinalNode
<1>7. Path(f, l, u, x) /\ Path(f, p, One(x), b)
  BY <1>4, OneLink, PathSplit
<1>8. /\ p \in RingNodes(l, c[l]) /\ p \in Nodes /\ p \notin Elements(v)
  BY <1>2, <1>5, <1>6 DEF RingNodes
<1>9. /\ g[p] = b
      /\ \A y \in Nodes : y # p => g[y] = f[y]
  BY <1>4, <1>8
<1> HIDE DEF g, p, b, w
<1>10. Path(g, l, u, b)
  <2>1. Final(l, u) = p
    BY DEF p
  <2> QED
    BY <1>2, <1>5, <1>6, <1>7, <1>9, <2>1, PathMoves
<1>11. Path(g, p, v, l)
  <2>1. v = <<>> => b = l
    BY DEF b, First
  <2>2. v # <<>> => g[p] = f[x] /\ g[Final(x, v)] = l
    BY <1>2, <1>3, <1>4, <1>8, <1>9
  <2>3. \A y \in Elements(v) : g[y] = f[y]
    BY <1>2, <1>8, <1>9
  <2> QED
    BY <1>2, <1>4, <1>9, <2>1, <2>2, <2>3, PathMoves
<1>12. Path(g, l, Join(u, v), l)
  BY <1>10, <1>11, PathSplit DEF p, b
<1>13. ASSUME NEW m \in Lists \ {l}, NEW y \in RingNodes(m, c[m])
       PROVE  g[y] = f[y]
  <2>1. y \in Nodes /\ y \notin RingNodes(l, c[l])
    BY Apart
  <2> QED
    BY <1>8, <1>9, <2>1
<1>14. Rings(g, [c EXCEPT ![l] = Join(u, v)])
  BY <1>12, <1>13, RingsOne
<1> QED
  BY <1>14 DEF g, p

(* The part v becomes the ring of another list, and u stays.               *)
LEMMA CutTailRing ==
    ASSUME NEW c, Proper(c), NEW f \in [Nodes -> Nodes], Rings(f, c),
           NEW l \in Lists, NEW k \in Lists, k # l,
           NEW u, NEW v, Split(c, l, u, v), v # <<>>,
           NEW g \in [Nodes -> Nodes],
           g[k] = First(v, l), g[Final(l, v)] = k, g[Final(l, u)] = l,
           \A y \in Nodes \ {k, Final(l, v), Final(l, u)} : g[y] = f[y]
    PROVE  Rings(g, [c EXCEPT ![l] = u, ![k] = v])
<1>0. u \in Seq(Links) /\ v \in Seq(Links) /\ c[l] = Join(u, v)
  BY DEF Split
<1> USE <1>0
<1> DEFINE p == Final(l, u)
           z == Final(l, v)
           b == First(v, l)
<1>1. /\ Simple(u) /\ Simple(v) /\ Elements(u) \cap Elements(v) = {}
      /\ Elements(c[l]) = Elements(u) \cup Elements(v)
      /\ l \notin Elements(u) /\ l \notin Elements(v) /\ l \in Nodes
      /\ Elements(u) \subseteq Nodes /\ Elements(v) \subseteq Nodes
      /\ u = <<>> => p = l
      /\ u # <<>> => p \in Elements(u)
      /\ \A a : Final(a, v) \in Elements(v)
      /\ \A a : Final(a, v) = z
  BY SplitNodes DEF Final
<1>2. /\ Path(f, l, u, b) /\ Path(f, p, v, l)
      /\ f[p] = b
  BY SplitPaths
<1>3. /\ k \in Nodes /\ k \notin RingNodes(l, c[l])
      /\ p \in RingNodes(l, c[l]) /\ z \in RingNodes(l, c[l])
      /\ k \in RingNodes(k, c[k])
  BY <1>1, Apart, LinksAndLists DEF RingNodes
<1>4. /\ k \notin Elements(u) /\ k \notin Elements(v)
      /\ p \notin Elements(v) /\ z \notin Elements(u) /\ z # l
  BY <1>1, <1>3 DEF RingNodes
<1>5. g[k] = b /\ g[z] = k /\ g[p] = l /\ \A y \in Nodes \ {k, z, p} : g[y] = f[y]
  OBVIOUS
<1> HIDE DEF p, z, b
<1>6. Path(g, l, u, l)
  <2>1. u # <<>> => g[l] = f[l] /\ g[p] = l
    BY <1>1, <1>4, <1>5
  <2>2. \A y \in Elements(u) : y # p => g[y] = f[y]
    BY <1>1, <1>4, <1>5
  <2>3. Final(l, u) = p
    BY DEF p
  <2> QED
    BY <1>1, <1>2, <1>5, <2>1, <2>2, <2>3, PathMoves
<1>7. Path(g, k, v, k)
  <2>1. g[k] = f[p] /\ g[Final(p, v)] = k
    BY <1>1, <1>2, <1>5
  <2>2. \A y \in Elements(v) : y # Final(p, v) => g[y] = f[y]
    BY <1>1, <1>4, <1>5
  <2> QED
    BY <1>1, <1>2, <2>1, <2>2, PathMoves
<1>8. ASSUME NEW m \in Lists \ {l, k}, NEW y \in RingNodes(m, c[m])
      PROVE  g[y] = f[y]
  <2>1. y \in Nodes /\ y \notin RingNodes(l, c[l]) /\ y \notin RingNodes(k, c[k])
    BY Apart
  <2> QED
    BY <1>3, <1>5, <2>1
<1> QED
  BY <1>6, <1>7, <1>8, RingsTwo

(* The part u becomes the ring of another list, and v stays.               *)
LEMMA CutHeadRing ==
    ASSUME NEW c, Proper(c), NEW f \in [Nodes -> Nodes], Rings(f, c),
           NEW l \in Lists, NEW k \in Lists, k # l,
           NEW u, NEW v, Split(c, l, u, v), u # <<>>,
           NEW g \in [Nodes -> Nodes],
           g[k] = First(u, l), g[Final(l, u)] = k, g[l] = First(v, l),
           \A y \in Nodes \ {k, Final(l, u), l} : g[y] = f[y]
    PROVE  Rings(g, [c EXCEPT ![l] = v, ![k] = u])
<1>0. u \in Seq(Links) /\ v \in Seq(Links) /\ c[l] = Join(u, v)
  BY DEF Split
<1> USE <1>0
<1> DEFINE p == Final(l, u)
           b == First(v, l)
<1>1. /\ Simple(u) /\ Simple(v) /\ Elements(u) \cap Elements(v) = {}
      /\ Elements(c[l]) = Elements(u) \cup Elements(v)
      /\ l \notin Elements(u) /\ l \notin Elements(v) /\ l \in Nodes
      /\ Elements(u) \subseteq Nodes /\ Elements(v) \subseteq Nodes
      /\ p \in Elements(u)
      /\ v # <<>> => Final(p, v) \in Elements(v)
      /\ v = <<>> => Final(p, v) = p
  BY SplitNodes
<1>2. /\ Path(f, l, u, b) /\ Path(f, p, v, l)
      /\ f[p] = b /\ f[Final(p, v)] = l /\ f[l] = First(u, b)
  BY SplitPaths
<1>3. /\ k \in Nodes /\ k \notin RingNodes(l, c[l])
      /\ p \in RingNodes(l, c[l]) /\ l \in RingNodes(l, c[l])
      /\ k \in RingNodes(k, c[k])
  BY <1>1, Apart, LinksAndLists DEF RingNodes
<1>4. /\ k \notin Elements(u) /\ k \notin Elements(v) /\ p \notin Elements(v)
      /\ First(u, b) = First(u, l)
  BY <1>1, <1>3 DEF RingNodes, First
<1>5. g[k] = f[l] /\ g[p] = k /\ g[l] = b /\ \A y \in Nodes \ {k, p, l} : g[y] = f[y]
  BY <1>2, <1>4
<1> HIDE DEF p, b
<1>6. Path(g, k, u, k)
  <2>1. Final(l, u) = p
    BY DEF p
  <2>2. \A y \in Elements(u) : y # p => g[y] = f[y]
    BY <1>1, <1>4, <1>5
  <2> QED
    BY <1>1, <1>2, <1>5, <2>1, <2>2, PathMoves
<1>7. Path(g, l, v, l)
  <2>1. v = <<>> => b = l
    BY DEF b, First
  <2>2. v # <<>> => g[l] = f[p] /\ g[Final(p, v)] = l
    BY <1>1, <1>2, <1>4, <1>5
  <2>3. \A y \in Elements(v) : g[y] = f[y]
    BY <1>1, <1>4, <1>5
  <2> QED
    BY <1>1, <1>2, <1>5, <2>1, <2>2, <2>3, PathMoves
<1>8. ASSUME NEW m \in Lists \ {l, k}, NEW y \in RingNodes(m, c[m])
      PROVE  g[y] = f[y]
  <2>1. y \in Nodes /\ y \notin RingNodes(l, c[l]) /\ y \notin RingNodes(k, c[k])
    BY Apart
  <2> QED
    BY <1>3, <1>5, <2>1
<1> QED
  BY <1>6, <1>7, <1>8, RingsTwo

(* The ring of k is appended to the one of l.                              *)
LEMMA AppendRing ==
    ASSUME NEW c, Proper(c), NEW f \in [Nodes -> Nodes], Rings(f, c),
           NEW l \in Lists, NEW k \in Lists, k # l, c[k] # <<>>,
           NEW g \in [Nodes -> Nodes],
           g[Final(k, c[k])] = l, g[Final(l, c[l])] = First(c[k], k), g[k] = k,
           \A y \in Nodes \ {k, Final(k, c[k]), Final(l, c[l])} : g[y] = f[y]
    PROVE  Rings(g, [c EXCEPT ![l] = Join(c[l], c[k]), ![k] = <<>>])
<1> DEFINE u == c[l]
           v == c[k]
           p == Final(l, u)
           z == Final(k, v)
           b == First(v, k)
<1>1. /\ u \in Seq(Links) /\ v \in Seq(Links) /\ Simple(u) /\ Simple(v)
      /\ v # <<>>
      /\ RingNodes(l, u) \subseteq Nodes /\ RingNodes(k, v) \subseteq Nodes
      /\ RingNodes(l, u) \cap RingNodes(k, v) = {}
  BY Apart
<1>2. /\ Path(f, l, u, l) /\ Path(f, k, v, k)
  BY DEF Rings
<1>3. g[z] = l /\ g[p] = b /\ g[k] = k /\ \A y \in Nodes \ {k, z, p} : g[y] = f[y]
  OBVIOUS
<1>4. /\ u = <<>> => p = l
      /\ u # <<>> => p \in Elements(u)
      /\ z \in Elements(v) /\ Final(p, v) = z
      /\ First(v, l) = b
  BY <1>1, FinalNode DEF First, Final
<1>5. l \notin Elements(u) /\ k \notin Elements(v) /\ k \in Nodes /\ l \in Nodes
  BY <1>1, ElementsOf, LinksAndLists
<1> HIDE DEF p, z, b, u, v
<1>6. f[k] = b
  BY <1>2 DEF Path, b
<1>7. Path(g, l, u, b)
  <2>1. Final(l, u) = p
    BY DEF p
  <2>2. u # <<>> => g[l] = f[l]
    BY <1>1, <1>3, <1>4, <1>5 DEF RingNodes
  <2>3. \A y \in Elements(u) : y # p => g[y] = f[y]
    BY <1>1, <1>3, <1>4, <1>5 DEF RingNodes
  <2> QED
    BY <1>1, <1>2, <1>3, <1>4, <2>1, <2>2, <2>3, PathMoves
<1>8. Path(g, p, v, l)
  <2>1. Final(k, v) = z
    BY DEF z
  <2>2. g[p] = f[k] /\ g[z] = l
    BY <1>3, <1>6
  <2>3. \A y \in Elements(v) : y # z => g[y] = f[y]
    BY <1>1, <1>3, <1>4, <1>5 DEF RingNodes
  <2> QED
    BY <1>1, <1>2, <2>1, <2>2, <2>3, PathMoves
<1>9. Path(g, l, Join(u, v), l)
  BY <1>1, <1>4, <1>7, <1>8, PathSplit DEF p
<1>10. Path(g, k, <<>>, k)
  BY <1>3, NoLink DEF Path
<1>11. ASSUME NEW m \in Lists \ {l, k}, NEW y \in RingNodes(m, c[m])
       PROVE  g[y] = f[y]
  <2>1. y \in Nodes /\ y \notin RingNodes(l, u) /\ y \notin RingNodes(k, v)
    BY Apart DEF u, v
  <2>2. y # k /\ y # p /\ y # z
    BY <1>4, <2>1 DEF RingNodes
  <2> QED
    BY <1>3, <2>1, <2>2
<1>12. Rings(g, [c EXCEPT ![l] = Join(u, v), ![k] = <<>>])
  BY <1>9, <1>10, <1>11, RingsTwo
<1> QED
  BY <1>12 DEF u, v

(* The ring of k is put in front of the one of l.                          *)
LEMMA PrependRing ==
    ASSUME NEW c, Proper(c), NEW f \in [Nodes -> Nodes], Rings(f, c),
           NEW l \in Lists, NEW k \in Lists, k # l, c[k] # <<>>,
           NEW g \in [Nodes -> Nodes],
           g[Final(k, c[k])] = First(c[l], l), g[l] = First(c[k], k), g[k] = k,
           \A y \in Nodes \ {k, Final(k, c[k]), l} : g[y] = f[y]
    PROVE  Rings(g, [c EXCEPT ![l] = Join(c[k], c[l]), ![k] = <<>>])
<1> DEFINE u == c[l]
           v == c[k]
           z == Final(k, v)
           b == First(u, l)
<1>1. /\ u \in Seq(Links) /\ v \in Seq(Links) /\ Simple(u) /\ Simple(v)
      /\ v # <<>>
      /\ RingNodes(l, u) \subseteq Nodes /\ RingNodes(k, v) \subseteq Nodes
      /\ RingNodes(l, u) \cap RingNodes(k, v) = {}
  BY Apart
<1>2. /\ Path(f, l, u, l) /\ Path(f, k, v, k)
  BY DEF Rings
<1>3. /\ g[z] = b /\ g[l] = First(v, k) /\ g[k] = k
      /\ \A y \in Nodes \ {k, z, l} : g[y] = f[y]
  OBVIOUS
<1>4. /\ u # <<>> => Final(l, u) \in Elements(u)
      /\ z \in Elements(v) /\ Final(l, v) = z
  BY <1>1, FinalNode DEF Final
<1>5. l \notin Elements(u) /\ k \notin Elements(v) /\ k \in Nodes /\ l \in Nodes
  BY <1>1, ElementsOf, LinksAndLists
<1> HIDE DEF z, b, u, v
<1>6. f[k] = First(v, k) /\ f[l] = b /\ f[Final(l, u)] = l
  BY <1>1, <1>2, PathEnds DEF b
<1>7. Path(g, l, v, b)
  <2>1. Final(k, v) = z
    BY DEF z
  <2>2. g[l] = f[k] /\ g[z] = b
    BY <1>3, <1>6
  <2>3. \A y \in Elements(v) : y # z => g[y] = f[y]
    BY <1>1, <1>3, <1>4, <1>5 DEF RingNodes
  <2> QED
    BY <1>1, <1>2, <2>1, <2>2, <2>3, PathMoves
<1>8. Path(g, z, u, l)
  <2>1. u = <<>> => b = l
    BY DEF b, First
  <2>2. \A y \in Elements(u) : g[y] = f[y]
    BY <1>1, <1>3, <1>4, <1>5 DEF RingNodes
  <2>3. u # <<>> => g[z] = f[l] /\ g[Final(l, u)] = l
    BY <1>3, <1>4, <1>6, <2>2
  <2> QED
    BY <1>1, <1>2, <1>3, <2>1, <2>2, <2>3, PathMoves
<1>9. Path(g, l, Join(v, u), l)
  BY <1>1, <1>4, <1>7, <1>8, PathSplit DEF b
<1>10. Path(g, k, <<>>, k)
  BY <1>3, NoLink DEF Path
<1>11. ASSUME NEW m \in Lists \ {l, k}, NEW y \in RingNodes(m, c[m])
       PROVE  g[y] = f[y]
  <2>1. y \in Nodes /\ y \notin RingNodes(l, u) /\ y \notin RingNodes(k, v)
    BY Apart DEF u, v
  <2>2. y # k /\ y # l /\ y # z
    BY <1>4, <2>1 DEF RingNodes
  <2> QED
    BY <1>3, <2>1, <2>2
<1>12. Rings(g, [c EXCEPT ![l] = Join(v, u), ![k] = <<>>])
  BY <1>9, <1>10, <1>11, RingsTwo
<1> QED
  BY <1>12 DEF u, v

(* A ring is dropped.                                                      *)
LEMMA EmptyRing ==
    ASSUME NEW c, Proper(c), NEW f \in [Nodes -> Nodes], Rings(f, c),
           NEW l \in Lists
    PROVE  Rings([f EXCEPT ![l] = l], [c EXCEPT ![l] = <<>>])
<1> DEFINE g == [f EXCEPT ![l] = l]
<1>1. l \in Nodes /\ g[l] = l /\ \A y \in Nodes : y # l => g[y] = f[y]
  BY LinksAndLists
<1> HIDE DEF g
<1>2. Path(g, l, <<>>, l)
  BY <1>1, NoLink DEF Path
<1>3. ASSUME NEW m \in Lists \ {l}, NEW y \in RingNodes(m, c[m])
      PROVE  g[y] = f[y]
  <2>1. y \in Nodes /\ y \notin RingNodes(l, c[l]) /\ l \in RingNodes(l, c[l])
    BY Apart DEF RingNodes
  <2> QED
    BY <1>1, <2>1
<1>4. Rings(g, [c EXCEPT ![l] = <<>>])
  BY <1>2, <1>3, RingsOne
<1> QED
  BY <1>4 DEF g

(* A ring is replaced by one of free links.                                *)
LEMMA FreshRing ==
    ASSUME NEW c, Proper(c), NEW f, Rings(f, c), NEW l \in Lists,
           NEW s \in Seq(Links), NEW g, Path(g, l, s, l),
           \A m \in Lists : Elements(s) \cap Elements(c[m]) = {},
           \A y \in Nodes \ RingNodes(l, s) : g[y] = f[y]
    PROVE  Rings(g, [c EXCEPT ![l] = s])
<1>1. ASSUME NEW m \in Lists \ {l}, NEW y \in RingNodes(m, c[m])
      PROVE  g[y] = f[y]
  <2>1. y \in Nodes /\ y \notin RingNodes(l, c[l]) /\ l \in RingNodes(l, c[l])
    BY Apart DEF RingNodes
  <2>2. y \notin Elements(s)
    BY ElementsOf, LinksAndLists DEF RingNodes
  <2>3. y \notin RingNodes(l, s)
    BY <2>1, <2>2 DEF RingNodes
  <2> QED
    BY <2>1, <2>3
<1> QED
  BY <1>1, RingsOne

-----------------------------------------------------------------------------
(* Contents, reversed and cut.                                             *)

LEMMA JoinAssociates ==
    ASSUME NEW u \in Seq(Links), NEW v \in Seq(Links), NEW w \in Seq(Links)
    PROVE  Join(Join(u, v), w) = Join(u, Join(v, w))
  BY ConcatAssociative DEF Join

LEMMA JoinNothing ==
    ASSUME NEW u \in Seq(Links)
    PROVE  Join(u, <<>>) = u /\ Join(<<>>, u) = u
  BY ConcatEmptySeq DEF Join

LEMMA BackwardsOne ==
    ASSUME NEW c, Proper(c), NEW l \in Lists, NEW s
    PROVE  Backwards([c EXCEPT ![l] = s]) = [Backwards(c) EXCEPT ![l] = Reversed(s)]
<1>1. c \in [Lists -> Seq(Links)]
  BY DEF Proper
<1> QED
  BY <1>1 DEF Backwards

(* A sequence in front of, at and behind the place of one of its links.    *)
LEMMA SplitAt ==
    ASSUME NEW s \in Seq(Links), Simple(s), NEW x \in Elements(s)
    PROVE  LET i == Position(s, x)
               u == SubSeq(s, 1, i - 1)
               v == SubSeq(s, i + 1, Len(s))
           IN  /\ i \in 1..Len(s) /\ s[i] = x
               /\ u \in Seq(Links) /\ v \in Seq(Links)
               /\ s = Join(Join(u, One(x)), v)
               /\ SubSeq(s, i, Len(s)) = Join(One(x), v)
<1> DEFINE i == Position(s, x)
           u == SubSeq(s, 1, i - 1)
           v == SubSeq(s, i + 1, Len(s))
           t == SubSeq(s, i, Len(s))
<1>1. i \in 1..Len(s) /\ s[i] = x
  <2>1. \E n \in 1..Len(s) : s[n] = x
    BY ElementsOf
  <2> QED
    BY <2>1 DEF Position
<1> HIDE DEF i
<1>2. Len(s) \in Nat /\ i \in Nat /\ x \in Links
  BY <1>1
<1>3. /\ u \in Seq(Links) /\ Len(u) = i - 1
      /\ \A n \in 1..(i - 1) : u[n] = s[n]
  BY <1>1, <1>2
<1>4. /\ v \in Seq(Links) /\ Len(v) = Len(s) - i
      /\ \A n \in 1..(Len(s) - i) : v[n] = s[i + n]
  BY <1>1, <1>2
<1>5. /\ t \in Seq(Links) /\ Len(t) = Len(s) + 1 - i
      /\ \A n \in 1..(Len(s) + 1 - i) : t[n] = s[i - 1 + n]
  BY <1>1, <1>2
<1> HIDE DEF u, v, t
<1>6. <<x>> \in Seq(Links) /\ Len(<<x>>) = 1 /\ <<x>>[1] = x
  BY <1>2
<1>7. t = <<x>> \o v
  <2>1. /\ <<x>> \o v \in Seq(Links) /\ Len(<<x>> \o v) = 1 + Len(v)
        /\ \A n \in 1..(1 + Len(v)) :
              (<<x>> \o v)[n] = IF n = 1 THEN x ELSE v[n - 1]
    BY <1>4, <1>6
  <2>2. 1 + Len(v) = Len(t)
    BY <1>1, <1>4, <1>5
  <2>3. ASSUME NEW n \in 1..Len(t) PROVE t[n] = (<<x>> \o v)[n]
    <3>1. CASE n = 1
      <4>1. t[1] = s[i - 1 + 1] /\ i - 1 + 1 = i
        BY <1>1, <1>5, <3>1
      <4>2. (<<x>> \o v)[1] = x
        BY <2>1, <2>2, <3>1
      <4> QED
        BY <1>1, <3>1, <4>1, <4>2, Zenon
    <3>2. CASE n # 1
      <4>1. n - 1 \in 1..(Len(s) - i) /\ i + (n - 1) = i - 1 + n
        BY <1>1, <1>2, <1>5, <3>2
      <4> QED
        BY <1>4, <1>5, <2>1, <2>2, <3>2, <4>1
    <3> QED
      BY <3>1, <3>2
  <2> QED
    BY <1>5, <2>1, <2>2, <2>3, SeqEqual
<1>8. s = u \o t
  <2>1. /\ 1 \in 1..(Len(s) + 1) /\ i - 1 \in (1 - 1)..Len(s)
        /\ Len(s) \in (i - 1)..Len(s) /\ (i - 1) + 1 = i
    BY <1>1, <1>2
  <2>2. SubSeq(s, 1, i - 1) \o SubSeq(s, (i - 1) + 1, Len(s)) = SubSeq(s, 1, Len(s))
    BY <2>1, ConcatAdjacentSubSeq, Zenon
  <2>3. SubSeq(s, 1, Len(s)) = s
    OBVIOUS
  <2> QED
    BY <2>1, <2>2, <2>3, Zenon DEF u, t
<1>9. One(x) \in Seq(Links) /\ t = Join(One(x), v) /\ s = Join(u, t)
  BY <1>6, <1>7, <1>8 DEF Join, One
<1>10. s = Join(Join(u, One(x)), v)
  BY <1>3, <1>4, <1>9, JoinAssociates
<1> QED
  BY <1>1, <1>3, <1>4, <1>9, <1>10 DEF i, u, v, t

-----------------------------------------------------------------------------
(* What the operations do to a list, in both directions.  The pointers nx, *)
(* pv and la make the sequences c of lists of type ty.                     *)

Shape(c, nx, pv, la, ty) ==
    /\ Proper(c) /\ Rings(nx, c)
    /\ nx \in [Nodes -> Nodes] /\ pv \in [Nodes -> Nodes] /\ la \in [Lists -> Nodes]
    /\ ty # "SC" => Rings(pv, Backwards(c))
    /\ ty = "SC" => \A l \in Lists : la[l] = Final(l, c[l])

Unlinked(x, c) == \A m \in Lists : x \notin Elements(c[m])

(* The two parts of a ring, read backwards.                                *)
LEMMA SplitBackwards ==
    ASSUME NEW c, Proper(c), NEW l \in Lists,
           NEW u, NEW v, Split(c, l, u, v)
    PROVE  /\ Proper(Backwards(c)) /\ Split(Backwards(c), l, Reversed(v), Reversed(u))
           /\ Reversed(u) \in Seq(Links) /\ Reversed(v) \in Seq(Links)
<1>0. u \in Seq(Links) /\ v \in Seq(Links) /\ c[l] = Join(u, v)
  BY DEF Split
<1> USE <1>0
<1>1. Simple(u) /\ Simple(v)
  BY SplitNodes
<1>2. Proper(Backwards(c)) /\ Backwards(c)[l] = Reversed(c[l])
  BY ReverseProper DEF Backwards
<1>3. Reversed(c[l]) = Join(Reversed(v), Reversed(u))
  BY ReverseJoin
<1>4. /\ Reversed(u) \in Seq(Links) /\ Reversed(v) \in Seq(Links)
  BY <1>1, Reverse
<1> QED
  BY <1>2, <1>3, <1>4 DEF Split

LEMMA SplitEnds ==
    ASSUME NEW c, Proper(c), NEW l \in Lists,
           NEW u, NEW v, Split(c, l, u, v)
    PROVE  /\ Final(l, Reversed(v)) = First(v, l) /\ First(Reversed(u), l) = Final(l, u)
           /\ Final(l, Reversed(u)) = First(u, l) /\ First(Reversed(v), l) = Final(l, v)
           /\ Reversed(u) = <<>> <=> u = <<>>
           /\ Reversed(v) = <<>> <=> v = <<>>
<1>0. u \in Seq(Links) /\ v \in Seq(Links) /\ c[l] = Join(u, v)
  BY DEF Split
<1> USE <1>0
<1>1. Simple(u) /\ Simple(v)
  BY SplitNodes
<1> QED
  BY <1>1, Reverse

(* The pointers at the seam of the two parts.                              *)
LEMMA Seam ==
    ASSUME NEW c, NEW nx, NEW pv, NEW la, NEW ty, Shape(c, nx, pv, la, ty),
           NEW l \in Lists,
           NEW u, NEW v, Split(c, l, u, v)
    PROVE  /\ nx[Final(l, u)] = First(v, l)
           /\ ty # "SC" => pv[First(v, l)] = Final(l, u)
           /\ Final(l, u) \in Nodes /\ First(v, l) \in Nodes
<1>0. u \in Seq(Links) /\ v \in Seq(Links) /\ c[l] = Join(u, v)
  BY DEF Split
<1> USE <1>0
<1>1. Proper(c) /\ Rings(nx, c) /\ (ty # "SC" => Rings(pv, Backwards(c)))
  BY DEF Shape
<1>2. nx[Final(l, u)] = First(v, l)
  BY <1>1, SplitPaths
<1>3. ASSUME ty # "SC" PROVE pv[First(v, l)] = Final(l, u)
  <2>1. pv[Final(l, Reversed(v))] = First(Reversed(u), l)
    BY <1>1, <1>3, SplitBackwards, SplitPaths
  <2>2. Final(l, Reversed(v)) = First(v, l) /\ First(Reversed(u), l) = Final(l, u)
    BY <1>1, SplitEnds
  <2> QED
    BY <2>1, <2>2
<1>4. Final(l, u) \in Nodes
  BY <1>1, SplitNodes
<1>5. First(v, l) \in Nodes
  BY ElementsOf, LinksAndLists DEF First
<1> QED
  BY <1>2, <1>3, <1>4, <1>5

LEMMA InsertProper ==
    ASSUME NEW c, Proper(c), NEW l \in Lists, NEW x \in Links, Unlinked(x, c),
           NEW u, NEW v, Split(c, l, u, v)
    PROVE  /\ Join(Join(u, One(x)), v) \in Seq(Links)
           /\ Proper([c EXCEPT ![l] = Join(Join(u, One(x)), v)])
           /\ Len(Join(Join(u, One(x)), v)) = Len(c[l]) + 1
<1>0. u \in Seq(Links) /\ v \in Seq(Links) /\ c[l] = Join(u, v)
  BY DEF Split
<1> USE <1>0
<1> DEFINE w == Join(u, One(x))
           s == Join(w, v)
<1>1. /\ Simple(u) /\ Simple(v) /\ Elements(u) \cap Elements(v) = {}
      /\ Elements(c[l]) = Elements(u) \cup Elements(v)
  BY SplitNodes
<1>2. /\ One(x) \in Seq(Links) /\ Elements(One(x)) = {x} /\ Simple(One(x))
      /\ Len(One(x)) = 1
  BY OneLink
<1>3. x \notin Elements(u) /\ x \notin Elements(v)
  BY <1>1 DEF Unlinked
<1>4. /\ w \in Seq(Links) /\ Elements(w) = Elements(u) \cup {x} /\ Simple(w)
      /\ Len(w) = Len(u) + 1
  <2>1. /\ w \in Seq(Links) /\ Elements(w) = Elements(u) \cup Elements(One(x))
        /\ Len(w) = Len(u) + Len(One(x))
    BY <1>2, JoinElements, Zenon
  <2>2. Elements(u) \cap Elements(One(x)) = {}
    BY <1>2, <1>3
  <2>3. Simple(w)
    BY <1>1, <1>2, <2>2, JoinSimple, Zenon
  <2> QED
    BY <1>2, <2>1, <2>3
<1> HIDE DEF w
<1>5. /\ s \in Seq(Links) /\ Elements(s) = Elements(c[l]) \cup {x} /\ Simple(s)
      /\ Len(s) = Len(u) + 1 + Len(v)
  <2>1. /\ s \in Seq(Links) /\ Elements(s) = Elements(w) \cup Elements(v)
        /\ Len(s) = Len(w) + Len(v)
    BY <1>4, JoinElements, Zenon
  <2>2. Elements(w) \cap Elements(v) = {}
    BY <1>1, <1>3, <1>4
  <2>3. Simple(s)
    BY <1>1, <1>4, <2>2, JoinSimple, Zenon
  <2>4. Elements(s) = Elements(c[l]) \cup {x}
    BY <1>1, <1>4, <2>1
  <2> QED
    BY <1>4, <2>1, <2>3, <2>4
<1>6. Len(c[l]) = Len(u) + Len(v) /\ Len(u) \in Nat /\ Len(v) \in Nat
  BY JoinElements, ElementsOf
<1> HIDE DEF s
<1>7. \A m \in Lists : m # l => Elements(s) \cap Elements(c[m]) = {}
  BY <1>5 DEF Proper, Unlinked
<1>8. Proper([c EXCEPT ![l] = s])
  BY <1>5, <1>7, ProperOne
<1> QED
  BY <1>5, <1>6, <1>8 DEF s, w

LEMMA InsertShape ==
    ASSUME NEW c, NEW nx, NEW pv, NEW la, NEW ty, Shape(c, nx, pv, la, ty),
           ty # "SC", NEW l \in Lists, NEW x \in Links, Unlinked(x, c),
           NEW u, NEW v, Split(c, l, u, v)
    PROVE  LET p == Final(l, u)
           IN  Shape([c EXCEPT ![l] = Join(Join(u, One(x)), v)],
                     [nx EXCEPT ![x] = nx[p], ![p] = x],
                     [pv EXCEPT ![x] = p, ![nx[p]] = x], la, ty)
<1>0. u \in Seq(Links) /\ v \in Seq(Links) /\ c[l] = Join(u, v)
  BY DEF Split
<1> USE <1>0
<1> DEFINE p == Final(l, u)
           q == First(v, l)
           c2 == [c EXCEPT ![l] = Join(Join(u, One(x)), v)]
           nx2 == [nx EXCEPT ![x] = nx[p], ![p] = x]
           pv2 == [pv EXCEPT ![x] = p, ![nx[p]] = x]
           d == Backwards(c)
           ru == Reversed(u)
           rv == Reversed(v)
<1>1. /\ Proper(c) /\ Rings(nx, c) /\ Rings(pv, d)
      /\ nx \in [Nodes -> Nodes] /\ pv \in [Nodes -> Nodes] /\ la \in [Lists -> Nodes]
  BY DEF Shape
<1>2. nx[p] = q /\ pv[q] = p /\ p \in Nodes /\ q \in Nodes /\ x \in Nodes
  BY Seam, LinksAndLists
<1>3. Proper(c2)
  BY <1>1, InsertProper
<1>4. Rings(nx2, c2)
  BY <1>1, InsertRing DEF Unlinked
<1>5. /\ Proper(d) /\ Split(d, l, rv, ru) /\ ru \in Seq(Links) /\ rv \in Seq(Links)
      /\ Final(l, rv) = q
  <2>1. Final(l, rv) = q
    BY <1>1, SplitEnds
  <2> QED
    BY <1>1, <2>1, SplitBackwards
<1>6. \A m \in Lists : x \notin Elements(d[m])
  <2> SUFFICES ASSUME NEW m \in Lists PROVE x \notin Elements(d[m])
    OBVIOUS
  <2>1. d[m] = Reversed(c[m]) /\ c[m] \in Seq(Links) /\ Simple(c[m])
    BY <1>1 DEF Backwards, Proper
  <2>2. Elements(d[m]) = Elements(c[m])
    BY <2>1, Reverse
  <2> QED
    BY <2>2 DEF Unlinked
<1>7. Rings([pv EXCEPT ![x] = pv[q], ![q] = x],
            [d EXCEPT ![l] = Join(Join(rv, One(x)), ru)])
  BY <1>1, <1>5, <1>6, InsertRing
<1>8. [pv EXCEPT ![x] = pv[q], ![q] = x] = pv2
  BY <1>2
<1>9. Reversed(Join(Join(u, One(x)), v)) = Join(Join(rv, One(x)), ru)
  <2>1. One(x) \in Seq(Links) /\ Reversed(One(x)) = One(x) /\ Join(u, One(x)) \in Seq(Links)
    BY OneLink, JoinElements
  <2>2. Reversed(Join(Join(u, One(x)), v)) = Join(rv, Join(One(x), ru))
    BY <2>1, ReverseJoin
  <2> QED
    BY <1>5, <2>1, <2>2, JoinAssociates
<1>10. Backwards(c2) = [d EXCEPT ![l] = Join(Join(rv, One(x)), ru)]
  <2>1. Backwards(c2) = [d EXCEPT ![l] = Reversed(Join(Join(u, One(x)), v))]
    BY <1>1, BackwardsOne, Zenon
  <2> QED
    BY <1>9, <2>1, Zenon
<1>11. nx2 \in [Nodes -> Nodes] /\ pv2 \in [Nodes -> Nodes]
  BY <1>1, <1>2
<1>12. Shape(c2, nx2, pv2, la, ty)
  BY <1>1, <1>3, <1>4, <1>7, <1>8, <1>10, <1>11 DEF Shape
<1> QED
  BY <1>12

LEMMA ReverseThree ==
    ASSUME NEW u \in Seq(Links), NEW v \in Seq(Links), NEW x \in Links,
           Reversed(u) \in Seq(Links), Reversed(v) \in Seq(Links)
    PROVE  Reversed(Join(Join(u, One(x)), v)) =
             Join(Join(Reversed(v), One(x)), Reversed(u))
<1>1. One(x) \in Seq(Links) /\ Reversed(One(x)) = One(x) /\ Join(u, One(x)) \in Seq(Links)
  BY OneLink, JoinElements
<1>2. Reversed(Join(Join(u, One(x)), v)) = Join(Reversed(v), Join(One(x), Reversed(u)))
  BY <1>1, ReverseJoin
<1> QED
  BY <1>1, <1>2, JoinAssociates

(* The pointers of the anchor.                                             *)
LEMMA Ends ==
    ASSUME NEW c, NEW nx, NEW pv, NEW la, NEW ty, Shape(c, nx, pv, la, ty),
           NEW l \in Lists
    PROVE  /\ c[l] \in Seq(Links) /\ Simple(c[l]) /\ l \in Nodes
           /\ nx[l] = First(c[l], l) /\ First(c[l], l) \in Nodes
           /\ nx[Final(l, c[l])] = l /\ Final(l, c[l]) \in Nodes
           /\ ty # "SC" => pv[l] = Final(l, c[l]) /\ pv[First(c[l], l)] = l
<1>1. c[l] \in Seq(Links) /\ Simple(c[l])
  BY Apart DEF Shape
<1>2. <<>> \in Seq(Links) /\ First(<<>>, l) = l /\ Final(l, <<>>) = l
  BY NoLink
<1>3. Split(c, l, c[l], <<>>) /\ Split(c, l, <<>>, c[l])
  BY <1>1, <1>2, JoinNothing DEF Split
<1>4. /\ nx[Final(l, c[l])] = l /\ Final(l, c[l]) \in Nodes
      /\ ty # "SC" => pv[l] = Final(l, c[l])
  <2>1. /\ nx[Final(l, c[l])] = First(<<>>, l) /\ Final(l, c[l]) \in Nodes
        /\ ty # "SC" => pv[First(<<>>, l)] = Final(l, c[l])
    BY <1>2, <1>3, Seam
  <2> QED
    BY <1>2, <2>1
<1>5. /\ nx[l] = First(c[l], l) /\ First(c[l], l) \in Nodes /\ l \in Nodes
      /\ ty # "SC" => pv[First(c[l], l)] = l
  <2>1. /\ nx[Final(l, <<>>)] = First(c[l], l) /\ First(c[l], l) \in Nodes
        /\ ty # "SC" => pv[First(c[l], l)] = Final(l, <<>>)
    BY <1>2, <1>3, Seam
  <2> QED
    BY <1>2, <2>1, LinksAndLists
<1> QED
  BY <1>1, <1>4, <1>5

LEMMA RemoveProper ==
    ASSUME NEW c, Proper(c), NEW l \in Lists, NEW u, NEW x, NEW v,
           SplitBy(c, l, u, x, v)
    PROVE  /\ Join(u, v) \in Seq(Links)
           /\ Proper([c EXCEPT ![l] = Join(u, v)])
           /\ Split(c, l, Join(u, One(x)), v) /\ Split(c, l, u, Join(One(x), v))
           /\ Final(l, Join(u, One(x))) = x /\ First(Join(One(x), v), l) = x
           /\ x \in Elements(c[l]) /\ x \notin Elements(Join(u, v))
<1>0. /\ u \in Seq(Links) /\ x \in Links /\ v \in Seq(Links)
      /\ c[l] = Join(Join(u, One(x)), v)
  BY DEF SplitBy
<1> USE <1>0
<1> DEFINE w == Join(u, One(x))
           s == Join(u, v)
<1>1. /\ One(x) \in Seq(Links) /\ Elements(One(x)) = {x} /\ Simple(One(x))
      /\ Len(One(x)) = 1
      /\ \A a : First(One(x), a) = x /\ Final(a, One(x)) = x
  BY OneLink
<1>2. /\ w \in Seq(Links) /\ Elements(w) = Elements(u) \cup {x}
      /\ Len(w) = Len(u) + 1
  <2>1. /\ w \in Seq(Links) /\ Elements(w) = Elements(u) \cup Elements(One(x))
        /\ Len(w) = Len(u) + Len(One(x))
    BY <1>1, JoinElements
  <2> QED
    BY <1>1, <2>1
<1>3. Join(One(x), v) \in Seq(Links) /\ c[l] = Join(u, Join(One(x), v))
  BY <1>1, JoinElements, JoinAssociates
<1>4. Final(l, w) = x /\ First(Join(One(x), v), l) = x
  BY <1>1, FinalJoin
<1>5. /\ Simple(w) /\ Simple(v) /\ Elements(w) \cap Elements(v) = {}
      /\ Elements(c[l]) = Elements(w) \cup Elements(v)
      /\ Split(c, l, w, v) /\ Split(c, l, u, Join(One(x), v))
  <2>1. Split(c, l, w, v) /\ Split(c, l, u, Join(One(x), v))
    BY <1>2, <1>3 DEF Split
  <2> QED
    BY <2>1, SplitNodes
<1>6. Simple(u) /\ Elements(u) \cap {x} = {}
  BY <1>1, <1>5, JoinSimple
<1> HIDE DEF w
<1>8. /\ s \in Seq(Links) /\ Elements(s) = Elements(u) \cup Elements(v)
      /\ Len(s) = Len(u) + Len(v)
  BY JoinElements
<1>9. Simple(s)
  <2>1. Elements(u) \cap Elements(v) = {}
    BY <1>2, <1>5
  <2> QED
    BY <1>5, <1>6, <2>1, JoinSimple
<1> HIDE DEF s
<1>10. \A m \in Lists : m # l => Elements(s) \cap Elements(c[m]) = {}
  BY <1>2, <1>5, <1>8 DEF Proper
<1>11. Proper([c EXCEPT ![l] = s])
  BY <1>8, <1>9, <1>10, ProperOne
<1>12. x \in Elements(c[l]) /\ x \notin Elements(s)
  BY <1>2, <1>5, <1>6, <1>8
<1> QED
  BY <1>4, <1>5, <1>8, <1>11, <1>12 DEF s, w

LEMMA RemoveLength ==
    ASSUME NEW c, Proper(c), NEW l \in Lists, NEW u, NEW x, NEW v,
           SplitBy(c, l, u, x, v)
    PROVE  Len(c[l]) = Len(Join(u, v)) + 1
<1>1. /\ u \in Seq(Links) /\ x \in Links /\ v \in Seq(Links)
      /\ c[l] = Join(Join(u, One(x)), v)
  BY DEF SplitBy
<1>2. One(x) \in Seq(Links) /\ Len(One(x)) = 1
  BY <1>1, OneLink
<1>3. Join(u, One(x)) \in Seq(Links) /\ Len(Join(u, One(x))) = Len(u) + 1
  <2>1. /\ Join(u, One(x)) \in Seq(Links)
        /\ Len(Join(u, One(x))) = Len(u) + Len(One(x))
    BY <1>1, <1>2, JoinElements, Zenon
  <2> QED
    BY <1>2, <2>1
<1>4. /\ Len(c[l]) = Len(Join(u, One(x))) + Len(v)
      /\ Len(Join(u, v)) = Len(u) + Len(v)
  BY <1>1, <1>3, JoinElements
<1>5. Len(u) \in Nat /\ Len(v) \in Nat
  BY <1>1, ElementsOf
<1> QED
  BY <1>3, <1>4, <1>5

LEMMA RemoveShape ==
    ASSUME NEW c, NEW nx, NEW pv, NEW la, NEW ty, Shape(c, nx, pv, la, ty),
           ty # "SC", NEW l \in Lists, NEW u, NEW x, NEW v,
           SplitBy(c, l, u, x, v)
    PROVE  Shape([c EXCEPT ![l] = Join(u, v)], [nx EXCEPT ![pv[x]] = nx[x]],
                 [pv EXCEPT ![nx[x]] = pv[x]], la, ty)
<1>0. /\ u \in Seq(Links) /\ x \in Links /\ v \in Seq(Links)
      /\ c[l] = Join(Join(u, One(x)), v)
  BY DEF SplitBy
<1> USE <1>0
<1> DEFINE p == Final(l, u)
           q == First(v, l)
           c2 == [c EXCEPT ![l] = Join(u, v)]
           d == Backwards(c)
           ru == Reversed(u)
           rv == Reversed(v)
           w == Join(u, One(x))
           t == Join(One(x), v)
<1>1. /\ Proper(c) /\ Rings(nx, c) /\ Rings(pv, d)
      /\ nx \in [Nodes -> Nodes] /\ pv \in [Nodes -> Nodes] /\ la \in [Lists -> Nodes]
  BY DEF Shape
<1>2. /\ Split(c, l, w, v) /\ Final(l, w) = x
      /\ Split(c, l, u, t) /\ First(t, l) = x
      /\ Proper(c2)
  BY <1>1, RemoveProper
<1>3. nx[x] = q /\ q \in Nodes /\ x \in Nodes
  <2>1. nx[Final(l, w)] = q /\ q \in Nodes
    BY <1>2, Seam
  <2> QED
    BY <1>2, <2>1, LinksAndLists
<1>4. pv[x] = p /\ p \in Nodes
  <2> HIDE DEF t
  <2> QED
    BY <1>2, Seam
<1>5. Rings([nx EXCEPT ![p] = nx[x]], c2)
  BY <1>1, RemoveRing
<1>6. Simple(u) /\ Simple(v)
  <2>1. Simple(w) /\ Simple(v)
    BY <1>1, <1>2, SplitNodes
  <2> QED
    BY <2>1, OneLink, JoinSimple
<1>7. ru \in Seq(Links) /\ rv \in Seq(Links) /\ Final(l, rv) = q
  BY <1>6, Reverse
<1>8. Proper(d) /\ SplitBy(d, l, rv, x, ru)
  BY <1>1, <1>7, ReverseProper, ReverseThree DEF Backwards, SplitBy
<1>9. Rings([pv EXCEPT ![q] = pv[x]], [d EXCEPT ![l] = Join(rv, ru)])
  <2> HIDE DEF ru, rv, d
  <2> QED
    BY <1>1, <1>7, <1>8, RemoveRing
<1>10. Backwards(c2) = [d EXCEPT ![l] = Join(rv, ru)]
  <2>1. Backwards(c2) = [d EXCEPT ![l] = Reversed(Join(u, v))]
    BY <1>1, BackwardsOne, Zenon
  <2>2. Reversed(Join(u, v)) = Join(rv, ru)
    BY ReverseJoin
  <2> QED
    BY <2>1, <2>2, Zenon
<1>11. /\ [nx EXCEPT ![p] = nx[x]] \in [Nodes -> Nodes]
       /\ [pv EXCEPT ![q] = pv[x]] \in [Nodes -> Nodes]
  BY <1>1, <1>3, <1>4
<1> HIDE DEF p, q, c2, d
<1>12. Shape(c2, [nx EXCEPT ![p] = nx[x]], [pv EXCEPT ![q] = pv[x]], la, ty)
  BY <1>1, <1>2, <1>5, <1>9, <1>10, <1>11 DEF Shape
<1> QED
  BY <1>3, <1>4, <1>12 DEF c2

LEMMA CutProper ==
    ASSUME NEW c, Proper(c), NEW l \in Lists, NEW k \in Lists, k # l,
           NEW u, NEW v, Split(c, l, u, v)
    PROVE  /\ Proper([c EXCEPT ![l] = u, ![k] = v])
           /\ Proper([c EXCEPT ![l] = v, ![k] = u])
           /\ Len(c[l]) = Len(u) + Len(v)
<1>0. u \in Seq(Links) /\ v \in Seq(Links) /\ c[l] = Join(u, v)
  BY DEF Split
<1>1. /\ Simple(u) /\ Simple(v) /\ Elements(u) \cap Elements(v) = {}
      /\ Elements(c[l]) = Elements(u) \cup Elements(v)
  BY SplitNodes
<1>2. \A m \in Lists \ {l, k} : Elements(c[l]) \cap Elements(c[m]) = {}
  BY DEF Proper
<1>3. Proper([c EXCEPT ![l] = u, ![k] = v])
  BY <1>0, <1>1, <1>2, ProperTwo
<1>4. Proper([c EXCEPT ![l] = v, ![k] = u])
  BY <1>0, <1>1, <1>2, ProperTwo
<1> QED
  BY <1>0, <1>3, <1>4, JoinElements

(* The nodes at which a ring is cut.                                       *)
LEMMA CutNodes ==
    ASSUME NEW c, NEW nx, NEW pv, NEW la, NEW ty, Shape(c, nx, pv, la, ty),
           ty # "SC", NEW l \in Lists, NEW k \in Lists, k # l,
           NEW u, NEW v, Split(c, l, u, v)
    PROVE  /\ nx[l] = First(u, First(v, l)) /\ pv[l] = Final(Final(l, u), v)
           /\ pv[First(v, l)] = Final(l, u)
           /\ u # <<>> => /\ First(u, First(v, l)) = First(u, l)
                          /\ First(u, l) \in Elements(u)
                          /\ Final(l, u) \in Elements(u)
           /\ u = <<>> => Final(l, u) = l
           /\ v # <<>> => /\ Final(Final(l, u), v) = Final(l, v)
                          /\ First(v, l) \in Elements(v)
                          /\ Final(l, v) \in Elements(v)
           /\ v = <<>> => First(v, l) = l
           /\ k \notin Elements(u) /\ k \notin Elements(v) /\ k \in Nodes
           /\ l \notin Elements(u) /\ l \notin Elements(v) /\ l \in Nodes
           /\ Elements(u) \subseteq Nodes /\ Elements(v) \subseteq Nodes
           /\ Elements(u) \cap Elements(v) = {}
<1>0. u \in Seq(Links) /\ v \in Seq(Links) /\ c[l] = Join(u, v) /\ Proper(c)
  BY DEF Split, Shape
<1>1. nx[l] = First(u, First(v, l)) /\ pv[l] = Final(Final(l, u), v)
  BY <1>0, Ends, FinalJoin
<1>2. pv[First(v, l)] = Final(l, u)
  BY Seam
<1>3. u # <<>> => /\ First(u, First(v, l)) = First(u, l)
                  /\ First(u, l) \in Elements(u)
                  /\ Final(l, u) \in Elements(u)
  BY <1>0, ElementsOf DEF First, Final
<1>4. v # <<>> => /\ Final(Final(l, u), v) = Final(l, v)
                  /\ First(v, l) \in Elements(v)
                  /\ Final(l, v) \in Elements(v)
  BY <1>0, ElementsOf DEF First, Final
<1>5. (u = <<>> => Final(l, u) = l) /\ (v = <<>> => First(v, l) = l)
  BY DEF First, Final
<1>6. /\ k \notin Elements(u) /\ k \notin Elements(v) /\ k \in Nodes
      /\ l \notin Elements(u) /\ l \notin Elements(v) /\ l \in Nodes
      /\ Elements(u) \subseteq Nodes /\ Elements(v) \subseteq Nodes
  BY <1>0, ElementsOf, LinksAndLists
<1>7. Elements(u) \cap Elements(v) = {}
  BY <1>0, SplitNodes
<1> QED
  BY <1>1, <1>2, <1>3, <1>4, <1>5, <1>6, <1>7

LEMMA SeparateFromShape ==
    ASSUME NEW c, NEW nx, NEW pv, NEW la, NEW ty, Shape(c, nx, pv, la, ty),
           ty # "SC", NEW l \in Lists, NEW k \in Lists, k # l,
           NEW u, NEW v, Split(c, l, u, v), v # <<>>
    PROVE  LET pivot == First(v, l)
           IN  Shape([c EXCEPT ![l] = u, ![k] = v],
                     [nx EXCEPT ![k] = pivot, ![pv[l]] = k, ![pv[pivot]] = l],
                     [pv EXCEPT ![k] = pv[l], ![l] = pv[pivot], ![pivot] = k],
                     la, ty)
<1> DEFINE p == Final(l, u)
           z == Final(l, v)
           q == First(v, l)
           c2 == [c EXCEPT ![l] = u, ![k] = v]
           nx2 == [nx EXCEPT ![k] = q, ![z] = k, ![p] = l]
           pv2 == [pv EXCEPT ![k] = z, ![l] = p, ![q] = k]
           d == Backwards(c)
           ru == Reversed(u)
           rv == Reversed(v)
<1>1. /\ Proper(c) /\ Rings(nx, c) /\ Rings(pv, d)
      /\ nx \in [Nodes -> Nodes] /\ pv \in [Nodes -> Nodes] /\ la \in [Lists -> Nodes]
  BY DEF Shape
<1>2. pv[l] = z /\ pv[q] = p
  BY CutNodes
<1>3. /\ k \in Nodes /\ l \in Nodes /\ p \in Nodes /\ q \in Nodes /\ z \in Nodes
      /\ k # z /\ k # p /\ z # p /\ k # l /\ k # q /\ l # q
  BY CutNodes
<1>4. Proper(c2)
  BY <1>1, CutProper
<1>5. /\ nx2 \in [Nodes -> Nodes] /\ nx2[k] = q /\ nx2[z] = k /\ nx2[p] = l
      /\ \A y \in Nodes \ {k, z, p} : nx2[y] = nx[y]
  BY <1>1, <1>3
<1>6. /\ pv2 \in [Nodes -> Nodes] /\ pv2[k] = z /\ pv2[l] = p /\ pv2[q] = k
      /\ \A y \in Nodes \ {k, q, l} : pv2[y] = pv[y]
  BY <1>1, <1>3
<1> HIDE DEF nx2, pv2
<1>7. Rings(nx2, c2)
  BY <1>1, <1>5, CutTailRing
<1>8. /\ Proper(d) /\ Split(d, l, rv, ru) /\ rv # <<>>
      /\ First(rv, l) = z /\ Final(l, rv) = q /\ First(ru, l) = p
  BY <1>1, SplitBackwards, SplitEnds
<1>9. Rings(pv2, [d EXCEPT ![l] = ru, ![k] = rv])
  <2> HIDE DEF ru, rv, d, z, q, p
  <2> QED
    BY <1>1, <1>6, <1>8, CutHeadRing
<1>10. Backwards(c2) = [d EXCEPT ![l] = ru, ![k] = rv]
  <2>1. c \in [Lists -> Seq(Links)]
    BY <1>1 DEF Proper
  <2> QED
    BY <2>1 DEF Backwards
<1> HIDE DEF c2, d
<1>11. Shape(c2, nx2, pv2, la, ty)
  BY <1>1, <1>4, <1>5, <1>6, <1>7, <1>9, <1>10 DEF Shape
<1> QED
  BY <1>2, <1>11 DEF c2, nx2, pv2

LEMMA SeparateUntilShape ==
    ASSUME NEW c, NEW nx, NEW pv, NEW la, NEW ty, Shape(c, nx, pv, la, ty),
           ty # "SC", NEW l \in Lists, NEW k \in Lists, k # l,
           NEW u, NEW v, Split(c, l, u, v), u # <<>>
    PROVE  LET pivot == First(v, l)
           IN  Shape([c EXCEPT ![l] = v, ![k] = u],
                     [nx EXCEPT ![k] = nx[l], ![pv[pivot]] = k, ![l] = pivot],
                     [pv EXCEPT ![nx[l]] = k, ![k] = pv[pivot], ![pivot] = l],
                     la, ty)
<1> DEFINE p == Final(l, u)
           h == First(u, l)
           q == First(v, l)
           c2 == [c EXCEPT ![l] = v, ![k] = u]
           nx2 == [nx EXCEPT ![k] = h, ![p] = k, ![l] = q]
           pv2 == [pv EXCEPT ![h] = k, ![k] = p, ![q] = l]
           d == Backwards(c)
           ru == Reversed(u)
           rv == Reversed(v)
<1>1. /\ Proper(c) /\ Rings(nx, c) /\ Rings(pv, d)
      /\ nx \in [Nodes -> Nodes] /\ pv \in [Nodes -> Nodes] /\ la \in [Lists -> Nodes]
  BY DEF Shape
<1>2. nx[l] = h /\ pv[q] = p
  BY CutNodes
<1>3. /\ k \in Nodes /\ l \in Nodes /\ p \in Nodes /\ q \in Nodes /\ h \in Nodes
      /\ k # h /\ k # p /\ h # q /\ k # l /\ k # q /\ l # p
  BY CutNodes
<1>4. Proper(c2)
  BY <1>1, CutProper
<1>5. /\ nx2 \in [Nodes -> Nodes] /\ nx2[k] = h /\ nx2[p] = k /\ nx2[l] = q
      /\ \A y \in Nodes \ {k, p, l} : nx2[y] = nx[y]
  BY <1>1, <1>3
<1>6. /\ pv2 \in [Nodes -> Nodes] /\ pv2[h] = k /\ pv2[k] = p /\ pv2[q] = l
      /\ \A y \in Nodes \ {k, h, q} : pv2[y] = pv[y]
  BY <1>1, <1>3
<1> HIDE DEF nx2, pv2
<1>7. Rings(nx2, c2)
  BY <1>1, <1>5, CutHeadRing
<1>8. /\ Proper(d) /\ Split(d, l, rv, ru) /\ ru # <<>>
      /\ Final(l, ru) = h /\ Final(l, rv) = q /\ First(ru, l) = p
  BY <1>1, SplitBackwards, SplitEnds
<1>9. Rings(pv2, [d EXCEPT ![l] = rv, ![k] = ru])
  <2> HIDE DEF ru, rv, d, h, q, p
  <2> QED
    BY <1>1, <1>6, <1>8, CutTailRing
<1>10. Backwards(c2) = [d EXCEPT ![l] = rv, ![k] = ru]
  <2>1. c \in [Lists -> Seq(Links)]
    BY <1>1 DEF Proper
  <2> QED
    BY <2>1 DEF Backwards
<1> HIDE DEF c2, d
<1>11. Shape(c2, nx2, pv2, la, ty)
  BY <1>1, <1>4, <1>5, <1>6, <1>7, <1>9, <1>10 DEF Shape
<1> QED
  BY <1>2, <1>11 DEF c2, nx2, pv2

LEMMA EmptyShape ==
    ASSUME NEW c, NEW nx, NEW pv, NEW la, NEW ty, Shape(c, nx, pv, la, ty),
           NEW l \in Lists
    PROVE  /\ ty # "SC" => Shape([c EXCEPT ![l] = <<>>], [nx EXCEPT ![l] = l],
                                 [pv EXCEPT ![l] = l], la, ty)
           /\ ty = "SC" => Shape([c EXCEPT ![l] = <<>>], [nx EXCEPT ![l] = l],
                                 pv, [la EXCEPT ![l] = l], ty)
<1> DEFINE c2 == [c EXCEPT ![l] = <<>>]
           d == Backwards(c)
           nx2 == [nx EXCEPT ![l] = l]
           pv2 == [pv EXCEPT ![l] = l]
           la2 == [la EXCEPT ![l] = l]
<1>1. /\ Proper(c) /\ Rings(nx, c)
      /\ nx \in [Nodes -> Nodes] /\ pv \in [Nodes -> Nodes] /\ la \in [Lists -> Nodes]
  BY DEF Shape
<1>2. Proper(c2)
  <2>1. \A m \in Lists : m # l => Elements(<<>>) \cap Elements(c[m]) = {}
    BY NoLink
  <2> QED
    BY <1>1, <2>1, NoLink, ProperOne
<1>3. Rings(nx2, c2)
  BY <1>1, EmptyRing
<1>4. l \in Nodes
  BY LinksAndLists
<1>5. nx2 \in [Nodes -> Nodes] /\ pv2 \in [Nodes -> Nodes] /\ la2 \in [Lists -> Nodes]
  BY <1>1, <1>4
<1>6. ASSUME ty # "SC" PROVE Rings(pv2, Backwards(c2))
  <2>1. Rings(pv, d) /\ Proper(d)
    BY <1>1, <1>6, ReverseProper DEF Shape
  <2>2. Rings(pv2, [d EXCEPT ![l] = <<>>])
    BY <1>1, <2>1, EmptyRing
  <2>3. Backwards(c2) = [d EXCEPT ![l] = Reversed(<<>>)]
    BY <1>1, BackwardsOne, Zenon
  <2> QED
    BY <2>2, <2>3, NoLink
<1>7. ASSUME ty = "SC", NEW m \in Lists PROVE la2[m] = Final(m, c2[m])
  <2>1. c \in [Lists -> Seq(Links)] /\ la[m] = Final(m, c[m])
    BY <1>1, <1>7 DEF Shape, Proper
  <2>2. Final(m, <<>>) = m
    BY NoLink
  <2> QED
    BY <1>1, <2>1, <2>2
<1> HIDE DEF c2, nx2, pv2, la2
<1>8. ty # "SC" => Shape(c2, nx2, pv2, la, ty)
  BY <1>1, <1>2, <1>3, <1>5, <1>6 DEF Shape
<1>9. ty = "SC" => Shape(c2, nx2, pv, la2, ty)
  BY <1>1, <1>2, <1>3, <1>5, <1>7 DEF Shape
<1> QED
  BY <1>8, <1>9 DEF c2, nx2, pv2, la2

LEMMA ConcatenateProper ==
    ASSUME NEW c, Proper(c), NEW l \in Lists, NEW k \in Lists, k # l
    PROVE  /\ Proper([c EXCEPT ![l] = Join(c[l], c[k]), ![k] = <<>>])
           /\ Proper([c EXCEPT ![l] = Join(c[k], c[l]), ![k] = <<>>])
           /\ Len(Join(c[l], c[k])) = Len(c[l]) + Len(c[k])
           /\ Len(Join(c[k], c[l])) = Len(c[l]) + Len(c[k])
<1> DEFINE u == c[l]
           v == c[k]
<1>1. /\ u \in Seq(Links) /\ v \in Seq(Links) /\ Simple(u) /\ Simple(v)
      /\ Elements(u) \cap Elements(v) = {}
      /\ \A m \in Lists \ {l, k} :
            (Elements(u) \cup Elements(v)) \cap Elements(c[m]) = {}
  BY DEF Proper
<1> HIDE DEF u, v
<1>2. /\ Join(u, v) \in Seq(Links) /\ Elements(Join(u, v)) = Elements(u) \cup Elements(v)
      /\ Len(Join(u, v)) = Len(u) + Len(v) /\ Simple(Join(u, v))
  BY <1>1, JoinElements, JoinSimple, Zenon
<1>3. /\ Join(v, u) \in Seq(Links) /\ Elements(Join(v, u)) = Elements(u) \cup Elements(v)
      /\ Len(Join(v, u)) = Len(u) + Len(v) /\ Simple(Join(v, u))
  <2>1. /\ Join(v, u) \in Seq(Links) /\ Elements(Join(v, u)) = Elements(v) \cup Elements(u)
        /\ Len(Join(v, u)) = Len(v) + Len(u)
    BY <1>1, JoinElements, Zenon
  <2>2. Len(u) \in Nat /\ Len(v) \in Nat
    BY <1>1, ElementsOf
  <2>3. Elements(v) \cap Elements(u) = {}
    BY <1>1
  <2>4. Simple(Join(v, u))
    BY <1>1, <2>3, JoinSimple, Zenon
  <2> QED
    BY <2>1, <2>2, <2>4
<1>4. /\ <<>> \in Seq(Links) /\ Simple(<<>>) /\ Elements(<<>>) = {}
  BY NoLink
<1>5. /\ Proper([c EXCEPT ![l] = Join(u, v), ![k] = <<>>])
      /\ Proper([c EXCEPT ![l] = Join(v, u), ![k] = <<>>])
  BY <1>1, <1>2, <1>3, <1>4, ProperTwo
<1> QED
  BY <1>2, <1>3, <1>5 DEF u, v

LEMMA ConcatenateNodes ==
    ASSUME NEW c, NEW nx, NEW pv, NEW la, NEW ty, Shape(c, nx, pv, la, ty),
           NEW l \in Lists, NEW k \in Lists, k # l, c[k] # <<>>
    PROVE  /\ Final(k, c[k]) \in Elements(c[k]) /\ First(c[k], k) \in Elements(c[k])
           /\ {Final(k, c[k]), First(c[k], k), Final(l, c[l]), First(c[l], l), l, k}
                \subseteq Nodes
           /\ Final(k, c[k]) \notin {k, l, Final(l, c[l])}
           /\ First(c[k], k) \notin {k, l, First(c[l], l)}
           /\ k \notin {l, Final(l, c[l]), First(c[l], l)}
<1>1. /\ Proper(c) /\ c[l] \in Seq(Links) /\ c[k] \in Seq(Links)
  BY Apart DEF Shape
<1>2. Final(k, c[k]) \in Elements(c[k]) /\ First(c[k], k) \in Elements(c[k])
  BY <1>1, ElementsOf DEF First, Final
<1>3. /\ Final(l, c[l]) \in RingNodes(l, c[l]) /\ First(c[l], l) \in RingNodes(l, c[l])
      /\ l \in RingNodes(l, c[l])
  BY <1>1, ElementsOf DEF First, Final, RingNodes
<1>4. /\ RingNodes(l, c[l]) \subseteq Nodes /\ RingNodes(k, c[k]) \subseteq Nodes
      /\ RingNodes(l, c[l]) \cap RingNodes(k, c[k]) = {}
  BY <1>1, Apart
<1>5. k \notin Elements(c[k])
  BY <1>1, ElementsOf, LinksAndLists
<1> QED
  BY <1>2, <1>3, <1>4, <1>5 DEF RingNodes

LEMMA ConcatenateBackwards ==
    ASSUME NEW c, Proper(c), NEW l \in Lists, NEW k \in Lists, k # l
    PROVE  LET d == Backwards(c)
           IN  /\ Proper(d) /\ (d[k] = <<>> <=> c[k] = <<>>)
               /\ Final(k, d[k]) = First(c[k], k) /\ First(d[k], k) = Final(k, c[k])
               /\ Final(l, d[l]) = First(c[l], l) /\ First(d[l], l) = Final(l, c[l])
<1> DEFINE d == Backwards(c)
<1>1. c \in [Lists -> Seq(Links)] /\ \A m \in Lists : Simple(c[m])
  BY DEF Proper
<1>2. \A m \in Lists : d[m] = Reversed(c[m])
  BY DEF Backwards
<1>3. /\ d[k] = <<>> <=> c[k] = <<>>
      /\ Final(k, d[k]) = First(c[k], k) /\ First(d[k], k) = Final(k, c[k])
      /\ Final(l, d[l]) = First(c[l], l) /\ First(d[l], l) = Final(l, c[l])
  BY <1>1, <1>2, Reverse
<1>4. Proper(d)
  BY ReverseProper
<1> QED
  BY <1>3, <1>4

LEMMA ConcatenateReversed ==
    ASSUME NEW c, Proper(c), NEW l \in Lists, NEW k \in Lists, k # l
    PROVE  LET d == Backwards(c)
           IN  /\ Reversed(Join(c[l], c[k])) = Join(d[k], d[l])
               /\ Reversed(Join(c[k], c[l])) = Join(d[l], d[k])
               /\ Reversed(<<>>) = <<>>
               /\ c \in [Lists -> Seq(Links)]
<1>1. c \in [Lists -> Seq(Links)]
  BY DEF Proper
<1>2. \A m \in Lists : Backwards(c)[m] = Reversed(c[m])
  BY DEF Backwards
<1> QED
  BY <1>1, <1>2, ReverseJoin, NoLink

LEMMA ConcatenatePushShape ==
    ASSUME NEW c, NEW nx, NEW pv, NEW la, NEW ty, Shape(c, nx, pv, la, ty),
           ty # "SC", NEW l \in Lists, NEW k \in Lists, k # l, c[k] # <<>>
    PROVE  Shape([c EXCEPT ![l] = Join(c[l], c[k]), ![k] = <<>>],
                 [nx EXCEPT ![pv[k]] = l, ![pv[l]] = nx[k], ![k] = k],
                 [pv EXCEPT ![nx[k]] = pv[l], ![l] = pv[k], ![k] = k], la, ty)
<1> DEFINE z == Final(k, c[k])
           h == First(c[k], k)
           p == Final(l, c[l])
           c2 == [c EXCEPT ![l] = Join(c[l], c[k]), ![k] = <<>>]
           nx2 == [nx EXCEPT ![z] = l, ![p] = h, ![k] = k]
           pv2 == [pv EXCEPT ![h] = p, ![l] = z, ![k] = k]
           d == Backwards(c)
<1>1. /\ Proper(c) /\ Rings(nx, c) /\ Rings(pv, d)
      /\ nx \in [Nodes -> Nodes] /\ pv \in [Nodes -> Nodes] /\ la \in [Lists -> Nodes]
  BY DEF Shape
<1>2. nx[k] = h /\ pv[k] = z /\ pv[l] = p
  BY Ends
<1>3. /\ k \in Nodes /\ l \in Nodes /\ p \in Nodes /\ h \in Nodes /\ z \in Nodes
      /\ z # k /\ z # l /\ z # p /\ h # k /\ h # l /\ k # p
  BY ConcatenateNodes
<1>4. Proper(c2)
  BY <1>1, ConcatenateProper
<1>5. /\ nx2 \in [Nodes -> Nodes] /\ nx2[z] = l /\ nx2[p] = h /\ nx2[k] = k
      /\ \A y \in Nodes \ {k, z, p} : nx2[y] = nx[y]
  BY <1>1, <1>3
<1>6. /\ pv2 \in [Nodes -> Nodes] /\ pv2[h] = p /\ pv2[l] = z /\ pv2[k] = k
      /\ \A y \in Nodes \ {k, h, l} : pv2[y] = pv[y]
  BY <1>1, <1>3
<1> HIDE DEF nx2, pv2
<1>7. Rings(nx2, c2)
  BY <1>1, <1>5, AppendRing
<1>8. /\ Proper(d) /\ d[k] # <<>>
      /\ Final(k, d[k]) = h /\ First(d[k], k) = z /\ First(d[l], l) = p
      /\ Backwards(c2) = [d EXCEPT ![l] = Join(d[k], d[l]), ![k] = <<>>]
  <2>1. Backwards(c2) = [d EXCEPT ![l] = Join(d[k], d[l]), ![k] = <<>>]
    <3>1. /\ Reversed(Join(c[l], c[k])) = Join(d[k], d[l])
          /\ Reversed(Join(c[k], c[l])) = Join(d[l], d[k])
          /\ Reversed(<<>>) = <<>>
          /\ c \in [Lists -> Seq(Links)]
      BY <1>1, ConcatenateReversed
    <3> QED
      BY <3>1 DEF Backwards
  <2> QED
    <3>1. /\ Proper(d) /\ (d[k] = <<>> <=> c[k] = <<>>)
          /\ Final(k, d[k]) = First(c[k], k) /\ First(d[k], k) = Final(k, c[k])
          /\ Final(l, d[l]) = First(c[l], l) /\ First(d[l], l) = Final(l, c[l])
      BY <1>1, ConcatenateBackwards, Zenon
    <3> QED
      BY <2>1, <3>1, Zenon
<1>9. Rings(pv2, [d EXCEPT ![l] = Join(d[k], d[l]), ![k] = <<>>])
  <2> HIDE DEF d, z, h, p
  <2> QED
    BY <1>1, <1>6, <1>8, PrependRing
<1> HIDE DEF c2, d
<1>10. Shape(c2, nx2, pv2, la, ty)
  BY <1>1, <1>4, <1>5, <1>6, <1>7, <1>8, <1>9 DEF Shape
<1> QED
  BY <1>2, <1>10 DEF c2, nx2, pv2

LEMMA ConcatenateUnshiftShape ==
    ASSUME NEW c, NEW nx, NEW pv, NEW la, NEW ty, Shape(c, nx, pv, la, ty),
           ty # "SC", NEW l \in Lists, NEW k \in Lists, k # l, c[k] # <<>>
    PROVE  Shape([c EXCEPT ![l] = Join(c[k], c[l]), ![k] = <<>>],
                 [nx EXCEPT ![pv[k]] = nx[l], ![l] = nx[k], ![k] = k],
                 [pv EXCEPT ![nx[k]] = l, ![nx[l]] = pv[k], ![k] = k], la, ty)
<1> DEFINE z == Final(k, c[k])
           h == First(c[k], k)
           q == First(c[l], l)
           c2 == [c EXCEPT ![l] = Join(c[k], c[l]), ![k] = <<>>]
           nx2 == [nx EXCEPT ![z] = q, ![l] = h, ![k] = k]
           pv2 == [pv EXCEPT ![h] = l, ![q] = z, ![k] = k]
           d == Backwards(c)
<1>1. /\ Proper(c) /\ Rings(nx, c) /\ Rings(pv, d)
      /\ nx \in [Nodes -> Nodes] /\ pv \in [Nodes -> Nodes] /\ la \in [Lists -> Nodes]
  BY DEF Shape
<1>2. nx[k] = h /\ pv[k] = z /\ nx[l] = q
  BY Ends
<1>3. /\ k \in Nodes /\ l \in Nodes /\ q \in Nodes /\ h \in Nodes /\ z \in Nodes
      /\ z # k /\ z # l /\ h # q /\ h # k /\ k # l /\ k # q
  BY ConcatenateNodes
<1>4. Proper(c2)
  BY <1>1, ConcatenateProper
<1>5. /\ nx2 \in [Nodes -> Nodes] /\ nx2[z] = q /\ nx2[l] = h /\ nx2[k] = k
      /\ \A y \in Nodes \ {k, z, l} : nx2[y] = nx[y]
  BY <1>1, <1>3
<1>6. /\ pv2 \in [Nodes -> Nodes] /\ pv2[h] = l /\ pv2[q] = z /\ pv2[k] = k
      /\ \A y \in Nodes \ {k, h, q} : pv2[y] = pv[y]
  BY <1>1, <1>3
<1> HIDE DEF nx2, pv2
<1>7. Rings(nx2, c2)
  BY <1>1, <1>5, PrependRing
<1>8. /\ Proper(d) /\ d[k] # <<>>
      /\ Final(k, d[k]) = h /\ First(d[k], k) = z /\ Final(l, d[l]) = q
      /\ Backwards(c2) = [d EXCEPT ![l] = Join(d[l], d[k]), ![k] = <<>>]
  <2>1. Backwards(c2) = [d EXCEPT ![l] = Join(d[l], d[k]), ![k] = <<>>]
    <3>1. /\ Reversed(Join(c[l], c[k])) = Join(d[k], d[l])
          /\ Reversed(Join(c[k], c[l])) = Join(d[l], d[k])
          /\ Reversed(<<>>) = <<>>
          /\ c \in [Lists -> Seq(Links)]
      BY <1>1, ConcatenateReversed
    <3> QED
      BY <3>1 DEF Backwards
  <2> QED
    <3>1. /\ Proper(d) /\ (d[k] = <<>> <=> c[k] = <<>>)
          /\ Final(k, d[k]) = First(c[k], k) /\ First(d[k], k) = Final(k, c[k])
          /\ Final(l, d[l]) = First(c[l], l) /\ First(d[l], l) = Final(l, c[l])
      BY <1>1, ConcatenateBackwards, Zenon
    <3> QED
      BY <2>1, <3>1, Zenon
<1>9. Rings(pv2, [d EXCEPT ![l] = Join(d[l], d[k]), ![k] = <<>>])
  <2> HIDE DEF d, z, h, q
  <2>1. /\ pv2[Final(k, d[k])] = l /\ pv2[Final(l, d[l])] = First(d[k], k) /\ pv2[k] = k
        /\ \A y \in Nodes \ {k, Final(k, d[k]), Final(l, d[l])} : pv2[y] = pv[y]
    BY <1>6, <1>8, Zenon
  <2>2. pv2 \in [Nodes -> Nodes]
    BY <1>6
  <2> QED
    BY <1>1, <1>8, <2>1, <2>2, AppendRing
<1> HIDE DEF c2, d
<1>10. Shape(c2, nx2, pv2, la, ty)
  BY <1>1, <1>4, <1>5, <1>6, <1>7, <1>8, <1>9 DEF Shape
<1> QED
  BY <1>2, <1>10 DEF c2, nx2, pv2

(* The pointers that linking the elements of a vector sets.                *)
VectorNext(nx, l, s) ==
    [x \in Nodes |-> CASE x \in Elements(s) -> Successor(l, s, Position(s, x))
                       [] x = l -> Successor(l, s, 0)
                       [] OTHER -> nx[x]]
VectorPrev(pv, l, s) ==
    [x \in Nodes |-> CASE x \in Elements(s) -> Predecessor(l, s, Position(s, x))
                       [] x = l -> Predecessor(l, s, Len(s) + 1)
                       [] OTHER -> pv[x]]

LEMMA VectorPaths ==
    ASSUME NEW f \in [Nodes -> Nodes], NEW l \in Lists,
           NEW s \in Seq(Links), Simple(s)
    PROVE  /\ VectorNext(f, l, s) \in [Nodes -> Nodes]
           /\ VectorPrev(f, l, s) \in [Nodes -> Nodes]
           /\ Path(VectorNext(f, l, s), l, s, l)
           /\ Path(VectorPrev(f, l, s), l, Reversed(s), l)
           /\ \A y \in Nodes \ RingNodes(l, s) : /\ VectorNext(f, l, s)[y] = f[y]
                                                 /\ VectorPrev(f, l, s)[y] = f[y]
<1> DEFINE N == VectorNext(f, l, s)
           P == VectorPrev(f, l, s)
           r == Reversed(s)
<1>1. /\ Elements(s) \subseteq Links /\ Len(s) \in Nat
      /\ \A i \in 1..Len(s) : s[i] \in Elements(s) /\ s[i] \in Links
      /\ (s = <<>>) <=> (Len(s) = 0)
  BY ElementsOf
<1>2. l \in Nodes /\ Links \subseteq Nodes /\ l \notin Links
  BY LinksAndLists
<1>3. ASSUME NEW i \in 1..Len(s) PROVE Position(s, s[i]) = i
  BY DEF Position, Simple
<1>4. ASSUME NEW y \in Elements(s) PROVE Position(s, y) \in 1..Len(s)
  <2>1. \E i \in 1..Len(s) : s[i] = y
    BY ElementsOf
  <2> QED
    BY <2>1 DEF Position
<1>5. /\ Successor(l, s, 0) \in Nodes
      /\ \A i \in 1..Len(s) : Successor(l, s, i) \in Nodes
  BY <1>1, <1>2 DEF Successor
<1>6. /\ Predecessor(l, s, Len(s) + 1) \in Nodes
      /\ \A i \in 1..Len(s) : Predecessor(l, s, i) \in Nodes
  BY <1>1, <1>2 DEF Predecessor
<1>7. N \in [Nodes -> Nodes] /\ P \in [Nodes -> Nodes]
  BY <1>4, <1>5, <1>6 DEF VectorNext, VectorPrev
<1>8. \A y \in Nodes \ RingNodes(l, s) : N[y] = f[y] /\ P[y] = f[y]
  BY DEF VectorNext, VectorPrev, RingNodes
<1>9. /\ N[l] = Successor(l, s, 0) /\ P[l] = Predecessor(l, s, Len(s) + 1)
      /\ \A i \in 1..Len(s) : /\ N[s[i]] = Successor(l, s, i)
                              /\ P[s[i]] = Predecessor(l, s, i)
  BY <1>1, <1>2, <1>3 DEF VectorNext, VectorPrev
<1> HIDE DEF N, P
<1>10. Path(N, l, s, l)
  <2>1. N[l] = First(s, l)
    BY <1>1, <1>9 DEF Successor, First
  <2> QED
    BY <2>1, <1>9 DEF Path, Successor
<1>11. Path(P, l, r, l)
  <2>1. /\ Len(r) = Len(s) /\ First(r, l) = Final(l, s)
    BY Reverse
  <2>2. \A i \in 1..Len(s) : r[i] = s[Len(s) + 1 - i] /\ Len(s) + 1 - i \in 1..Len(s)
    BY <1>1 DEF Reversed
  <2> HIDE DEF r
  <2>3. P[l] = First(r, l)
    BY <1>1, <1>9, <2>1 DEF Predecessor, Final
  <2>4. ASSUME NEW i \in 1..Len(s)
        PROVE  P[r[i]] = IF i = Len(s) THEN l ELSE r[i + 1]
    <3>1. P[r[i]] = Predecessor(l, s, Len(s) + 1 - i)
      BY <1>9, <2>2
    <3>2. CASE i = Len(s)
      BY <1>1, <3>1, <3>2 DEF Predecessor
    <3>3. CASE i # Len(s)
      <4>1. /\ i + 1 \in 1..Len(s) /\ Len(s) + 1 - i # 1
            /\ (Len(s) + 1 - i) - 1 = Len(s) + 1 - (i + 1)
        BY <1>1, <3>3
      <4>2. r[i + 1] = s[(Len(s) + 1 - i) - 1]
        BY <2>2, <4>1
      <4> QED
        BY <3>1, <3>3, <4>1, <4>2 DEF Predecessor
    <3> QED
      BY <3>2, <3>3
  <2> QED
    BY <2>1, <2>3, <2>4 DEF Path
<1> QED
  BY <1>7, <1>8, <1>10, <1>11 DEF N, P

LEMMA VectorShape ==
    ASSUME NEW c, NEW nx, NEW pv, NEW la, NEW ty, Shape(c, nx, pv, la, ty),
           NEW l \in Lists, NEW s \in Seq(Links), Simple(s),
           \A m \in Lists : Elements(s) \cap Elements(c[m]) = {}
    PROVE  /\ ty # "SC" => Shape([c EXCEPT ![l] = s], VectorNext(nx, l, s),
                                 VectorPrev(pv, l, s), la, ty)
           /\ ty = "SC" => Shape([c EXCEPT ![l] = s], VectorNext(nx, l, s), pv,
                                 [la EXCEPT ![l] = Predecessor(l, s, Len(s) + 1)], ty)
<1> DEFINE c2 == [c EXCEPT ![l] = s]
           d == Backwards(c)
           nx2 == VectorNext(nx, l, s)
           pv2 == VectorPrev(pv, l, s)
           la2 == [la EXCEPT ![l] = Predecessor(l, s, Len(s) + 1)]
<1>1. /\ Proper(c) /\ Rings(nx, c) /\ c \in [Lists -> Seq(Links)]
      /\ nx \in [Nodes -> Nodes] /\ pv \in [Nodes -> Nodes] /\ la \in [Lists -> Nodes]
  BY DEF Shape, Proper
<1>2. Proper(c2)
  BY <1>1, ProperOne
<1>3. /\ nx2 \in [Nodes -> Nodes] /\ pv2 \in [Nodes -> Nodes]
      /\ Path(nx2, l, s, l) /\ Path(pv2, l, Reversed(s), l)
      /\ \A y \in Nodes \ RingNodes(l, s) : nx2[y] = nx[y] /\ pv2[y] = pv[y]
  BY <1>1, VectorPaths, SMTT(30)
<1> HIDE DEF nx2, pv2
<1>4. Rings(nx2, c2)
  BY <1>1, <1>3, FreshRing
<1>5. ASSUME ty # "SC" PROVE Rings(pv2, Backwards(c2))
  <2> DEFINE r == Reversed(s)
  <2>1. Rings(pv, d) /\ Proper(d)
    BY <1>1, <1>5, ReverseProper DEF Shape
  <2>2. r \in Seq(Links) /\ Elements(r) = Elements(s)
    BY Reverse
  <2>3. ASSUME NEW m \in Lists PROVE Elements(r) \cap Elements(d[m]) = {}
    <3>1. d[m] = Reversed(c[m]) /\ c[m] \in Seq(Links) /\ Simple(c[m])
      BY <1>1 DEF Backwards, Proper
    <3>2. Elements(d[m]) = Elements(c[m])
      BY <3>1, Reverse
    <3> QED
      BY <2>2, <3>2
  <2>4. RingNodes(l, r) = RingNodes(l, s)
    BY <2>2 DEF RingNodes
  <2>5. Rings(pv2, [d EXCEPT ![l] = r])
    <3> HIDE DEF r, d
    <3> QED
      BY <1>3, <2>1, <2>2, <2>3, <2>4, FreshRing DEF r
  <2>6. Backwards(c2) = [d EXCEPT ![l] = r]
    BY <1>1, BackwardsOne, Zenon
  <2> QED
    BY <2>5, <2>6
<1>6. Predecessor(l, s, Len(s) + 1) = Final(l, s) /\ Final(l, s) \in Nodes
  <2>1. Len(s) \in Nat /\ ((s = <<>>) <=> (Len(s) = 0)) /\ (s # <<>> => s[Len(s)] \in Links)
    BY ElementsOf
  <2> QED
    BY <2>1, LinksAndLists DEF Predecessor, Final
<1>7. ASSUME ty = "SC", NEW m \in Lists PROVE la2[m] = Final(m, c2[m])
  <2>1. la[m] = Final(m, c[m])
    BY <1>7 DEF Shape
  <2> QED
    BY <1>1, <1>6, <2>1
<1>8. la2 \in [Lists -> Nodes]
  BY <1>1, <1>6
<1> HIDE DEF c2, la2
<1>9. ty # "SC" => Shape(c2, nx2, pv2, la, ty)
  BY <1>1, <1>2, <1>3, <1>4, <1>5 DEF Shape
<1>10. ty = "SC" => Shape(c2, nx2, pv, la2, ty)
  BY <1>1, <1>2, <1>3, <1>4, <1>7, <1>8 DEF Shape
<1> QED
  BY <1>9, <1>10 DEF c2, nx2, pv2, la2

-----------------------------------------------------------------------------
(* Operations on single linked lists: one direction and the tail pointer.  *)

LEMMA ShiftShape ==
    ASSUME NEW c, NEW nx, NEW pv, NEW la, NEW ty, Shape(c, nx, pv, la, ty),
           ty = "SC", NEW l \in Lists, NEW x, NEW v, SplitBy(c, l, <<>>, x, v)
    PROVE  Shape([c EXCEPT ![l] = v], [nx EXCEPT ![l] = nx[nx[l]]], pv,
                 [la EXCEPT ![l] = IF nx[nx[l]] = l THEN l ELSE la[l]], ty)
<1> DEFINE w == Join(<<>>, One(x))
           c2 == [c EXCEPT ![l] = v]
           nx2 == [nx EXCEPT ![l] = nx[nx[l]]]
           la2 == [la EXCEPT ![l] = IF nx[nx[l]] = l THEN l ELSE la[l]]
<1>0. /\ x \in Links /\ v \in Seq(Links)
      /\ c[l] = Join(Join(<<>>, One(x)), v)
      /\ Join(<<>>, v) = v
  BY JoinNothing DEF SplitBy
<1>1. /\ Proper(c) /\ Rings(nx, c) /\ c \in [Lists -> Seq(Links)]
      /\ nx \in [Nodes -> Nodes] /\ pv \in [Nodes -> Nodes] /\ la \in [Lists -> Nodes]
      /\ \A m \in Lists : la[m] = Final(m, c[m])
  BY DEF Shape, Proper
<1>2. /\ Split(c, l, w, v) /\ Final(l, w) = x
      /\ Split(c, l, <<>>, Join(One(x), v)) /\ First(Join(One(x), v), l) = x
      /\ Proper([c EXCEPT ![l] = Join(<<>>, v)])
  <2>1. PICK u : u = <<>>
    OBVIOUS
  <2>2. /\ Split(c, l, Join(u, One(x)), v) /\ Final(l, Join(u, One(x))) = x
        /\ Split(c, l, u, Join(One(x), v)) /\ First(Join(One(x), v), l) = x
        /\ Proper([c EXCEPT ![l] = Join(u, v)])
    <3>1. SplitBy(c, l, u, x, v) /\ Proper(c)
      BY <1>1, <2>1
    <3> QED
      BY <3>1, RemoveProper
  <2> QED
    BY <2>1, <2>2
<1>3. nx[x] = First(v, l) /\ First(v, l) \in Nodes /\ x \in Nodes
  <2>1. nx[Final(l, w)] = First(v, l) /\ First(v, l) \in Nodes
    BY <1>2, Seam
  <2> QED
    BY <1>0, <1>2, <2>1, LinksAndLists
<1>4. nx[l] = x
  <2>1. nx[Final(l, <<>>)] = First(Join(One(x), v), l)
    BY <1>2, Seam
  <2> QED
    BY <1>2, <2>1, NoLink
<1>5. Rings([nx EXCEPT ![Final(l, <<>>)] = nx[x]], [c EXCEPT ![l] = Join(<<>>, v)])
  BY <1>1, RemoveRing
<1>6. Rings(nx2, c2) /\ Proper(c2)
  BY <1>0, <1>2, <1>4, <1>5, NoLink
<1>7. Final(l, c[l]) = Final(x, v)
  <2>1. w \in Seq(Links)
    BY <1>2 DEF Split
  <2> QED
    BY <1>0, <1>2, <2>1, FinalJoin
<1>8. v # <<>> => First(v, l) # l /\ Final(x, v) = Final(l, v)
  BY <1>0, ElementsOf, LinksAndLists DEF First, Final
<1>9. v = <<>> => First(v, l) = l /\ Final(l, v) = l
  BY DEF First, Final
<1>10. la2[l] = Final(l, v)
  BY <1>1, <1>3, <1>4, <1>7, <1>8, <1>9
<1>11. \A m \in Lists : la2[m] = Final(m, c2[m])
  BY <1>1, <1>10
<1>12. l \in Nodes
  BY LinksAndLists
<1>13. nx2 \in [Nodes -> Nodes] /\ la2 \in [Lists -> Nodes]
  BY <1>1, <1>3, <1>4, <1>12
<1> HIDE DEF c2, nx2, la2
<1>14. Shape(c2, nx2, pv, la2, ty)
  BY <1>1, <1>6, <1>11, <1>13 DEF Shape
<1> QED
  BY <1>14 DEF c2, nx2, la2

LEMMA PushShape ==
    ASSUME NEW c, NEW nx, NEW pv, NEW la, NEW ty, Shape(c, nx, pv, la, ty),
           ty = "SC", NEW l \in Lists, NEW x \in Links, Unlinked(x, c)
    PROVE  Shape([c EXCEPT ![l] = Join(Join(c[l], One(x)), <<>>)],
                 [nx EXCEPT ![x] = l, ![la[l]] = x], pv, [la EXCEPT ![l] = x], ty)
<1> DEFINE s == Join(Join(c[l], One(x)), <<>>)
           p == Final(l, c[l])
           c2 == [c EXCEPT ![l] = s]
           nx2 == [nx EXCEPT ![x] = nx[p], ![p] = x]
           la2 == [la EXCEPT ![l] = x]
<1>1. /\ Proper(c) /\ Rings(nx, c) /\ c \in [Lists -> Seq(Links)]
      /\ nx \in [Nodes -> Nodes] /\ pv \in [Nodes -> Nodes] /\ la \in [Lists -> Nodes]
      /\ \A m \in Lists : la[m] = Final(m, c[m])
  BY DEF Shape, Proper
<1>2. Split(c, l, c[l], <<>>)
  BY <1>1, JoinNothing, NoLink DEF Split
<1>3. nx[p] = l /\ p \in Nodes /\ x \in Nodes
  BY Ends, LinksAndLists
<1>4. Proper(c2)
  BY <1>1, <1>2, InsertProper
<1>5. Rings(nx2, c2)
  BY <1>1, <1>2, InsertRing DEF Unlinked
<1>6. Final(l, s) = x
  <2>1. One(x) \in Seq(Links) /\ Join(c[l], One(x)) \in Seq(Links) /\ c[l] \in Seq(Links)
    BY <1>1, OneLink, JoinElements
  <2>2. s = Join(c[l], One(x))
    BY <2>1, JoinNothing
  <2>3. Final(l, Join(c[l], One(x))) = x
    BY <2>1, FinalJoin, OneLink
  <2> QED
    BY <2>2, <2>3
<1> HIDE DEF s
<1>7. \A m \in Lists : la2[m] = Final(m, c2[m])
  BY <1>1, <1>6
<1>8. nx2 \in [Nodes -> Nodes] /\ la2 \in [Lists -> Nodes]
  BY <1>1, <1>3
<1> HIDE DEF c2, nx2, la2
<1>9. Shape(c2, nx2, pv, la2, ty)
  BY <1>1, <1>4, <1>5, <1>7, <1>8 DEF Shape
<1> QED
  BY <1>1, <1>3, <1>9 DEF c2, nx2, la2, s

LEMMA UnshiftShape ==
    ASSUME NEW c, NEW nx, NEW pv, NEW la, NEW ty, Shape(c, nx, pv, la, ty),
           ty = "SC", NEW l \in Lists, NEW x \in Links, Unlinked(x, c)
    PROVE  Shape([c EXCEPT ![l] = Join(Join(<<>>, One(x)), c[l])],
                 [nx EXCEPT ![x] = nx[l], ![l] = x], pv,
                 [la EXCEPT ![l] = IF nx[l] = l THEN x ELSE la[l]], ty)
<1> DEFINE s == Join(Join(<<>>, One(x)), c[l])
           c2 == [c EXCEPT ![l] = s]
           nx2 == [nx EXCEPT ![x] = nx[l], ![l] = x]
           la2 == [la EXCEPT ![l] = IF nx[l] = l THEN x ELSE la[l]]
<1>1. /\ Proper(c) /\ Rings(nx, c) /\ c \in [Lists -> Seq(Links)]
      /\ nx \in [Nodes -> Nodes] /\ pv \in [Nodes -> Nodes] /\ la \in [Lists -> Nodes]
      /\ \A m \in Lists : la[m] = Final(m, c[m])
  BY DEF Shape, Proper
<1>2. Split(c, l, <<>>, c[l]) /\ Final(l, <<>>) = l
  BY <1>1, JoinNothing, NoLink DEF Split
<1>3. nx[l] = First(c[l], l) /\ nx[l] \in Nodes /\ l \in Nodes /\ x \in Nodes
  BY Ends, LinksAndLists
<1>4. Proper(c2)
  BY <1>1, <1>2, InsertProper
<1>5. Rings(nx2, c2)
  <2>1. Rings([nx EXCEPT ![x] = nx[Final(l, <<>>)], ![Final(l, <<>>)] = x], c2)
    BY <1>1, <1>2, InsertRing DEF Unlinked
  <2> QED
    BY <1>2, <2>1
<1>6. Final(l, s) = Final(x, c[l])
  <2>1. One(x) \in Seq(Links) /\ Join(<<>>, One(x)) = One(x) /\ c[l] \in Seq(Links)
    BY <1>1, OneLink, JoinNothing
  <2>2. Final(l, Join(One(x), c[l])) = Final(Final(l, One(x)), c[l])
    BY <2>1, FinalJoin
  <2> QED
    BY <2>1, <2>2, OneLink
<1>7. c[l] # <<>> => First(c[l], l) # l /\ Final(x, c[l]) = Final(l, c[l])
  BY <1>1, ElementsOf, LinksAndLists DEF First, Final
<1>8. c[l] = <<>> => First(c[l], l) = l /\ Final(x, c[l]) = x
  BY DEF First, Final
<1> HIDE DEF s
<1>9. la2[l] = Final(l, s)
  BY <1>1, <1>3, <1>6, <1>7, <1>8
<1>10. \A m \in Lists : la2[m] = Final(m, c2[m])
  BY <1>1, <1>9
<1>11. nx2 \in [Nodes -> Nodes] /\ la2 \in [Lists -> Nodes]
  BY <1>1, <1>3
<1> HIDE DEF c2, nx2, la2
<1>12. Shape(c2, nx2, pv, la2, ty)
  BY <1>1, <1>4, <1>5, <1>10, <1>11 DEF Shape
<1> QED
  BY <1>12 DEF c2, nx2, la2, s

LEMMA ConcatenatePushShapeS ==
    ASSUME NEW c, NEW nx, NEW pv, NEW la, NEW ty, Shape(c, nx, pv, la, ty),
           ty = "SC", NEW l \in Lists, NEW k \in Lists, k # l, c[k] # <<>>
    PROVE  Shape([c EXCEPT ![l] = Join(c[l], c[k]), ![k] = <<>>],
                 [nx EXCEPT ![la[k]] = l, ![la[l]] = nx[k], ![k] = k], pv,
                 [la EXCEPT ![l] = la[k], ![k] = k], ty)
<1> DEFINE z == Final(k, c[k])
           h == First(c[k], k)
           p == Final(l, c[l])
           s == Join(c[l], c[k])
           c2 == [c EXCEPT ![l] = s, ![k] = <<>>]
           nx2 == [nx EXCEPT ![z] = l, ![p] = h, ![k] = k]
           la2 == [la EXCEPT ![l] = z, ![k] = k]
<1>1. /\ Proper(c) /\ Rings(nx, c) /\ c \in [Lists -> Seq(Links)]
      /\ nx \in [Nodes -> Nodes] /\ pv \in [Nodes -> Nodes] /\ la \in [Lists -> Nodes]
      /\ \A m \in Lists : la[m] = Final(m, c[m])
  BY DEF Shape, Proper
<1>2. nx[k] = h /\ la[k] = z /\ la[l] = p
  BY <1>1, Ends
<1>3. /\ k \in Nodes /\ l \in Nodes /\ p \in Nodes /\ h \in Nodes /\ z \in Nodes
      /\ z # k /\ z # l /\ z # p /\ k # p
  BY ConcatenateNodes
<1>4. Proper(c2)
  BY <1>1, ConcatenateProper
<1>5. /\ nx2 \in [Nodes -> Nodes] /\ nx2[z] = l /\ nx2[p] = h /\ nx2[k] = k
      /\ \A y \in Nodes \ {k, z, p} : nx2[y] = nx[y]
  BY <1>1, <1>3
<1> HIDE DEF nx2
<1>6. Rings(nx2, c2)
  BY <1>1, <1>5, AppendRing
<1>7. Final(l, s) = z
  <2>1. Final(l, s) = Final(Final(l, c[l]), c[k])
    BY <1>1, FinalJoin
  <2> QED
    BY <2>1 DEF Final
<1>8. Final(k, <<>>) = k
  BY NoLink
<1> HIDE DEF s, z
<1>9. \A m \in Lists : la2[m] = Final(m, c2[m])
  BY <1>1, <1>7, <1>8
<1>10. la2 \in [Lists -> Nodes]
  BY <1>1, <1>3
<1> HIDE DEF c2, la2
<1>11. Shape(c2, nx2, pv, la2, ty)
  BY <1>1, <1>4, <1>5, <1>6, <1>9, <1>10 DEF Shape
<1> QED
  BY <1>2, <1>11 DEF c2, nx2, la2, s

(* The destination must not be empty.                                      *)
LEMMA ConcatenateUnshiftShapeS ==
    ASSUME NEW c, NEW nx, NEW pv, NEW la, NEW ty, Shape(c, nx, pv, la, ty),
           ty = "SC", NEW l \in Lists, NEW k \in Lists, k # l, c[k] # <<>>,
           c[l] # <<>>
    PROVE  Shape([c EXCEPT ![l] = Join(c[k], c[l]), ![k] = <<>>],
                 [nx EXCEPT ![la[k]] = nx[l], ![l] = nx[k], ![k] = k], pv,
                 [la EXCEPT ![l] = IF nx[l] = l THEN nx[k] ELSE la[l], ![k] = k], ty)
<1> DEFINE z == Final(k, c[k])
           h == First(c[k], k)
           q == First(c[l], l)
           s == Join(c[k], c[l])
           c2 == [c EXCEPT ![l] = s, ![k] = <<>>]
           nx2 == [nx EXCEPT ![z] = q, ![l] = h, ![k] = k]
           la2 == [la EXCEPT ![l] = la[l], ![k] = k]
<1>1. /\ Proper(c) /\ Rings(nx, c) /\ c \in [Lists -> Seq(Links)]
      /\ nx \in [Nodes -> Nodes] /\ pv \in [Nodes -> Nodes] /\ la \in [Lists -> Nodes]
      /\ \A m \in Lists : la[m] = Final(m, c[m])
  BY DEF Shape, Proper
<1>2. nx[k] = h /\ la[k] = z /\ nx[l] = q
  BY <1>1, Ends
<1>3. /\ k \in Nodes /\ l \in Nodes /\ q \in Nodes /\ h \in Nodes /\ z \in Nodes
      /\ z # k /\ z # l /\ k # l /\ k # q
  BY ConcatenateNodes
<1>4. Proper(c2)
  BY <1>1, ConcatenateProper
<1>5. /\ nx2 \in [Nodes -> Nodes] /\ nx2[z] = q /\ nx2[l] = h /\ nx2[k] = k
      /\ \A y \in Nodes \ {k, z, l} : nx2[y] = nx[y]
  BY <1>1, <1>3
<1> HIDE DEF nx2
<1>6. Rings(nx2, c2)
  BY <1>1, <1>5, PrependRing
<1>7. Final(l, s) = Final(l, c[l])
  <2>1. Final(l, s) = Final(Final(l, c[k]), c[l])
    BY <1>1, FinalJoin
  <2> QED
    BY <2>1 DEF Final
<1>8. Final(k, <<>>) = k
  BY NoLink
<1>9. q # l
  BY <1>1, ElementsOf, LinksAndLists DEF First
<1> HIDE DEF s, z, q
<1>10. \A m \in Lists : la2[m] = Final(m, c2[m])
  BY <1>1, <1>7, <1>8
<1>11. la2 \in [Lists -> Nodes]
  BY <1>1, <1>3
<1> HIDE DEF c2, la2
<1>12. Shape(c2, nx2, pv, la2, ty)
  BY <1>1, <1>4, <1>5, <1>6, <1>10, <1>11 DEF Shape
<1>13. la2 = [la EXCEPT ![l] = IF nx[l] = l THEN nx[k] ELSE la[l], ![k] = k]
  BY <1>2, <1>9 DEF la2
<1> QED
  BY <1>2, <1>12, <1>13 DEF c2, nx2, s

-----------------------------------------------------------------------------
(* The invariant: the pointers make the lists' contents, the lengths are   *)
(* valid, and the loop in progress can finish.                             *)

LEMMA ContentIs ==
    ASSUME NEW c, NEW f, Proper(c), Rings(f, c)
    PROVE  [l \in Lists |-> Ring(f, l)] = c
<1>1. \A l \in Lists : Ring(f, l) = c[l]
  BY RingIsSequence DEF Proper, Rings
<1>2. c = [l \in Lists |-> c[l]]
  BY DEF Proper
<1> QED
  BY <1>1, <1>2

Shaped == Shape(Content, next, prev, last, type)

LEMMA Becomes ==
    ASSUME NEW c, Shape(c, next', prev', last', type')
    PROVE  Content' = c /\ Shaped'
<1>1. [l \in Lists |-> Ring(next', l)] = c
  BY ContentIs DEF Shape
<1>2. Content' = c
  BY <1>1 DEF Content
<1> QED
  BY <1>2 DEF Shaped

LEMMA Wraps ==
    ASSUME NEW n \in Nat, NEW k \in Nat, n < SizeMod
    PROVE  /\ n % SizeMod = n
           /\ k <= n => (n + SizeMod - k) % SizeMod = n - k
<1> USE LinksAndLists
<1>1. n % SizeMod = n
  OBVIOUS
<1>2. ASSUME k <= n PROVE (n + SizeMod - k) % SizeMod = n - k
  BY <1>2
<1> QED
  BY <1>1, <1>2

LEMMA WrapsInto ==
    ASSUME NEW n \in Nat
    PROVE  n % SizeMod \in 0..(SizeMod - 1)
  BY LinksAndLists

Core == TypeOK /\ Shaped /\ LengthValid

LEMMA Reading ==
    ASSUME Shaped, NEW l \in Lists
    PROVE  /\ Content[l] \in Seq(Links) /\ Simple(Content[l])
           /\ Len(Content[l]) \in Nat /\ Len(Content[l]) < SizeMod
           /\ Len(Content[l]) <= Cardinality(Links)
           /\ Members(l) = Elements(Content[l])
           /\ LIST_empty(l) <=> Content[l] = <<>>
           /\ next[l] = First(Content[l], l)
           /\ Double => prev[l] = Final(l, Content[l])
<1>1. /\ Content[l] \in Seq(Links) /\ Simple(Content[l])
      /\ next[l] = First(Content[l], l)
      /\ Double => prev[l] = Final(l, Content[l])
  BY Ends DEF Shaped, Double
<1>2. /\ Len(Content[l]) \in Nat /\ Len(Content[l]) < SizeMod
      /\ Len(Content[l]) <= Cardinality(Links)
  BY <1>1, AtMostAll, ElementsOf, LinksAndLists
<1>3. First(Content[l], l) = l <=> Content[l] = <<>>
  BY <1>1, ElementsOf, LinksAndLists DEF First
<1>4. Members(l) = Elements(Content[l])
  BY DEF Members, Elements
<1> QED
  BY <1>1, <1>2, <1>3, <1>4 DEF LIST_empty

LEMMA FreeLinks ==
    ASSUME Shaped
    PROVE  Free = {x \in Links : Unlinked(x, Content)}
<1>1. \A l \in Lists : Members(l) = Elements(Content[l])
  BY DEF Members, Elements
<1> QED
  BY <1>1 DEF Free, Unlinked

LEMMA CoreTypes ==
    ASSUME Core
    PROVE  /\ type \in {"DC", "SC", "coerced"} /\ (Single <=> type = "SC")
           /\ (Double <=> type # "SC")
           /\ length \in [Lists -> 0..(SizeMod - 1)]
           /\ tainted \in [Lists -> BOOLEAN] /\ loop.on \in BOOLEAN
           /\ Content \in [Lists -> Seq(Links)]
           /\ \A l \in Lists : /\ tainted[l] => type = "coerced"
                               /\ ~tainted[l] => length[l] = Len(Content[l])
  BY DEF Core, TypeOK, Single, Double, LengthValid, Shaped, Shape, Proper

(* What is left to show about an operation: its contents and its counters. *)
LEMMA CoreStep ==
    ASSUME Core, NEW c, Shape(c, next', prev', last', type'), type' = type,
           length' \in [Lists -> 0..(SizeMod - 1)],
           tainted' \in [Lists -> BOOLEAN], loop'.on \in BOOLEAN,
           \A l \in Lists : /\ tainted'[l] => type = "coerced"
                            /\ ~tainted'[l] => length'[l] = Len(c[l])
    PROVE  Core' /\ Content' = c
<1>1. Content' = c /\ Shaped'
  BY Becomes
<1>2. TypeOK'
  BY CoreTypes DEF TypeOK, Shape
<1>3. LengthValid'
  BY <1>1 DEF LengthValid
<1> QED
  BY <1>1, <1>2, <1>3 DEF Core

LEMMA InitStep ==
    ASSUME Core, NEW l \in Lists, LIST_init(l)
    PROVE  Core' /\ S!Clear(l)
<1> DEFINE c == [Content EXCEPT ![l] = <<>>]
<1>1. type' = type /\ loop' = loop
  BY DEF LIST_init, Call
<1>2. Shape(c, next', prev', last', type')
  <2>1. Shape(Content, next, prev, last, type)
    BY DEF Core, Shaped
  <2>2. CASE type = "SC"
    <3>1. /\ next' = [next EXCEPT ![l] = l] /\ prev' = prev
          /\ last' = [last EXCEPT ![l] = l]
      BY <2>2 DEF LIST_init, Call, LIST_initSC, Single
    <3>2. Shape(c, [next EXCEPT ![l] = l], prev, [last EXCEPT ![l] = l], type)
      BY <2>1, <2>2, EmptyShape
    <3> QED
      BY <1>1, <3>1, <3>2
  <2>3. CASE type # "SC"
    <3>1. /\ next' = [next EXCEPT ![l] = l] /\ last' = last
          /\ prev' = [prev EXCEPT ![l] = l]
      BY <2>3 DEF LIST_init, Call, LIST_initDC, Single
    <3>2. Shape(c, [next EXCEPT ![l] = l], [prev EXCEPT ![l] = l], last, type)
      BY <2>1, <2>3, EmptyShape
    <3> QED
      BY <1>1, <3>1, <3>2
  <2> QED
    BY <2>2, <2>3
<1>3. /\ length' = [length EXCEPT ![l] = 0]
      /\ (tainted' = tainted /\ Single) \/ tainted' = [tainted EXCEPT ![l] = FALSE]
  BY DEF LIST_init, Call, LIST_initSC, LIST_initDC
<1>4. /\ length' \in [Lists -> 0..(SizeMod - 1)]
      /\ tainted' \in [Lists -> BOOLEAN] /\ loop'.on \in BOOLEAN
  <2>1. 0 \in 0..(SizeMod - 1)
    BY LinksAndLists
  <2> QED
    BY <1>1, <1>3, <2>1, CoreTypes
<1>5. ASSUME NEW m \in Lists
      PROVE  /\ tainted'[m] => type = "coerced"
             /\ ~tainted'[m] => length'[m] = Len(c[m])
  BY <1>3, CoreTypes, NoLink
<1>6. Core' /\ Content' = c
  <2> HIDE DEF c
  <2> QED
    BY <1>1, <1>2, <1>4, <1>5, CoreStep
<1> QED
  BY <1>6 DEF S!Clear

LEMMA LengthStep ==
    ASSUME Core, NEW l \in Lists, LIST_length(l)
    PROVE  Core' /\ UNCHANGED Content
<1>1. type' = type /\ loop' = loop /\ UNCHANGED pointers
  BY DEF LIST_length
<1>2. Shape(Content, next', prev', last', type')
  BY <1>1 DEF pointers, Core, Shaped
<1>3. /\ length' = [length EXCEPT ![l] = IF tainted[l] THEN Len(Content[l]) ELSE @]
      /\ tainted' = [tainted EXCEPT ![l] = FALSE]
  BY DEF LIST_length
<1>4. Len(Content[l]) \in 0..(SizeMod - 1)
  BY Reading, LinksAndLists DEF Core
<1>5. /\ length' \in [Lists -> 0..(SizeMod - 1)]
      /\ tainted' \in [Lists -> BOOLEAN] /\ loop'.on \in BOOLEAN
  BY <1>1, <1>3, <1>4, CoreTypes
<1>6. ASSUME NEW m \in Lists
      PROVE  /\ tainted'[m] => type = "coerced"
             /\ ~tainted'[m] => length'[m] = Len(Content[m])
  BY <1>3, CoreTypes
<1> QED
  BY <1>1, <1>2, <1>5, <1>6, CoreStep

(* The steps of double linked lists.                                       *)

(* Taking a link from a list, whichever type the list has.                 *)
Removed(l, i) ==
    [Content EXCEPT ![l] = Join(SubSeq(Content[l], 1, i - 1),
                                SubSeq(Content[l], i + 1, Len(Content[l])))]

LEMMA RemovedStep ==
    ASSUME Core, NEW l \in Lists, NEW x \in Members(l), NEW i,
           i = Position(Content[l], x),
           Shape(Removed(l, i), next', prev', last', type'),
           length' = [length EXCEPT ![l] = (@ + SizeMod - 1) % SizeMod],
           tainted' = tainted, type' = type, loop'.on \in BOOLEAN
    PROVE  Core' /\ S!Unlink(l, i)
<1> DEFINE s == Content[l]
           u == SubSeq(s, 1, i - 1)
           v == SubSeq(s, i + 1, Len(s))
           c == [Content EXCEPT ![l] = Join(u, v)]
<1>1. /\ s \in Seq(Links) /\ Simple(s) /\ x \in Elements(s)
      /\ Len(s) \in Nat /\ Len(s) < SizeMod
  BY Reading DEF Core
<1>2. /\ i \in 1..Len(s) /\ s[i] = x
      /\ u \in Seq(Links) /\ v \in Seq(Links)
      /\ s = Join(Join(u, One(x)), v)
  BY <1>1, SplitAt
<1>3. x \in Links
  BY <1>1, ElementsOf
<1>4. SplitBy(Content, l, u, x, v) /\ Proper(Content)
  BY <1>2, <1>3 DEF SplitBy, Core, Shaped, Shape
<1>5. Len(s) = Len(Join(u, v)) + 1
  <2> HIDE DEF u, v
  <2>1. Len(Content[l]) = Len(Join(u, v)) + 1
    BY <1>4, RemoveLength
  <2> QED
    BY <2>1
<1>6. Shape(c, next', prev', last', type')
  BY DEF Removed
<1>7. (length[l] + SizeMod - 1) % SizeMod \in 0..(SizeMod - 1)
  <2>1. length[l] + SizeMod - 1 \in Nat
    <3>1. length[l] \in 0..(SizeMod - 1)
      BY CoreTypes
    <3>2. \A a, b \in Nat : 0 < b => a + b - 1 \in Nat
      OBVIOUS
    <3>3. length[l] \in Nat /\ 0 < SizeMod /\ SizeMod \in Nat
      BY <3>1, LinksAndLists
    <3> QED
      BY Zenon, <3>2, <3>3
  <2> QED
    BY Zenon, <2>1, WrapsInto
<1>8. /\ length' \in [Lists -> 0..(SizeMod - 1)]
      /\ tainted' \in [Lists -> BOOLEAN]
  BY <1>7, CoreTypes
<1>9. (Len(s) + SizeMod - 1) % SizeMod = Len(s) - 1 /\ Len(Join(u, v)) = Len(s) - 1
  <2>1. 1 <= Len(s) /\ Len(s) - 1 \in Nat
    BY <1>1, <1>2
  <2>2. Len(Join(u, v)) \in Nat
    BY <1>2, JoinElements, ElementsOf
  <2> HIDE DEF s, u, v
  <2> QED
    BY <1>1, <1>5, <2>1, <2>2, Wraps
<1> HIDE DEF u, v
<1>10. ASSUME NEW m \in Lists
       PROVE  /\ tainted'[m] => type = "coerced"
              /\ ~tainted'[m] => length'[m] = Len(c[m])
  BY <1>9, CoreTypes
<1>11. Core' /\ Content' = c
  <2> HIDE DEF c
  <2> QED
    BY <1>6, <1>8, <1>10, CoreStep
<1> QED
  BY <1>2, <1>11 DEF S!Unlink, S!RemoveAt, Join, u, v

LEMMA UnlinkStep ==
    ASSUME Core, type # "SC", NEW l \in Lists, NEW x \in Members(l),
           LIST_unlinkDC(l, x), type' = type, loop'.on \in BOOLEAN
    PROVE  Core' /\ S!Unlink(l, Position(Content[l], x))
<1> DEFINE s == Content[l]
           i == Position(s, x)
           u == SubSeq(s, 1, i - 1)
           v == SubSeq(s, i + 1, Len(s))
<1>1. s \in Seq(Links) /\ Simple(s) /\ x \in Elements(s) /\ x \in Links
  BY Reading, ElementsOf DEF Core
<1>2. /\ i \in 1..Len(s)
      /\ u \in Seq(Links) /\ v \in Seq(Links)
      /\ s = Join(Join(u, One(x)), v)
  BY <1>1, SplitAt
<1>3. SplitBy(Content, l, u, x, v)
  BY <1>1, <1>2 DEF SplitBy
<1>4. tainted[l] \/ length[l] # 0
  BY <1>1, <1>2, CoreTypes
<1>5. /\ next' = [next EXCEPT ![prev[x]] = next[x]]
      /\ prev' = [prev EXCEPT ![next[x]] = prev[x]]
      /\ last' = last
      /\ length' = [length EXCEPT ![l] = (@ + SizeMod - 1) % SizeMod]
      /\ tainted' = tainted
  BY <1>4 DEF LIST_unlinkDC, LIST_unlinkD
<1>6. Shape([Content EXCEPT ![l] = Join(u, v)], next', prev', last', type')
  <2>1. Shape(Content, next, prev, last, type)
    BY DEF Core, Shaped
  <2> HIDE DEF i, u, v
  <2>2. Shape([Content EXCEPT ![l] = Join(u, v)], [next EXCEPT ![prev[x]] = next[x]],
              [prev EXCEPT ![next[x]] = prev[x]], last, type)
    BY <1>3, <2>1, RemoveShape
  <2> QED
    BY <1>5, <2>2
<1>7. Shape(Removed(l, i), next', prev', last', type')
  BY <1>6 DEF Removed
<1> HIDE DEF i
<1>8. i = Position(Content[l], x)
  BY DEF i
<1> QED
  BY <1>5, <1>7, <1>8, RemovedStep

(* A sequence in front of and from its i-th place.                         *)
LEMMA CutAt ==
    ASSUME NEW s \in Seq(Links), NEW i \in 1..(Len(s) + 1)
    PROVE  LET u == SubSeq(s, 1, i - 1)
               v == SubSeq(s, i, Len(s))
           IN  /\ u \in Seq(Links) /\ v \in Seq(Links) /\ s = Join(u, v)
               /\ Len(u) = i - 1
               /\ i = 1 => u = <<>> /\ v = s
               /\ i = Len(s) + 1 => u = s /\ v = <<>>
<1> DEFINE u == SubSeq(s, 1, i - 1)
           v == SubSeq(s, i, Len(s))
<1>1. Len(s) \in Nat /\ i \in Nat
  OBVIOUS
<1>2. u \in Seq(Links) /\ v \in Seq(Links) /\ Len(u) = i - 1
  BY <1>1
<1>3. s = u \o v
  <2>1. /\ 1 \in 1..(Len(s) + 1) /\ i - 1 \in (1 - 1)..Len(s)
        /\ Len(s) \in (i - 1)..Len(s) /\ (i - 1) + 1 = i
    BY <1>1
  <2>2. SubSeq(s, 1, i - 1) \o SubSeq(s, (i - 1) + 1, Len(s)) = SubSeq(s, 1, Len(s))
    BY <2>1, ConcatAdjacentSubSeq, Zenon
  <2>3. SubSeq(s, 1, Len(s)) = s
    OBVIOUS
  <2> QED
    BY <2>1, <2>2, <2>3, Zenon
<1>4. i = 1 => u = <<>> /\ v = s
  BY <1>1
<1>5. i = Len(s) + 1 => u = s /\ v = <<>>
  BY <1>1
<1> QED
  BY <1>2, <1>3, <1>4, <1>5 DEF Join

(* Putting a link into a list: the contents, the counter and what ListSpec *)
(* says, whichever type the list has.                                      *)
Inserted(l, i, x) ==
    [Content EXCEPT ![l] =
        Join(Join(SubSeq(Content[l], 1, i - 1), One(x)),
             SubSeq(Content[l], i, Len(Content[l])))]

LEMMA InsertedStep ==
    ASSUME Core, NEW l \in Lists, NEW x \in Free,
           NEW i \in 1..(Len(Content[l]) + 1),
           Shape(Inserted(l, i, x), next', prev', last', type'),
           length' = [length EXCEPT ![l] = (@ + 1) % SizeMod],
           tainted' = tainted, type' = type, loop'.on \in BOOLEAN
    PROVE  Core' /\ S!Insert(l, i, x)
<1> DEFINE s == Content[l]
           u == SubSeq(s, 1, i - 1)
           v == SubSeq(s, i, Len(s))
           t == Join(Join(u, One(x)), v)
           c == [Content EXCEPT ![l] = t]
<1>1. /\ s \in Seq(Links) /\ Simple(s) /\ Len(s) \in Nat /\ Len(s) < SizeMod
  BY Reading DEF Core
<1>2. Split(Content, l, u, v) /\ Proper(Content)
  BY <1>1, CutAt DEF Split, Core, Shaped, Shape
<1>3. x \in Links /\ Unlinked(x, Content)
  BY FreeLinks DEF Core
<1>4. Shape(c, next', prev', last', type')
  BY DEF Inserted
<1> HIDE DEF u, v
<1>5. (length[l] + 1) % SizeMod \in 0..(SizeMod - 1)
  <2>1. length[l] + 1 \in Nat
    BY CoreTypes, LinksAndLists
  <2> QED
    BY <2>1, WrapsInto
<1>6. /\ length' \in [Lists -> 0..(SizeMod - 1)]
      /\ tainted' \in [Lists -> BOOLEAN]
  BY <1>5, CoreTypes
<1>7. (Len(s) + 1) % SizeMod = Len(t)
  <2>1. Len(t) = Len(s) + 1 /\ t \in Seq(Links) /\ Proper(c)
    BY <1>2, <1>3, InsertProper
  <2>2. Simple(t)
    <3>1. c[l] = t
      BY CoreTypes
    <3> QED
      BY <2>1, <3>1 DEF Proper
  <2>3. Len(t) < SizeMod /\ Len(t) \in Nat
    BY <2>1, <2>2, AtMostAll, ElementsOf, LinksAndLists
  <2> QED
    BY <2>1, <2>3, Wraps
<1> HIDE DEF t
<1>8. ASSUME NEW m \in Lists
      PROVE  /\ tainted'[m] => type = "coerced"
             /\ ~tainted'[m] => length'[m] = Len(c[m])
  BY <1>7, CoreTypes
<1>9. Core' /\ Content' = c
  <2> HIDE DEF c
  <2> QED
    BY <1>4, <1>6, <1>8, CoreStep
<1>10. x \notin S!Linked
  <2>1. \A m \in Lists : x \notin S!ToSet(Content[m])
    BY <1>3, CoreTypes DEF Unlinked, Elements, S!ToSet
  <2> QED
    BY <2>1 DEF S!Linked
<1> QED
  BY <1>9, <1>10 DEF S!Insert, S!InsertAt, Join, One, t, u, v

LEMMA InsertStep ==
    ASSUME Core, type # "SC", NEW l \in Lists, NEW x \in Free,
           NEW i \in 1..(Len(Content[l]) + 1), NEW p,
           p = Final(l, SubSeq(Content[l], 1, i - 1)), LIST_insertDC(l, p, x),
           type' = type, loop'.on \in BOOLEAN
    PROVE  Core' /\ S!Insert(l, i, x)
<1> DEFINE s == Content[l]
           u == SubSeq(s, 1, i - 1)
           v == SubSeq(s, i, Len(s))
<1>1. s \in Seq(Links)
  BY Reading DEF Core
<1>2. Split(Content, l, u, v)
  BY <1>1, CutAt DEF Split
<1>3. x \in Links /\ Unlinked(x, Content)
  BY FreeLinks DEF Core
<1>4. /\ next' = [next EXCEPT ![x] = next[p], ![p] = x]
      /\ prev' = [prev EXCEPT ![x] = p, ![next[p]] = x]
      /\ last' = last /\ tainted' = tainted
      /\ length' = [length EXCEPT ![l] = (@ + 1) % SizeMod]
  BY DEF LIST_insertDC, LIST_insertD
<1>5. Shape([Content EXCEPT ![l] = Join(Join(u, One(x)), v)],
            next', prev', last', type')
  <2>1. Shape(Content, next, prev, last, type)
    BY DEF Core, Shaped
  <2>2. p = Final(l, u)
    OBVIOUS
  <2> HIDE DEF u, v
  <2>3. Shape([Content EXCEPT ![l] = Join(Join(u, One(x)), v)],
              [next EXCEPT ![x] = next[p], ![p] = x],
              [prev EXCEPT ![x] = p, ![next[p]] = x], last, type)
    BY <1>2, <1>3, <2>1, <2>2, InsertShape
  <2> QED
    BY <1>4, <2>3
<1>6. Shape(Inserted(l, i, x), next', prev', last', type')
  BY <1>5 DEF Inserted
<1> QED
  BY <1>4, <1>6, InsertedStep

(* Unlinking the anchor of an empty list changes its length at most.       *)
LEMMA UnlinkNothing ==
    ASSUME Core, type # "SC", NEW l \in Lists, Content[l] = <<>>,
           LIST_unlinkDC(l, l), type' = type, loop'.on \in BOOLEAN
    PROVE  Core' /\ UNCHANGED Content
<1>1. next[l] = l /\ prev[l] = l /\ next \in [Nodes -> Nodes] /\ prev \in [Nodes -> Nodes]
  BY Reading, CoreTypes, NoLink DEF Core, TypeOK
<1>2. next' = next /\ prev' = prev /\ last' = last /\ tainted' = tainted
  BY <1>1 DEF LIST_unlinkDC, LIST_unlinkD, pointers
<1>3. Shape(Content, next', prev', last', type')
  BY <1>2 DEF Core, Shaped
<1>4. CASE tainted[l]
  <2>1. length' = [length EXCEPT ![l] = (@ + SizeMod - 1) % SizeMod]
    BY <1>4 DEF LIST_unlinkDC
  <2>2. (length[l] + SizeMod - 1) % SizeMod \in 0..(SizeMod - 1)
    <3>1. length[l] + SizeMod - 1 \in Nat
      BY CoreTypes, LinksAndLists
    <3> QED
      BY <3>1, WrapsInto
  <2>3. length' \in [Lists -> 0..(SizeMod - 1)] /\ tainted' \in [Lists -> BOOLEAN]
    BY <1>2, <2>1, <2>2, CoreTypes
  <2>4. \A m \in Lists : /\ tainted'[m] => type = "coerced"
                         /\ ~tainted'[m] => length'[m] = Len(Content[m])
    BY <1>2, <1>4, <2>1, CoreTypes
  <2> QED
    BY <1>3, <2>3, <2>4, CoreStep
<1>5. CASE ~tainted[l]
  <2>1. length[l] = 0
    BY <1>5, CoreTypes, NoLink
  <2>2. length' = length
    BY <1>5, <2>1 DEF LIST_unlinkDC
  <2>3. length' \in [Lists -> 0..(SizeMod - 1)] /\ tainted' \in [Lists -> BOOLEAN]
    BY <1>2, <2>2, CoreTypes
  <2>4. \A m \in Lists : /\ tainted'[m] => type = "coerced"
                         /\ ~tainted'[m] => length'[m] = Len(Content[m])
    BY <1>2, <2>2, CoreTypes
  <2> QED
    BY <1>3, <2>3, <2>4, CoreStep
<1> QED
  BY <1>4, <1>5

(* The place of a link or of the anchor, where a list is cut.              *)
LEMMA Pivot ==
    ASSUME Shaped, NEW l \in Lists, NEW p \in Members(l) \cup {l}
    PROVE  LET i == At(l, p)
               u == SubSeq(Content[l], 1, i - 1)
               v == SubSeq(Content[l], i, Len(Content[l]))
           IN  /\ i \in 1..(Len(Content[l]) + 1)
               /\ Split(Content, l, u, v) /\ First(v, l) = p
               /\ v = <<>> <=> p = l
               /\ v = <<>> => u = Content[l]
               /\ u = <<>> => v = Content[l]
               /\ Double => prev[p] = Final(l, u)
<1> DEFINE s == Content[l]
           i == At(l, p)
           u == SubSeq(s, 1, i - 1)
           v == SubSeq(s, i, Len(s))
<1>1. s \in Seq(Links) /\ Simple(s) /\ Len(s) \in Nat /\ Members(l) = Elements(s)
  BY Reading
<1>2. CASE p = l
  <2>1. i = Len(s) + 1
    BY <1>2 DEF At
  <2>2. i \in 1..(Len(s) + 1)
    BY <1>1, <2>1
  <2>3. u = s /\ v = <<>> /\ Split(Content, l, u, v)
    BY <1>1, <2>1, <2>2, CutAt DEF Split
  <2> QED
    BY <1>1, <1>2, <2>2, <2>3, Reading, NoLink
<1>3. CASE p # l
  <2>1. p \in Elements(s) /\ i = Position(s, p) /\ p \in Links
    BY <1>1, <1>3, ElementsOf DEF At
  <2> DEFINE t == SubSeq(s, i + 1, Len(s))
  <2>2. i \in 1..Len(s) /\ v = Join(One(p), t) /\ t \in Seq(Links)
    BY <1>1, <2>1, SplitAt
  <2>3. i \in 1..(Len(s) + 1)
    BY <1>1, <2>2
  <2>4. /\ Split(Content, l, u, v) /\ u \in Seq(Links) /\ v \in Seq(Links)
        /\ s = Join(u, v)
    BY <1>1, <2>3, CutAt DEF Split
  <2> HIDE DEF i, t, u, v
  <2>5. First(v, l) = p
    <3>1. First(Join(One(p), t), l) = First(One(p), First(t, l))
      BY <2>1, <2>2, OneLink, FinalJoin
    <3> QED
      BY <2>1, <2>2, <3>1, OneLink
  <2>6. v # <<>>
    BY <1>3, <2>5 DEF First
  <2>7. u = <<>> => v = s
    BY <2>4, JoinNothing
  <2>8. Double => prev[First(v, l)] = Final(l, u)
    <3>1. Shape(Content, next, prev, last, type)
      BY DEF Shaped
    <3> QED
      BY <2>4, <3>1, Seam DEF Double
  <2>9. /\ i \in 1..(Len(s) + 1)
        /\ Split(Content, l, u, v) /\ First(v, l) = p
        /\ v = <<>> <=> p = l
        /\ v = <<>> => u = s
        /\ u = <<>> => v = s
        /\ Double => prev[p] = Final(l, u)
    BY <1>3, <2>3, <2>4, <2>5, <2>6, <2>7, <2>8
  <2> QED
    BY <2>9 DEF i, u, v
<1> QED
  BY <1>2, <1>3

LEMMA SeparateFromStep ==
    ASSUME Core, type # "SC", NEW l \in Lists, NEW k \in Lists, k # l,
           NEW p \in Members(l) \cup {l},
           LIST_separateFromDC(l, k, p, type = "DC"),
           type' = type, loop'.on \in BOOLEAN
    PROVE  Core' /\ S!SeparateFrom(l, k, At(l, p))
<1> DEFINE s == Content[l]
           i == At(l, p)
           u == SubSeq(s, 1, i - 1)
           v == SubSeq(s, i, Len(s))
           c == [Content EXCEPT ![l] = u, ![k] = v]
<1>1. /\ Split(Content, l, u, v) /\ First(v, l) = p
      /\ v = <<>> <=> p = l
      /\ v = <<>> => u = s
  BY Pivot DEF Core
<1>2. Shape(Content, next, prev, last, type) /\ Proper(Content)
  BY DEF Core, Shaped, Shape
<1> HIDE DEF i, u, v
<1>3. /\ u \in Seq(Links) /\ v \in Seq(Links) /\ Len(s) = Len(u) + Len(v)
      /\ Len(u) \in Nat /\ Len(v) \in Nat /\ Len(s) < SizeMod
  <2>1. u \in Seq(Links) /\ v \in Seq(Links) /\ s = Join(u, v)
    BY <1>1 DEF Split
  <2> QED
    <3>1. Len(s) = Len(u) + Len(v)
      BY <2>1, JoinElements, Zenon
    <3>2. Len(u) \in Nat /\ Len(v) \in Nat
      BY <2>1, ElementsOf, Zenon
    <3>3. Len(s) < SizeMod
      BY Reading DEF Core
    <3> QED
      BY <2>1, <3>1, <3>2, <3>3, Zenon
<1>4. Shape(c, next', prev', last', type')
  <2>1. CASE p # l
    <3>1. v # <<>>
      BY <1>1, <2>1
    <3>2. Shape([Content EXCEPT ![l] = u, ![k] = v],
                [next EXCEPT ![k] = p, ![prev[l]] = k, ![prev[p]] = l],
                [prev EXCEPT ![k] = prev[l], ![l] = prev[p], ![p] = k],
                last, type)
      BY <1>1, <1>2, <3>1, SeparateFromShape
    <3>3. /\ next' = [next EXCEPT ![k] = p, ![prev[l]] = k, ![prev[p]] = l]
          /\ prev' = [prev EXCEPT ![k] = prev[l], ![l] = prev[p], ![p] = k]
          /\ last' = last
      BY <2>1 DEF LIST_separateFromDC, LIST_separateFromD
    <3> QED
      BY <3>2, <3>3
  <2>2. CASE p = l
    <3>1. /\ next' = [next EXCEPT ![k] = k] /\ prev' = [prev EXCEPT ![k] = k]
          /\ last' = last
      BY <2>2 DEF LIST_separateFromDC, LIST_separateFromD
    <3>2. Shape([Content EXCEPT ![k] = <<>>], [next EXCEPT ![k] = k],
                [prev EXCEPT ![k] = k], last, type)
      BY <1>2, EmptyShape
    <3>3. c = [Content EXCEPT ![k] = <<>>]
      BY <1>1, <2>2, CoreTypes
    <3> QED
      BY <3>1, <3>2, <3>3
  <2> QED
    BY <2>1, <2>2
<1>5. /\ Content' = c /\ c[l] = u /\ c[k] = v
      /\ \A m \in Lists \ {l, k} : c[m] = Content[m]
  BY <1>4, Becomes, CoreTypes
<1>6. /\ length' \in [Lists -> 0..(SizeMod - 1)]
      /\ tainted' \in [Lists -> BOOLEAN]
      /\ \A m \in Lists : /\ tainted'[m] => type = "coerced"
                          /\ ~tainted'[m] => length'[m] = Len(c[m])
  <2>1. CASE type = "DC"
    <3>1. /\ length' = [length EXCEPT ![k] = Len(v), ![l] = (@ + SizeMod - Len(v)) % SizeMod]
          /\ tainted' = [tainted EXCEPT ![k] = FALSE, ![l] = FALSE]
      BY <1>5, <2>1 DEF LIST_separateFromDC, Recount
    <3>2. length[l] = Len(s)
      BY <2>1, CoreTypes
    <3>3. (Len(s) + SizeMod - Len(v)) % SizeMod = Len(u)
      <4>1. Len(v) <= Len(s) /\ Len(s) - Len(v) = Len(u) /\ Len(s) \in Nat
        BY <1>3
      <4> QED
        BY <1>3, <4>1, Wraps
    <3>4. Len(u) \in 0..(SizeMod - 1) /\ Len(v) \in 0..(SizeMod - 1)
      BY <1>3, LinksAndLists
    <3> HIDE DEF c, s
    <3>5. length' = [length EXCEPT ![k] = Len(v), ![l] = Len(u)]
      BY <3>1, <3>2, <3>3, CoreTypes
    <3>6. tainted' = [tainted EXCEPT ![k] = FALSE, ![l] = FALSE]
      BY <3>1
    <3>7. /\ length' \in [Lists -> 0..(SizeMod - 1)]
          /\ tainted' \in [Lists -> BOOLEAN]
      BY <3>4, <3>5, <3>6, CoreTypes
    <3>8. ASSUME NEW m \in Lists PROVE ~tainted'[m] /\ length'[m] = Len(c[m])
      BY <1>5, <2>1, <3>5, <3>6, CoreTypes
    <3> QED
      BY <3>7, <3>8
  <2>2. CASE type # "DC"
    <3>1. type = "coerced"
      BY <2>2, CoreTypes
    <3>2. CASE p # l
      <4>1. length' = length /\ tainted' = [tainted EXCEPT ![l] = TRUE, ![k] = TRUE]
        BY <2>2, <3>2 DEF LIST_separateFromDC, Recount
      <4> QED
        BY <1>5, <3>1, <4>1, CoreTypes
    <3>3. CASE p = l
      <4>1. /\ length' = [length EXCEPT ![k] = 0]
            /\ tainted' = [tainted EXCEPT ![k] = FALSE]
        BY <2>2, <3>3 DEF LIST_separateFromDC, Recount
      <4>2. Len(v) = 0 /\ c[l] = Content[l] /\ 0 \in 0..(SizeMod - 1)
        BY <1>1, <1>5, <3>3, LinksAndLists, NoLink
      <4> HIDE DEF c, s
      <4> QED
        BY <1>5, <3>1, <4>1, <4>2, CoreTypes
    <3> QED
      BY <3>2, <3>3
  <2> QED
    BY <2>1, <2>2
<1>7. Core' /\ Content' = c
  <2> HIDE DEF c
  <2> QED
    BY <1>4, <1>6, CoreStep
<1> QED
  BY <1>7 DEF S!SeparateFrom, i, u, v

LEMMA SeparateUntilStep ==
    ASSUME Core, type # "SC", NEW l \in Lists, NEW k \in Lists, k # l,
           NEW p \in Members(l) \cup {l},
           LIST_separateUntilDC(l, k, p, type = "DC"),
           type' = type, loop'.on \in BOOLEAN
    PROVE  Core' /\ S!SeparateUntil(l, k, At(l, p))
<1> DEFINE s == Content[l]
           i == At(l, p)
           u == SubSeq(s, 1, i - 1)
           v == SubSeq(s, i, Len(s))
           c == [Content EXCEPT ![l] = v, ![k] = u]
<1>1. /\ Split(Content, l, u, v) /\ First(v, l) = p
      /\ v = <<>> <=> p = l
      /\ u = <<>> => v = s
  BY Pivot DEF Core
<1>2. Shape(Content, next, prev, last, type) /\ Proper(Content)
  BY DEF Core, Shaped, Shape
<1> HIDE DEF i, u, v
<1>3. /\ u \in Seq(Links) /\ v \in Seq(Links) /\ Len(s) = Len(u) + Len(v)
      /\ Len(u) \in Nat /\ Len(v) \in Nat /\ Len(s) < SizeMod
  <2>1. u \in Seq(Links) /\ v \in Seq(Links) /\ s = Join(u, v)
    BY <1>1 DEF Split
  <2> QED
    <3>1. Len(s) = Len(u) + Len(v)
      BY <2>1, JoinElements, Zenon
    <3>2. Len(u) \in Nat /\ Len(v) \in Nat
      BY <2>1, ElementsOf, Zenon
    <3>3. Len(s) < SizeMod
      BY Reading DEF Core
    <3> QED
      BY <2>1, <3>1, <3>2, <3>3, Zenon
<1>4. u = <<>> <=> p = next[l]
  <2>1. next[l] = First(s, l)
    BY Reading DEF Core
  <2>2. u # <<>> => First(s, l) \in Elements(u) /\ Elements(u) \cap Elements(v) = {}
                    /\ l \notin Elements(u)
    <3>1. First(s, l) = First(u, First(v, l)) /\ u \in Seq(Links)
      BY <1>1, FinalJoin DEF Split
    <3>2. u # <<>> => First(u, First(v, l)) \in Elements(u)
      BY <3>1, ElementsOf DEF First
    <3> QED
      BY <1>1, <1>2, <3>1, <3>2, SplitNodes
  <2>3. p = l \/ p \in Elements(v)
    BY <1>1, <1>3, ElementsOf DEF First
  <2> QED
    BY <1>1, <2>1, <2>2, <2>3
<1>5. Shape(c, next', prev', last', type')
  <2>1. CASE p # next[l]
    <3>1. u # <<>>
      BY <1>4, <2>1
    <3>2. Shape([Content EXCEPT ![l] = v, ![k] = u],
                [next EXCEPT ![k] = next[l], ![prev[p]] = k, ![l] = p],
                [prev EXCEPT ![next[l]] = k, ![k] = prev[p], ![p] = l],
                last, type)
      BY <1>1, <1>2, <3>1, SeparateUntilShape
    <3>3. /\ next' = [next EXCEPT ![k] = next[l], ![prev[p]] = k, ![l] = p]
          /\ prev' = [prev EXCEPT ![next[l]] = k, ![k] = prev[p], ![p] = l]
          /\ last' = last
      BY <2>1 DEF LIST_separateUntilDC, LIST_separateUntilD
    <3> QED
      BY <3>2, <3>3
  <2>2. CASE p = next[l]
    <3>1. /\ next' = [next EXCEPT ![k] = k] /\ prev' = [prev EXCEPT ![k] = k]
          /\ last' = last
      BY <2>2 DEF LIST_separateUntilDC, LIST_separateUntilD
    <3>2. Shape([Content EXCEPT ![k] = <<>>], [next EXCEPT ![k] = k],
                [prev EXCEPT ![k] = k], last, type)
      BY <1>2, EmptyShape
    <3>3. c = [Content EXCEPT ![k] = <<>>]
      BY <1>1, <1>4, <2>2, CoreTypes
    <3> QED
      BY <3>1, <3>2, <3>3
  <2> QED
    BY <2>1, <2>2
<1>6. /\ Content' = c /\ c[l] = v /\ c[k] = u
      /\ \A m \in Lists \ {l, k} : c[m] = Content[m]
  BY <1>5, Becomes, CoreTypes
<1>7. /\ length' \in [Lists -> 0..(SizeMod - 1)]
      /\ tainted' \in [Lists -> BOOLEAN]
      /\ \A m \in Lists : /\ tainted'[m] => type = "coerced"
                          /\ ~tainted'[m] => length'[m] = Len(c[m])
  <2>1. CASE type = "DC"
    <3>1. /\ length' = [length EXCEPT ![k] = Len(u), ![l] = (@ + SizeMod - Len(u)) % SizeMod]
          /\ tainted' = [tainted EXCEPT ![k] = FALSE, ![l] = FALSE]
      BY <1>6, <2>1 DEF LIST_separateUntilDC, Recount
    <3>2. length[l] = Len(s)
      BY <2>1, CoreTypes
    <3>3. (Len(s) + SizeMod - Len(u)) % SizeMod = Len(v)
      <4>1. Len(u) <= Len(s) /\ Len(s) - Len(u) = Len(v) /\ Len(s) \in Nat
        BY <1>3
      <4> QED
        BY <1>3, <4>1, Wraps
    <3>4. Len(u) \in 0..(SizeMod - 1) /\ Len(v) \in 0..(SizeMod - 1)
      BY <1>3, LinksAndLists
    <3> HIDE DEF c, s
    <3>5. length' = [length EXCEPT ![k] = Len(u), ![l] = Len(v)]
      BY <3>1, <3>2, <3>3, CoreTypes
    <3>6. tainted' = [tainted EXCEPT ![k] = FALSE, ![l] = FALSE]
      BY <3>1
    <3>7. /\ length' \in [Lists -> 0..(SizeMod - 1)]
          /\ tainted' \in [Lists -> BOOLEAN]
      BY <3>4, <3>5, <3>6, CoreTypes
    <3>8. ASSUME NEW m \in Lists PROVE ~tainted'[m] /\ length'[m] = Len(c[m])
      BY <1>6, <2>1, <3>5, <3>6, CoreTypes
    <3> QED
      BY <3>7, <3>8
  <2>2. CASE type # "DC"
    <3>1. type = "coerced"
      BY <2>2, CoreTypes
    <3>2. length' = length /\ tainted' = [tainted EXCEPT ![l] = TRUE, ![k] = TRUE]
      BY <2>2 DEF LIST_separateUntilDC, Recount
    <3> QED
      BY <1>6, <3>1, <3>2, CoreTypes
  <2> QED
    BY <2>1, <2>2
<1>8. Core' /\ Content' = c
  <2> HIDE DEF c
  <2> QED
    BY <1>5, <1>7, CoreStep
<1> QED
  BY <1>8 DEF S!SeparateUntil, i, u, v

(* The counters of two concatenated lists.                                 *)
Merged(l, k) ==
    /\ length' = [length EXCEPT ![l] = (@ + length[k]) % SizeMod, ![k] = 0]
    /\ \/ tainted' = [tainted EXCEPT ![l] = @ \/ tainted[k], ![k] = FALSE]
       \/ tainted' = tainted /\ type = "SC"

Joined(c, l, k, s) ==
    /\ s \in Seq(Links) /\ Simple(s)
    /\ Len(s) = Len(Content[l]) + Len(Content[k])
    /\ c = [Content EXCEPT ![l] = s, ![k] = <<>>]

LEMMA ConcatenateCounts ==
    ASSUME Core, NEW l \in Lists, NEW k \in Lists, k # l,
           NEW c, NEW s, Joined(c, l, k, s), Merged(l, k)
    PROVE  /\ length' \in [Lists -> 0..(SizeMod - 1)]
           /\ tainted' \in [Lists -> BOOLEAN]
           /\ \A m \in Lists : /\ tainted'[m] => type = "coerced"
                               /\ ~tainted'[m] => length'[m] = Len(c[m])
<1> DEFINE n == (length[l] + length[k]) % SizeMod
<1>1. /\ c[l] = s /\ c[k] = <<>> /\ Len(<<>>) = 0
      /\ \A m \in Lists \ {l, k} : c[m] = Content[m]
  BY CoreTypes, NoLink DEF Joined
<1>2. n \in 0..(SizeMod - 1) /\ 0 \in 0..(SizeMod - 1)
  <2>1. length[l] + length[k] \in Nat
    BY CoreTypes, LinksAndLists
  <2>2. (length[l] + length[k]) % SizeMod \in 0..(SizeMod - 1)
    BY Zenon, <2>1, WrapsInto
  <2>3. 0 \in 0..(SizeMod - 1)
    BY LinksAndLists
  <2> QED
    BY Zenon, <2>2, <2>3 DEF n
<1>3. length[l] = Len(Content[l]) /\ length[k] = Len(Content[k]) => n = Len(s)
  <2>1. Len(s) \in Nat /\ Len(s) <= Cardinality(Links)
    BY AtMostAll, ElementsOf DEF Joined
  <2>2. Len(s) < SizeMod
    <3>1. \A a, b, d \in Nat : a <= b /\ b < d => a < d
      OBVIOUS
    <3> QED
      BY Zenon, <2>1, <3>1, LinksAndLists
  <2>3. Len(s) % SizeMod = Len(s)
    BY <2>1, <2>2, Wraps
  <2> QED
    BY <2>3 DEF Joined
<1>4. length' = [length EXCEPT ![l] = n, ![k] = 0]
  BY Zenon DEF Merged
<1> HIDE DEF n
<1>5. length' \in [Lists -> 0..(SizeMod - 1)]
  BY <1>2, <1>4, CoreTypes
<1>6. CASE tainted' = tainted /\ type = "SC"
  <2>1. \A m \in Lists : ~tainted[m] /\ length[m] = Len(Content[m])
    BY <1>6, CoreTypes
  <2>2. \A m \in Lists : length'[m] = Len(c[m])
    BY <1>1, <1>3, <1>4, <2>1, CoreTypes
  <2> QED
    BY <1>5, <1>6, <2>1, <2>2, CoreTypes
<1>7. CASE tainted' = [tainted EXCEPT ![l] = @ \/ tainted[k], ![k] = FALSE]
  <2> DEFINE b == tainted[l] \/ tainted[k]
  <2>1. b \in BOOLEAN /\ tainted \in [Lists -> BOOLEAN]
    BY Zenon, CoreTypes
  <2>2. tainted' = [tainted EXCEPT ![l] = b, ![k] = FALSE]
    BY Zenon, <1>7
  <2>3. (b => type = "coerced") /\ (~b => ~tainted[l] /\ ~tainted[k])
    BY Zenon, CoreTypes
  <2> HIDE DEF b
  <2>4. tainted' \in [Lists -> BOOLEAN]
    BY <2>1, <2>2
  <2>5. ASSUME NEW m \in Lists, tainted'[m] PROVE type = "coerced"
    BY <2>1, <2>2, <2>3, <2>5, CoreTypes
  <2>6. ASSUME NEW m \in Lists, ~tainted'[m] PROVE length'[m] = Len(c[m])
    <3>1. CASE m = l
      <4>1. tainted'[l] = b
        BY <2>1, <2>2
      <4>2. ~tainted[l] /\ ~tainted[k]
        BY <2>3, <2>6, <3>1, <4>1
      <4> QED
        BY <1>1, <1>3, <1>4, <3>1, <4>2, CoreTypes
    <3>2. CASE m = k
      BY <1>1, <1>4, <3>2, CoreTypes
    <3>3. CASE m # l /\ m # k
      BY <1>1, <1>4, <2>1, <2>2, <2>6, <3>3, CoreTypes
    <3> QED
      BY <3>1, <3>2, <3>3
  <2> QED
    BY <1>5, <2>4, <2>5, <2>6
<1> QED
  BY Zenon, <1>6, <1>7 DEF Merged

(* Concatenating an empty list changes nothing.                            *)
LEMMA ConcatenateNothing ==
    ASSUME Core, NEW l \in Lists, NEW k \in Lists, k # l, Content[k] = <<>>
    PROVE  /\ Content = [Content EXCEPT ![l] = Join(Content[l], Content[k]), ![k] = <<>>]
           /\ Content = [Content EXCEPT ![l] = Join(Content[k], Content[l]), ![k] = <<>>]
<1>1. Join(Content[l], <<>>) = Content[l] /\ Join(<<>>, Content[l]) = Content[l]
  BY CoreTypes, JoinNothing
<1> QED
  BY <1>1, CoreTypes

LEMMA UnchangedStep ==
    ASSUME Core, UNCHANGED <<pointers, length, tainted>>, type' = type,
           loop'.on \in BOOLEAN
    PROVE  Core' /\ UNCHANGED Content
<1>1. /\ next' = next /\ prev' = prev /\ last' = last
      /\ length' = length /\ tainted' = tainted
  BY DEF pointers
<1>2. Shape(Content, next', prev', last', type')
  BY <1>1 DEF Core, Shaped
<1>3. /\ length' \in [Lists -> 0..(SizeMod - 1)] /\ tainted' \in [Lists -> BOOLEAN]
      /\ \A l \in Lists : /\ tainted'[l] => type = "coerced"
                          /\ ~tainted'[l] => length'[l] = Len(Content[l])
  BY <1>1, CoreTypes
<1> QED
  BY <1>2, <1>3, CoreStep

(* Concatenation, of both types of lists.                                  *)
LEMMA ConcatenateStep ==
    ASSUME Core, NEW l \in Lists, NEW k \in Lists, k # l,
           NEW s, s \in {Join(Content[l], Content[k]), Join(Content[k], Content[l])},
           Shape([Content EXCEPT ![l] = s, ![k] = <<>>], next', prev', last', type'),
           Merged(l, k), type' = type, loop'.on \in BOOLEAN
    PROVE  Core' /\ Content' = [Content EXCEPT ![l] = s, ![k] = <<>>]
<1> DEFINE c == [Content EXCEPT ![l] = s, ![k] = <<>>]
<1>1. Proper(Content) /\ Proper(c) /\ Content \in [Lists -> Seq(Links)]
  BY CoreTypes DEF Core, Shaped, Shape
<1>2. s \in Seq(Links) /\ Simple(s)
  <2>1. c[l] = s
    BY <1>1
  <2> HIDE DEF c
  <2> QED
    BY <1>1, <2>1 DEF Proper
<1>3. Len(s) = Len(Content[l]) + Len(Content[k])
  BY <1>1, ConcatenateProper
<1>4. c = [Content EXCEPT ![l] = s, ![k] = <<>>]
  OBVIOUS
<1>5. Shape(c, next', prev', last', type')
  OBVIOUS
<1> HIDE DEF c
<1>6. /\ length' \in [Lists -> 0..(SizeMod - 1)]
      /\ tainted' \in [Lists -> BOOLEAN]
      /\ \A m \in Lists : /\ tainted'[m] => type = "coerced"
                          /\ ~tainted'[m] => length'[m] = Len(c[m])
  <2>1. Joined(c, l, k, s)
    BY <1>2, <1>3, <1>4 DEF Joined
  <2> QED
    BY <2>1, ConcatenateCounts
<1>7. Core' /\ Content' = c
  BY <1>5, <1>6, CoreStep
<1> QED
  BY <1>4, <1>7

LEMMA ConcatenatePushStep ==
    ASSUME Core, NEW l \in Lists, NEW k \in Lists, LIST_concatenatePush(l, k)
    PROVE  Core' /\ S!ConcatenatePush(l, k)
<1> DEFINE s == Join(Content[l], Content[k])
           c == [Content EXCEPT ![l] = s, ![k] = <<>>]
<1>1. /\ k # l /\ type' = type /\ loop' = loop
      /\ type # "SC" => LIST_concatenatePushDC(l, k)
      /\ type = "SC" => ConcatenateSC(l, k, LIST_concatenatePushS(l, k))
  BY DEF LIST_concatenatePush, Call, Single
<1>2. Shape(Content, next, prev, last, type) /\ loop'.on \in BOOLEAN
  BY <1>1, CoreTypes DEF Core, Shaped
<1>3. LIST_empty(k) <=> Content[k] = <<>>
  BY Reading DEF Core
<1>4. CASE LIST_empty(k)
  <2>1. UNCHANGED <<pointers, length, tainted>>
    BY <1>1, <1>4 DEF LIST_concatenatePushDC, Concatenate, ConcatenateSC
  <2>2. Core' /\ Content' = Content
    BY <1>1, <1>2, <2>1, UnchangedStep
  <2>3. Content = c
    BY <1>1, <1>3, <1>4, ConcatenateNothing
  <2> QED
    BY <2>2, <2>3 DEF S!ConcatenatePush, Join
<1>5. CASE ~LIST_empty(k)
  <2>1. Merged(l, k)
    BY Zenon, <1>1, <1>5 DEF LIST_concatenatePushDC, Concatenate, ConcatenateSC, Merged
  <2>2. Shape(c, next', prev', last', type')
    <3>1. CASE type # "SC"
      <4>1. /\ next' = [next EXCEPT ![prev[k]] = l, ![prev[l]] = next[k], ![k] = k]
            /\ prev' = [prev EXCEPT ![next[k]] = prev[l], ![l] = prev[k], ![k] = k]
            /\ last' = last
        BY <1>1, <1>5, <3>1 DEF LIST_concatenatePushDC, Concatenate, LIST_concatenatePushD
      <4>2. Shape(c, [next EXCEPT ![prev[k]] = l, ![prev[l]] = next[k], ![k] = k],
                  [prev EXCEPT ![next[k]] = prev[l], ![l] = prev[k], ![k] = k], last, type)
        BY <1>1, <1>2, <1>3, <1>5, <3>1, ConcatenatePushShape
      <4> QED
        BY <1>1, <4>1, <4>2
    <3>2. CASE type = "SC"
      <4>1. /\ next' = [next EXCEPT ![last[k]] = l, ![last[l]] = next[k], ![k] = k]
            /\ last' = [last EXCEPT ![l] = last[k], ![k] = k]
            /\ prev' = prev
        BY <1>1, <1>5, <3>2 DEF ConcatenateSC, LIST_concatenatePushS
      <4>2. Shape(c, [next EXCEPT ![last[k]] = l, ![last[l]] = next[k], ![k] = k],
                  prev, [last EXCEPT ![l] = last[k], ![k] = k], type)
        BY <1>1, <1>2, <1>3, <1>5, <3>2, ConcatenatePushShapeS
      <4> QED
        BY <1>1, <4>1, <4>2
    <3> QED
      BY <3>1, <3>2
  <2>3. Core' /\ Content' = c
    BY <1>1, <1>2, <2>1, <2>2, ConcatenateStep
  <2> QED
    BY <2>3 DEF S!ConcatenatePush, Join
<1> QED
  BY <1>4, <1>5

(* A list may be prepended to an empty single linked one only where        *)
(* PrependToEmpty says so.                                                 *)
LEMMA ConcatenateUnshiftStep ==
    ASSUME Core, PrependToEmpty = FALSE, NEW l \in Lists, NEW k \in Lists,
           LIST_concatenateUnshift(l, k)
    PROVE  Core' /\ S!ConcatenateUnshift(l, k)
<1> DEFINE s == Join(Content[k], Content[l])
           c == [Content EXCEPT ![l] = s, ![k] = <<>>]
<1>1. /\ k # l /\ type' = type /\ loop' = loop
      /\ type # "SC" => LIST_concatenateUnshiftDC(l, k)
      /\ type = "SC" => /\ ConcatenateSC(l, k, LIST_concatenateUnshiftS(l, k))
                        /\ ~LIST_empty(l)
  BY DEF LIST_concatenateUnshift, Call, Single
<1>2. Shape(Content, next, prev, last, type) /\ loop'.on \in BOOLEAN
  BY <1>1, CoreTypes DEF Core, Shaped
<1>3. \A m \in Lists : LIST_empty(m) <=> Content[m] = <<>>
  BY Reading DEF Core
<1>4. CASE LIST_empty(k)
  <2>1. UNCHANGED <<pointers, length, tainted>>
    BY <1>1, <1>4 DEF LIST_concatenateUnshiftDC, Concatenate, ConcatenateSC
  <2>2. Core' /\ Content' = Content
    BY <1>1, <1>2, <2>1, UnchangedStep
  <2>3. Content = c
    BY <1>1, <1>3, <1>4, ConcatenateNothing
  <2> QED
    BY <2>2, <2>3 DEF S!ConcatenateUnshift, Join
<1>5. CASE ~LIST_empty(k)
  <2>1. Merged(l, k)
    BY Zenon, <1>1, <1>5 DEF LIST_concatenateUnshiftDC, Concatenate, ConcatenateSC, Merged
  <2>2. Shape(c, next', prev', last', type')
    <3>1. CASE type # "SC"
      <4>1. /\ next' = [next EXCEPT ![prev[k]] = next[l], ![l] = next[k], ![k] = k]
            /\ prev' = [prev EXCEPT ![next[k]] = l, ![next[l]] = prev[k], ![k] = k]
            /\ last' = last
        BY <1>1, <1>5, <3>1 DEF LIST_concatenateUnshiftDC, Concatenate, LIST_concatenateUnshiftD
      <4>2. Shape(c, [next EXCEPT ![prev[k]] = next[l], ![l] = next[k], ![k] = k],
                  [prev EXCEPT ![next[k]] = l, ![next[l]] = prev[k], ![k] = k], last, type)
        BY <1>1, <1>2, <1>3, <1>5, <3>1, ConcatenateUnshiftShape
      <4> QED
        BY <1>1, <4>1, <4>2
    <3>2. CASE type = "SC"
      <4>1. /\ next' = [next EXCEPT ![last[k]] = next[l], ![l] = next[k], ![k] = k]
            /\ last' = [last EXCEPT ![l] = IF next[l] = l THEN next[k] ELSE last[l],
                                    ![k] = k]
            /\ prev' = prev
        BY Zenon, <1>1, <1>5, <3>2 DEF ConcatenateSC, LIST_concatenateUnshiftS, LIST_empty
      <4>2. Shape(c, [next EXCEPT ![last[k]] = next[l], ![l] = next[k], ![k] = k],
                  prev, [last EXCEPT ![l] = IF next[l] = l THEN next[k] ELSE last[l],
                                     ![k] = k], type)
        BY <1>1, <1>2, <1>3, <1>5, <3>2, ConcatenateUnshiftShapeS
      <4> QED
        BY <1>1, <4>1, <4>2
    <3> QED
      BY <3>1, <3>2
  <2>3. Core' /\ Content' = c
    BY <1>1, <1>2, <2>1, <2>2, ConcatenateStep
  <2> QED
    BY <2>3 DEF S!ConcatenateUnshift, Join
<1> QED
  BY <1>4, <1>5

LEMMA FromVectorStep ==
    ASSUME Core, NEW l \in Lists, NEW vector \in Vectors, LIST_fromVector(l, vector)
    PROVE  Core' /\ S!FromVector(l, vector)
<1> DEFINE c == [Content EXCEPT ![l] = vector]
<1>1. /\ Elements(vector) \subseteq Free /\ type' = type /\ loop' = loop
      /\ type # "SC" => LIST_fromVectorDC(l, vector)
      /\ type = "SC" => LIST_fromVectorSC(l, vector)
  BY DEF LIST_fromVector, Call, Single
<1>2. Shape(Content, next, prev, last, type) /\ loop'.on \in BOOLEAN
  BY <1>1, CoreTypes DEF Core, Shaped
<1>3. vector \in Seq(Links) /\ Simple(vector)
  BY LinksAndLists DEF Vectors, Simple
<1>4. \A m \in Lists : Elements(vector) \cap Elements(Content[m]) = {}
  BY <1>1, FreeLinks DEF Core, Unlinked
<1>5. Shape(c, next', prev', last', type')
  <2>1. CASE type # "SC"
    <3>1. /\ next' = VectorNext(next, l, vector) /\ prev' = VectorPrev(prev, l, vector)
          /\ last' = last
      BY Zenon, <1>1, <2>1 DEF LIST_fromVectorDC, LIST_fromVectorD, VectorNext, VectorPrev
    <3>2. Shape(c, VectorNext(next, l, vector), VectorPrev(prev, l, vector), last, type)
      BY <1>2, <1>3, <1>4, <2>1, VectorShape
    <3> QED
      BY <1>1, <3>1, <3>2
  <2>2. CASE type = "SC"
    <3>1. /\ next' = VectorNext(next, l, vector) /\ prev' = prev
          /\ last' = [last EXCEPT ![l] = Predecessor(l, vector, Len(vector) + 1)]
      BY Zenon, <1>1, <2>2 DEF LIST_fromVectorSC, VectorNext
    <3>2. Shape(c, VectorNext(next, l, vector), prev,
                [last EXCEPT ![l] = Predecessor(l, vector, Len(vector) + 1)], type)
      BY <1>2, <1>3, <1>4, <2>2, VectorShape
    <3> QED
      BY <1>1, <3>1, <3>2
  <2> QED
    BY <2>1, <2>2
<1>6. /\ length' = [length EXCEPT ![l] = Len(vector) % SizeMod]
      /\ \/ tainted' = [tainted EXCEPT ![l] = FALSE]
         \/ tainted' = tainted /\ type = "SC"
  BY Zenon, <1>1 DEF LIST_fromVectorDC, LIST_fromVectorSC
<1>7. Len(vector) \in Nat /\ Len(vector) < SizeMod
  BY <1>3, AtMostAll, ElementsOf, LinksAndLists
<1>8. length' = [length EXCEPT ![l] = Len(vector)]
  BY <1>6, <1>7, Wraps
<1>9. Len(vector) \in 0..(SizeMod - 1)
  BY <1>7, LinksAndLists
<1>10. /\ length' \in [Lists -> 0..(SizeMod - 1)]
       /\ tainted' \in [Lists -> BOOLEAN]
  BY <1>6, <1>8, <1>9, CoreTypes
<1>11. c[l] = vector /\ \A m \in Lists \ {l} : c[m] = Content[m]
  BY CoreTypes
<1> HIDE DEF c
<1>12. ASSUME NEW m \in Lists
       PROVE  /\ tainted'[m] => type = "coerced"
              /\ ~tainted'[m] => length'[m] = Len(c[m])
  BY <1>6, <1>8, <1>11, CoreTypes
<1>13. Core' /\ Content' = c
  BY <1>1, <1>2, <1>5, <1>10, <1>12, CoreStep
<1> QED
  BY <1>13 DEF S!FromVector, c

(* Where the links at the ends of a list are.                              *)
LEMMA PositionOfEnd ==
    ASSUME NEW s \in Seq(Links), Simple(s), s # <<>>, NEW a
    PROVE  /\ First(s, a) = s[1] /\ s[1] \in Elements(s) /\ Position(s, s[1]) = 1
           /\ Final(a, s) = s[Len(s)] /\ s[Len(s)] \in Elements(s)
           /\ Position(s, s[Len(s)]) = Len(s)
<1>1. 1 \in 1..Len(s) /\ Len(s) \in 1..Len(s)
  OBVIOUS
<1>2. ASSUME NEW n \in 1..Len(s) PROVE Position(s, s[n]) = n
  <2>1. Position(s, s[n]) \in 1..Len(s) /\ s[Position(s, s[n])] = s[n]
    BY DEF Position
  <2> QED
    BY <2>1 DEF Simple
<1> QED
  BY <1>1, <1>2, ElementsOf DEF First, Final

LEMMA ShiftStep ==
    ASSUME Core, NEW l \in Lists, LIST_shift(l)
    PROVE  Core' /\ S!Shift(l)
<1> DEFINE s == Content[l]
           x == s[1]
<1>1. /\ type' = type /\ loop' = loop
      /\ type # "SC" => LIST_unlinkDC(l, next[l])
      /\ type = "SC" => LIST_shiftSC(l)
  BY DEF LIST_shift, Call, Single
<1>2. Shape(Content, next, prev, last, type) /\ loop'.on \in BOOLEAN
  BY <1>1, CoreTypes DEF Core, Shaped
<1>3. /\ s \in Seq(Links) /\ Simple(s) /\ Members(l) = Elements(s)
      /\ next[l] = First(s, l) /\ (LIST_empty(l) <=> s = <<>>)
  BY Reading DEF Core
<1>4. CASE s = <<>>
  <2>1. Core' /\ Content' = Content
    <3>1. CASE type # "SC"
      <4>1. LIST_unlinkDC(l, l)
        BY <1>1, <1>3, <1>4, <3>1, NoLink
      <4> QED
        BY <1>1, <1>2, <1>4, <3>1, <4>1, UnlinkNothing
    <3>2. CASE type = "SC"
      <4>1. UNCHANGED <<pointers, length, tainted>>
        BY <1>1, <1>3, <1>4, <3>2 DEF LIST_shiftSC
      <4> QED
        BY <1>1, <1>2, <4>1, UnchangedStep
    <3> QED
      BY <3>1, <3>2
  <2> QED
    BY <1>4, <2>1 DEF S!Shift
<1>5. CASE s # <<>>
  <2>1. next[l] = x /\ x \in Members(l) /\ Position(s, x) = 1 /\ x \in Links
    BY <1>3, <1>5, PositionOfEnd, ElementsOf
  <2>2. CASE type # "SC"
    <3>1. Core' /\ S!Unlink(l, Position(s, x))
      BY <1>1, <1>2, <2>1, <2>2, UnlinkStep
    <3> QED
      BY <1>5, <2>1, <3>1 DEF S!Shift
  <2>3. CASE type = "SC"
    <3> DEFINE v == SubSeq(s, 2, Len(s))
    <3>1. /\ next' = [next EXCEPT ![l] = next[next[l]]] /\ prev' = prev
          /\ last' = [last EXCEPT ![l] = IF next[next[l]] = l THEN l ELSE last[l]]
          /\ length' = [length EXCEPT ![l] = (@ + SizeMod - 1) % SizeMod]
          /\ tainted' = tainted
      BY Zenon, <1>1, <1>3, <1>5, <2>3 DEF LIST_shiftSC, LIST_shiftS
    <3>2. /\ v \in Seq(Links) /\ SubSeq(s, 1, 0) = <<>>
          /\ s = Join(Join(<<>>, One(x)), v)
      <4> DEFINE i == Position(s, x)
      <4>1. /\ SubSeq(s, i + 1, Len(s)) \in Seq(Links)
            /\ s = Join(Join(SubSeq(s, 1, i - 1), One(x)), SubSeq(s, i + 1, Len(s)))
        BY <1>3, <2>1, SplitAt, ZenonT(60)
      <4>2. i - 1 = 0 /\ i + 1 = 2 /\ SubSeq(s, 1, 0) = <<>>
        BY <1>3, <2>1
      <4> HIDE DEF i
      <4> QED
        BY <4>1, <4>2
    <3>3. SplitBy(Content, l, <<>>, x, v)
      BY <2>1, <3>2, NoLink DEF SplitBy
    <3>4. Removed(l, 1) = [Content EXCEPT ![l] = v]
      <4>1. SubSeq(s, 1, 1 - 1) = <<>> /\ 1 + 1 = 2
        BY <3>2
      <4>2. Join(SubSeq(s, 1, 1 - 1), SubSeq(s, 1 + 1, Len(s))) = v
        BY <3>2, <4>1, JoinNothing
      <4> QED
        BY <4>2 DEF Removed
    <3> HIDE DEF v
    <3>5. Shape([Content EXCEPT ![l] = v], [next EXCEPT ![l] = next[next[l]]], prev,
                [last EXCEPT ![l] = IF next[next[l]] = l THEN l ELSE last[l]], type)
      BY <1>2, <2>3, <3>3, ShiftShape
    <3>6. Shape(Removed(l, 1), next', prev', last', type')
      BY <1>1, <3>1, <3>4, <3>5
    <3>7. Core' /\ S!Unlink(l, 1)
      BY <1>1, <1>2, <2>1, <3>1, <3>6, RemovedStep
    <3> QED
      BY <1>5, <3>7 DEF S!Shift
  <2> QED
    BY <2>2, <2>3
<1> QED
  BY <1>4, <1>5

LEMMA PopStep ==
    ASSUME Core, NEW l \in Lists, LIST_pop(l)
    PROVE  Core' /\ S!Pop(l)
<1> DEFINE s == Content[l]
           x == s[Len(s)]
<1>1. type' = type /\ loop' = loop /\ type # "SC" /\ LIST_unlinkDC(l, prev[l])
  BY DEF LIST_pop, Call, Single
<1>2. loop'.on \in BOOLEAN
  BY <1>1, CoreTypes
<1>3. /\ s \in Seq(Links) /\ Simple(s) /\ Members(l) = Elements(s)
      /\ prev[l] = Final(l, s)
  BY <1>1, Reading DEF Core, Double
<1>4. CASE s = <<>>
  <2>1. LIST_unlinkDC(l, l)
    BY <1>1, <1>3, <1>4, NoLink
  <2>2. Core' /\ Content' = Content
    BY <1>1, <1>2, <1>4, <2>1, UnlinkNothing
  <2> QED
    BY <1>4, <2>2 DEF S!Pop
<1>5. CASE s # <<>>
  <2>1. prev[l] = x /\ x \in Members(l) /\ Position(s, x) = Len(s)
    BY <1>3, <1>5, PositionOfEnd
  <2>2. LIST_unlinkDC(l, x)
    BY <1>1, <2>1
  <2> HIDE DEF x
  <2>3. Core' /\ S!Unlink(l, Position(s, x))
    BY <1>1, <1>2, <2>1, <2>2, UnlinkStep
  <2> QED
    BY <1>5, <2>1, <2>3 DEF S!Pop
<1> QED
  BY <1>4, <1>5

LEMMA UnlinkAction ==
    ASSUME Core, NEW l \in Lists, NEW x \in Links, LIST_unlink(l, x)
    PROVE  Core' /\ S!Unlink(l, At(l, x))
<1>1. /\ x \in Members(l) /\ type' = type /\ loop' = loop /\ type # "SC"
      /\ LIST_unlinkDC(l, x)
  BY DEF LIST_unlink, Call, Single
<1>2. loop'.on \in BOOLEAN /\ x # l
  BY <1>1, CoreTypes, LinksAndLists
<1>3. At(l, x) = Position(Content[l], x)
  BY <1>2 DEF At
<1> QED
  BY <1>1, <1>2, <1>3, UnlinkStep

LEMMA PushStep ==
    ASSUME Core, NEW l \in Lists, NEW x \in Links, LIST_push(l, x)
    PROVE  Core' /\ S!Push(l, x)
<1> DEFINE s == Content[l]
           i == Len(s) + 1
<1>1. /\ x \in Free /\ type' = type /\ loop' = loop
      /\ type # "SC" => LIST_insertDC(l, prev[l], x)
      /\ type = "SC" => CountedSC(l, LIST_pushS(l, x))
  BY DEF LIST_push, Call, Single
<1>2. Shape(Content, next, prev, last, type) /\ loop'.on \in BOOLEAN
  BY <1>1, CoreTypes DEF Core, Shaped
<1>3. s \in Seq(Links) /\ Len(s) \in Nat /\ (type # "SC" => prev[l] = Final(l, s))
  BY Reading DEF Core, Double
<1>4. i \in 1..(Len(s) + 1)
  BY <1>3
<1>5. SubSeq(s, 1, i - 1) = s /\ SubSeq(s, i, Len(s)) = <<>>
  BY <1>3, <1>4, CutAt
<1> HIDE DEF i
<1>6. CASE type # "SC"
  <2>1. prev[l] = Final(l, SubSeq(s, 1, i - 1)) /\ LIST_insertDC(l, prev[l], x)
    BY <1>1, <1>3, <1>5, <1>6
  <2>2. Core' /\ S!Insert(l, i, x)
    BY <1>1, <1>2, <1>4, <1>6, <2>1, InsertStep
  <2> QED
    BY <2>2 DEF S!Push, i
<1>7. CASE type = "SC"
  <2>1. /\ next' = [next EXCEPT ![x] = l, ![last[l]] = x] /\ prev' = prev
        /\ last' = [last EXCEPT ![l] = x]
        /\ length' = [length EXCEPT ![l] = (@ + 1) % SizeMod] /\ tainted' = tainted
    BY <1>1, <1>7 DEF CountedSC, LIST_pushS
  <2>2. Unlinked(x, Content)
    BY <1>1, FreeLinks DEF Core
  <2>3. Shape([Content EXCEPT ![l] = Join(Join(Content[l], One(x)), <<>>)],
              [next EXCEPT ![x] = l, ![last[l]] = x], prev, [last EXCEPT ![l] = x], type)
    BY <1>2, <1>7, <2>2, PushShape
  <2>4. Inserted(l, i, x) = [Content EXCEPT ![l] = Join(Join(Content[l], One(x)), <<>>)]
    BY <1>5 DEF Inserted
  <2>5. Shape(Inserted(l, i, x), next', prev', last', type')
    BY <1>1, <2>1, <2>3, <2>4
  <2>6. Core' /\ S!Insert(l, i, x)
    BY <1>1, <1>2, <1>4, <2>1, <2>5, InsertedStep
  <2> QED
    BY <2>6 DEF S!Push, i
<1> QED
  BY <1>6, <1>7

LEMMA UnshiftStep ==
    ASSUME Core, NEW l \in Lists, NEW x \in Links, LIST_unshift(l, x)
    PROVE  Core' /\ S!Unshift(l, x)
<1> DEFINE s == Content[l]
<1>1. /\ x \in Free /\ type' = type /\ loop' = loop
      /\ type # "SC" => LIST_insertDC(l, l, x)
      /\ type = "SC" => CountedSC(l, LIST_unshiftS(l, x))
  BY DEF LIST_unshift, Call, Single
<1>2. Shape(Content, next, prev, last, type) /\ loop'.on \in BOOLEAN
  BY <1>1, CoreTypes DEF Core, Shaped
<1>3. PICK i : i = 1
  OBVIOUS
<1>4. i \in 1..(Len(s) + 1)
  BY <1>3, Reading DEF Core
<1>5. SubSeq(s, 1, i - 1) = <<>> /\ SubSeq(s, i, Len(s)) = s
  BY <1>3, <1>4, Reading, CutAt DEF Core
<1>6. CASE type # "SC"
  <2>1. l = Final(l, SubSeq(s, 1, i - 1)) /\ LIST_insertDC(l, l, x)
    BY <1>1, <1>5, <1>6, NoLink
  <2>2. Core' /\ S!Insert(l, i, x)
    BY <1>1, <1>2, <1>4, <1>6, <2>1, InsertStep
  <2> QED
    BY <1>3, <2>2 DEF S!Unshift
<1>7. CASE type = "SC"
  <2>1. /\ next' = [next EXCEPT ![x] = next[l], ![l] = x] /\ prev' = prev
        /\ last' = [last EXCEPT ![l] = IF next[l] = l THEN x ELSE last[l]]
        /\ length' = [length EXCEPT ![l] = (@ + 1) % SizeMod] /\ tainted' = tainted
    BY Zenon, <1>1, <1>7 DEF CountedSC, LIST_unshiftS, LIST_empty
  <2>2. Unlinked(x, Content)
    BY <1>1, FreeLinks DEF Core
  <2>3. Shape([Content EXCEPT ![l] = Join(Join(<<>>, One(x)), Content[l])],
              [next EXCEPT ![x] = next[l], ![l] = x], prev,
              [last EXCEPT ![l] = IF next[l] = l THEN x ELSE last[l]], type)
    BY <1>2, <1>7, <2>2, UnshiftShape
  <2>4. Inserted(l, i, x) = [Content EXCEPT ![l] = Join(Join(<<>>, One(x)), Content[l])]
    BY <1>5 DEF Inserted
  <2>5. Shape(Inserted(l, i, x), next', prev', last', type')
    BY <1>1, <2>1, <2>3, <2>4
  <2>6. Core' /\ S!Insert(l, i, x)
    BY <1>1, <1>2, <1>4, <2>1, <2>5, InsertedStep
  <2> QED
    BY <1>3, <2>6 DEF S!Unshift
<1> QED
  BY <1>6, <1>7

LEMMA InsertAction ==
    ASSUME Core, NEW l \in Lists, NEW at \in Nodes, NEW x \in Links,
           LIST_insert(l, at, x)
    PROVE  Core' /\ S!Insert(l, At(l, at), x)
<1> DEFINE i == At(l, at)
<1>1. /\ x \in Free /\ at \in Members(l) \cup {l} /\ type' = type /\ loop' = loop
      /\ type # "SC" /\ LIST_insertDC(l, prev[at], x)
  BY DEF LIST_insert, Call, Single
<1>2. loop'.on \in BOOLEAN
  BY <1>1, CoreTypes
<1>3. i \in 1..(Len(Content[l]) + 1) /\ prev[at] = Final(l, SubSeq(Content[l], 1, i - 1))
  BY <1>1, Pivot DEF Core, Double
<1> HIDE DEF i
<1>4. Core' /\ S!Insert(l, i, x)
  BY <1>1, <1>2, <1>3, InsertStep
<1> QED
  BY <1>4 DEF i

LEMMA SeparateFromAction ==
    ASSUME Core, NEW l \in Lists, NEW k \in Lists, NEW p \in Nodes,
           LIST_separateFrom(l, k, p)
    PROVE  Core' /\ S!SeparateFrom(l, k, At(l, p))
<1>1. /\ k # l /\ p \in Members(l) \cup {l} /\ type' = type /\ loop' = loop
      /\ type # "SC" /\ LIST_separateFromDC(l, k, p, type = "DC")
  BY DEF LIST_separateFrom, Call, Single
<1>2. loop'.on \in BOOLEAN
  BY <1>1, CoreTypes
<1> QED
  BY <1>1, <1>2, SeparateFromStep

LEMMA SeparateUntilAction ==
    ASSUME Core, NEW l \in Lists, NEW k \in Lists, NEW p \in Nodes,
           LIST_separateUntil(l, k, p)
    PROVE  Core' /\ S!SeparateUntil(l, k, At(l, p))
<1>1. /\ k # l /\ p \in Members(l) \cup {l} /\ type' = type /\ loop' = loop
      /\ type # "SC" /\ LIST_separateUntilDC(l, k, p, type = "DC")
  BY DEF LIST_separateUntil, Call, Single
<1>2. loop'.on \in BOOLEAN
  BY <1>1, CoreTypes
<1> QED
  BY <1>1, <1>2, SeparateUntilStep

(* The steps of a loop: its body may take the iterator out of its list and *)
(* put it in front of another one.                                         *)
LEMMA LoopUnlinkStep ==
    ASSUME Core, loop.list \in Lists, LoopUnlink
    PROVE  Core' /\ S!Unlink(loop.list, At(loop.list, loop.link))
<1> DEFINE l == loop.list
           x == loop.link
<1>1. /\ x \in Members(l) /\ type' = type /\ loop' = loop /\ type # "SC"
      /\ LIST_unlinkDC(l, x)
  BY DEF LoopUnlink, Double
<1>2. loop'.on \in BOOLEAN /\ x # l
  BY <1>1, CoreTypes, Reading, ElementsOf, LinksAndLists DEF Core
<1>3. At(l, x) = Position(Content[l], x)
  BY <1>2 DEF At
<1> HIDE DEF l, x
<1>4. l \in Lists
  BY DEF l
<1>5. Core' /\ S!Unlink(l, Position(Content[l], x))
  BY <1>1, <1>2, <1>4, UnlinkStep
<1> QED
  BY <1>3, <1>5 DEF l, x

LEMMA LoopUnshiftStep ==
    ASSUME Core, NEW l \in Lists, LoopUnshift(l)
    PROVE  Core' /\ S!Unshift(l, loop.link)
<1> DEFINE x == loop.link
           s == Content[l]
<1>1. /\ x \in Free /\ type' = type /\ loop' = loop /\ type # "SC"
      /\ LIST_insertDC(l, l, x)
  BY DEF LoopUnshift, Double
<1>2. loop'.on \in BOOLEAN
  BY <1>1, CoreTypes
<1>3. PICK i : i = 1
  OBVIOUS
<1>4. i \in 1..(Len(s) + 1)
  BY <1>3, Reading DEF Core
<1>5. l = Final(l, SubSeq(s, 1, i - 1))
  <2>1. SubSeq(s, 1, i - 1) = <<>>
    BY <1>3, <1>4, Reading, CutAt DEF Core
  <2> QED
    BY <2>1, NoLink
<1> HIDE DEF x
<1>6. Core' /\ S!Insert(l, i, x)
  BY <1>1, <1>2, <1>4, <1>5, InsertStep
<1> QED
  BY <1>3, <1>6 DEF S!Unshift, x

-----------------------------------------------------------------------------
(* Loops.                                                                  *)

LoopRecord ==
    [on : {TRUE}, list : Lists, forward : BOOLEAN, link : Nodes, n : Nodes,
     todo : Seq(Links), visited : Seq(Links)]

(* The links t still follow the iterator x, whether it is in r or not.     *)
Followed(r, x, t) ==
    \E w \in Seq(Links) : \/ r = Join(Join(w, One(x)), t)
                          \/ r = Join(w, t) /\ x \notin Elements(r)

(* A loop that visits the ring r of list l is at x, and n is next.         *)
Underway(l, r, x, n, visited, todo) ==
    \/ x = l /\ visited = todo
    \/ /\ x \in Links
       /\ \E t \in Seq(Links) : /\ todo = Join(Join(visited, One(x)), t)
                                /\ n = First(t, l)
                                /\ Followed(r, x, t)

(* What a loop reads: the list in its direction, and the pointers.         *)
Ahead(c, l, forward) == IF forward THEN c[l] ELSE Reversed(c[l])
Along(forward) == IF forward THEN next ELSE prev

LoopInv ==
    loop.on => /\ loop \in LoopRecord
               /\ type = "SC" => loop.forward
               /\ Underway(loop.list, Ahead(Content, loop.list, loop.forward),
                           loop.link, loop.n, loop.visited, loop.todo)

LEMMA HeadFirst ==
    ASSUME NEW v \in Seq(Links), v # <<>>
    PROVE  /\ v[1] \in Links /\ Tail(v) \in Seq(Links)
           /\ v = Join(One(v[1]), Tail(v))
           /\ \A b : First(v, b) = v[1]
<1>1. v[1] \in Links /\ Tail(v) \in Seq(Links) /\ Len(v) \in Nat /\ Len(v) # 0
  OBVIOUS
<1>2. v = <<v[1]>> \o Tail(v)
  <2>1. Len(<<v[1]>> \o Tail(v)) = Len(v) /\ <<v[1]>> \o Tail(v) \in Seq(Links)
    BY <1>1
  <2>2. \A i \in 1..Len(v) : (<<v[1]>> \o Tail(v))[i] = v[i]
    BY <1>1
  <2> QED
    BY <2>1, <2>2, SeqEqual
<1> QED
  BY <1>1, <1>2 DEF Join, One, First

(* The iterator is at the links v, which end the ring: v is still to be    *)
(* visited.                                                                *)
LEMMA LoopAt ==
    ASSUME NEW l \in Lists, NEW f, NEW r \in Seq(Links), Path(f, l, r, l),
           NEW w \in Seq(Links), NEW v \in Seq(Links), r = Join(w, v),
           NEW visited \in Seq(Links)
    PROVE  Underway(l, r, First(v, l), f[First(v, l)], visited, Join(visited, v))
<1>1. CASE v = <<>>
  BY <1>1, NoLink, JoinNothing DEF Underway
<1>2. CASE v # <<>>
  <2> DEFINE y == v[1]
             t == Tail(v)
  <2>1. y \in Links /\ t \in Seq(Links) /\ v = Join(One(y), t) /\ First(v, l) = y
    BY <1>2, HeadFirst
  <2> HIDE DEF y, t
  <2>2. One(y) \in Seq(Links)
    BY <2>1, OneLink
  <2>3. /\ r = Join(Join(w, One(y)), t)
        /\ Join(visited, v) = Join(Join(visited, One(y)), t)
    BY <2>1, <2>2, JoinAssociates
  <2>4. Followed(r, y, t)
    BY <2>3 DEF Followed
  <2>5. f[y] = First(t, l)
    <3>1. Join(w, One(y)) \in Seq(Links) /\ Final(l, Join(w, One(y))) = y
      <4>1. Final(l, Join(w, One(y))) = Final(Final(l, w), One(y))
        BY <2>2, FinalJoin
      <4> QED
        BY <2>1, <2>2, <4>1, JoinElements, OneLink
    <3>2. Path(f, Final(l, Join(w, One(y))), t, l)
      BY <2>1, <2>3, <3>1, PathSplit
    <3> QED
      BY <2>1, <3>1, <3>2, PathEnds
  <2> QED
    BY <2>1, <2>3, <2>4, <2>5 DEF Underway
<1> QED
  BY <1>1, <1>2

LEMMA BackwardsContent ==
    ASSUME Shaped, type # "SC"
    PROVE  /\ \A l \in Lists : Ring(prev, l) = Reversed(Content[l])
           /\ Rings(prev, Backwards(Content))
<1>1. Proper(Backwards(Content)) /\ Rings(prev, Backwards(Content))
  BY ReverseProper DEF Shaped, Shape
<1>2. [l \in Lists |-> Ring(prev, l)] = Backwards(Content)
  BY <1>1, ContentIs
<1>3. \A l \in Lists : /\ [k \in Lists |-> Ring(prev, k)][l] = Ring(prev, l)
                       /\ Backwards(Content)[l] = Reversed(Content[l])
  BY DEF Backwards
<1> QED
  BY <1>1, <1>2, <1>3

LEMMA LoopReads ==
    ASSUME Shaped, NEW l \in Lists, NEW fw \in BOOLEAN, type = "SC" => fw,
           NEW r, r = Ahead(Content, l, fw)
    PROVE  /\ r \in Seq(Links) /\ Simple(r) /\ Elements(r) = Members(l)
           /\ Path(Along(fw), l, r, l) /\ Ring(Along(fw), l) = r
           /\ Along(fw) \in [Nodes -> Nodes]
<1>1. Content[l] \in Seq(Links) /\ Simple(Content[l]) /\ Members(l) = Elements(Content[l])
  BY Reading
<1>2. /\ next \in [Nodes -> Nodes] /\ prev \in [Nodes -> Nodes]
      /\ Path(next, l, Content[l], l) /\ Content[l] = Ring(next, l)
  BY DEF Shaped, Shape, Rings, Content
<1>3. CASE fw
  BY <1>1, <1>2, <1>3 DEF Ahead, Along
<1>4. CASE ~fw
  <2>1. Path(prev, l, Reversed(Content[l]), l) /\ Ring(prev, l) = Reversed(Content[l])
    <3>1. Backwards(Content)[l] = Reversed(Content[l])
      BY DEF Backwards
    <3> QED
      BY <1>4, <3>1, BackwardsContent DEF Rings
  <2> QED
    BY <1>1, <1>2, <1>4, <2>1, Reverse DEF Ahead, Along
<1> QED
  BY <1>3, <1>4

LEMMA ForeachStep ==
    ASSUME Core, NEW l \in Lists, NEW fw \in BOOLEAN, NEW from \in Nodes,
           LIST_foreach(l, fw, from)
    PROVE  Core' /\ UNCHANGED Content /\ LoopInv'
<1> DEFINE f == Along(fw)
           r == Ahead(Content, l, fw)
           todo == Links_from(l, f, from)
<1>1. /\ from \in Members(l) \cup {l} /\ (type = "SC" => fw)
      /\ loop' = [on |-> TRUE, list |-> l, forward |-> fw, link |-> f[from],
                  n |-> f[f[from]], todo |-> todo, visited |-> <<>>]
      /\ UNCHANGED <<pointers, length, tainted>> /\ type' = type
  BY DEF LIST_foreach, Along, Single
<1>2. /\ loop'.on = TRUE /\ loop'.list = l /\ loop'.forward = fw
      /\ loop'.link = f[from] /\ loop'.n = f[f[from]]
      /\ loop'.todo = todo /\ loop'.visited = <<>>
  BY <1>1
<1>3. Core' /\ Content' = Content
  BY <1>1, <1>2, UnchangedStep
<1>4. /\ r \in Seq(Links) /\ Simple(r) /\ Elements(r) = Members(l)
      /\ Path(f, l, r, l) /\ Ring(f, l) = r /\ f \in [Nodes -> Nodes]
  BY <1>1, LoopReads DEF Core
<1> HIDE DEF f, r
<1>5. \E w, v \in Seq(Links) : r = Join(w, v) /\ todo = v /\ f[from] = First(v, l)
  <2>1. CASE from = l
    <3>1. todo = r
      BY <1>4, <2>1 DEF Links_from
    <3>2. r = Join(<<>>, r) /\ <<>> \in Seq(Links)
      BY <1>4, JoinNothing, NoLink
    <3>3. f[from] = First(r, l)
      BY <1>4, <2>1, PathEnds
    <3> QED
      BY <1>4, <3>1, <3>2, <3>3
  <2>2. CASE from # l
    <3> DEFINE i == Position(r, from)
               u == SubSeq(r, 1, i - 1)
               v == SubSeq(r, i + 1, Len(r))
    <3>1. from \in Elements(r) /\ from \in Links
      BY <1>1, <1>4, <2>2, ElementsOf
    <3>2. u \in Seq(Links) /\ v \in Seq(Links) /\ r = Join(Join(u, One(from)), v)
      BY <1>4, <3>1, SplitAt
    <3>3. todo = v
      BY <1>4, <2>2 DEF Links_from
    <3> HIDE DEF u, v
    <3>4. Join(u, One(from)) \in Seq(Links) /\ One(from) \in Seq(Links)
      BY <3>1, <3>2, OneLink, JoinElements
    <3>5. Final(l, Join(u, One(from))) = from
      <4>1. Final(l, Join(u, One(from))) = Final(Final(l, u), One(from))
        BY <3>2, <3>4, FinalJoin
      <4> QED
        BY <3>1, <4>1, OneLink
    <3>6. Path(f, from, v, l)
      BY <1>4, <3>2, <3>4, <3>5, PathSplit
    <3>7. f[from] = First(v, l)
      BY <3>2, <3>6, PathEnds
    <3> QED
      BY <3>2, <3>3, <3>4, <3>7
  <2> QED
    BY <2>1, <2>2
<1>6. PICK w \in Seq(Links), v \in Seq(Links) :
          r = Join(w, v) /\ todo = v /\ f[from] = First(v, l)
  BY <1>5
<1>7. Underway(l, r, f[from], f[f[from]], <<>>, todo)
  <2>1. Underway(l, r, First(v, l), f[First(v, l)], <<>>, Join(<<>>, v))
    BY <1>4, <1>6, NoLink, LoopAt
  <2> QED
    BY <1>6, <2>1, JoinNothing
<1>8. loop' \in LoopRecord
  <2>1. f[from] \in Nodes /\ f[f[from]] \in Nodes /\ todo \in Seq(Links)
    BY <1>4, <1>6
  <2> HIDE DEF todo
  <2> QED
    BY <1>1, <2>1, NoLink DEF LoopRecord
<1>9. Ahead(Content', loop'.list, loop'.forward) = r
  BY <1>2, <1>3 DEF r
<1> HIDE DEF todo
<1>10. LoopInv'
  BY <1>1, <1>2, <1>7, <1>8, <1>9 DEF LoopInv
<1> QED
  BY <1>3, <1>10

LEMMA LoopNextStep ==
    ASSUME Core, LoopInv, LoopNext
    PROVE  Core' /\ UNCHANGED Content /\ LoopInv'
<1> DEFINE l == loop.list
           fw == loop.forward
           f == Along(fw)
           r == Ahead(Content, l, fw)
           x == loop.link
           visited == Append(loop.visited, x)
<1>1. /\ loop.on /\ x # l /\ UNCHANGED <<pointers, length, tainted>> /\ type' = type
      /\ loop' = [loop EXCEPT !.link = loop.n, !.n = f[loop.n], !.visited = visited]
  BY DEF LoopNext, Advance, Along
<1>2. /\ loop \in LoopRecord /\ (type = "SC" => fw)
      /\ Underway(l, r, x, loop.n, loop.visited, loop.todo)
  BY <1>1 DEF LoopInv
<1>3. /\ loop'.on = TRUE /\ loop'.list = l /\ loop'.forward = fw
      /\ loop'.link = loop.n /\ loop'.n = f[loop.n]
      /\ loop'.todo = loop.todo /\ loop'.visited = visited
  BY <1>1, <1>2 DEF LoopRecord
<1>4. Core' /\ Content' = Content
  BY <1>1, <1>3, UnchangedStep
<1>5. /\ l \in Lists /\ fw \in BOOLEAN /\ loop.n \in Nodes
      /\ loop.visited \in Seq(Links) /\ loop.todo \in Seq(Links)
  BY <1>2 DEF LoopRecord
<1>6. r \in Seq(Links) /\ Path(f, l, r, l) /\ f \in [Nodes -> Nodes]
  BY <1>2, <1>5, LoopReads DEF Core
<1> HIDE DEF f, r, l, x, fw
<1>7. x \in Links /\ \E t \in Seq(Links) :
          /\ loop.todo = Join(Join(loop.visited, One(x)), t)
          /\ loop.n = First(t, l) /\ Followed(r, x, t)
  BY <1>1, <1>2 DEF Underway
<1>8. PICK t \in Seq(Links) : /\ loop.todo = Join(Join(loop.visited, One(x)), t)
                              /\ loop.n = First(t, l) /\ Followed(r, x, t)
  BY <1>7
<1>9. One(x) \in Seq(Links) /\ visited = Join(loop.visited, One(x)) /\ visited \in Seq(Links)
  BY <1>5, <1>7, OneLink, JoinElements DEF Join, One
<1>10. \E w \in Seq(Links) : r = Join(w, t)
  <2>1. PICK w \in Seq(Links) : r = Join(Join(w, One(x)), t) \/ r = Join(w, t)
    BY <1>8 DEF Followed
  <2>2. Join(w, One(x)) \in Seq(Links)
    BY <1>9, JoinElements
  <2> QED
    BY <2>1, <2>2
<1>11. PICK w \in Seq(Links) : r = Join(w, t)
  BY <1>10
<1>12. Underway(l, r, loop.n, f[loop.n], visited, loop.todo)
  <2> HIDE DEF visited
  <2>1. Underway(l, r, First(t, l), f[First(t, l)], visited, Join(visited, t))
    BY <1>5, <1>6, <1>9, <1>11, LoopAt
  <2> QED
    BY <1>8, <1>9, <2>1
<1>13. loop' \in LoopRecord
  <2>1. f[loop.n] \in Nodes
    BY <1>5, <1>6
  <2> HIDE DEF visited
  <2> QED
    BY <1>1, <1>2, <1>5, <1>9, <2>1 DEF LoopRecord
<1>14. Ahead(Content', loop'.list, loop'.forward) = r
  BY <1>3, <1>4 DEF r
<1> HIDE DEF visited
<1>15. LoopInv'
  BY <1>1, <1>2, <1>3, <1>12, <1>13, <1>14 DEF LoopInv
<1> QED
  BY <1>4, <1>15

LEMMA RemovedPlace ==
    ASSUME NEW s \in Seq(Links), Simple(s), NEW u \in Seq(Links), NEW x \in Links,
           NEW v \in Seq(Links), s = Join(Join(u, One(x)), v)
    PROVE  /\ S!RemoveAt(s, Position(s, x)) = Join(u, v)
           /\ x \notin Elements(Join(u, v))
<1> DEFINE i == Len(u) + 1
<1>1. /\ Len(u) \in Nat /\ Len(v) \in Nat /\ Len(s) = Len(u) + 1 + Len(v)
      /\ \A j \in 1..Len(u) : s[j] = u[j]
      /\ s[i] = x
      /\ \A j \in 1..Len(v) : s[i + j] = v[j]
  BY DEF Join, One
<1>2. i \in 1..Len(s)
  BY <1>1
<1>3. Position(s, x) = i
  <2>1. Position(s, x) \in 1..Len(s) /\ s[Position(s, x)] = x
    BY <1>1, <1>2 DEF Position
  <2> QED
    BY <1>1, <1>2, <2>1 DEF Simple
<1>4. SubSeq(s, 1, i - 1) = u
  <2>1. i - 1 = Len(u) /\ SubSeq(s, 1, Len(u)) \in Seq(Links)
        /\ Len(SubSeq(s, 1, Len(u))) = Len(u)
    BY <1>1
  <2>2. \A j \in 1..Len(u) : SubSeq(s, 1, Len(u))[j] = u[j]
    BY <1>1
  <2> QED
    BY <2>1, <2>2, SeqEqual
<1>5. SubSeq(s, i + 1, Len(s)) = v
  <2>1. SubSeq(s, i + 1, Len(s)) \in Seq(Links) /\ Len(SubSeq(s, i + 1, Len(s))) = Len(v)
    BY <1>1
  <2>2. \A j \in 1..Len(v) : SubSeq(s, i + 1, Len(s))[j] = v[j]
    <3> TAKE j \in 1..Len(v)
    <3>1. SubSeq(s, i + 1, Len(s))[j] = s[i + 1 + j - 1] /\ i + 1 + j - 1 = i + j
      BY <1>1
    <3> QED
      BY <1>1, <3>1
  <2> QED
    BY <2>1, <2>2, SeqEqual
<1>6. ASSUME x \in Elements(Join(u, v)) PROVE FALSE
  <2>1. x \in Elements(u) \/ x \in Elements(v)
    BY <1>6, JoinElements
  <2>2. CASE x \in Elements(u)
    <3>1. PICK j \in 1..Len(u) : u[j] = x
      BY <2>2, ElementsOf
    <3> QED
      BY <1>1, <1>2, <3>1 DEF Simple
  <2>3. CASE x \in Elements(v)
    <3>1. PICK j \in 1..Len(v) : v[j] = x
      BY <2>3, ElementsOf
    <3>2. s[i + j] = s[i] /\ i + j \in 1..Len(s) /\ i + j # i
      BY <1>1, <1>2, <3>1
    <3> QED
      BY <1>2, <3>2 DEF Simple
  <2> QED
    BY <2>1, <2>2, <2>3
<1> QED
  BY <1>3, <1>4, <1>5, <1>6 DEF S!RemoveAt, Join

LEMMA LoopUnlinkKeeps ==
    ASSUME Core, LoopInv, LoopUnlink
    PROVE  LoopInv'
<1> DEFINE l == loop.list
           fw == loop.forward
           s == Content[l]
           r == Ahead(Content, l, fw)
           r2 == Ahead(Content', l, fw)
           x == loop.link
<1>1. loop.on /\ x \in Members(l) /\ type' = type /\ loop' = loop
  BY DEF LoopUnlink
<1>2. /\ loop \in LoopRecord /\ (type = "SC" => fw)
      /\ Underway(l, r, x, loop.n, loop.visited, loop.todo)
  BY <1>1 DEF LoopInv
<1>3. l \in Lists /\ fw \in BOOLEAN
  BY <1>2 DEF LoopRecord
<1>4. /\ s \in Seq(Links) /\ Simple(s) /\ Members(l) = Elements(s)
      /\ r \in Seq(Links) /\ Simple(r) /\ Members(l) = Elements(r) /\ x \in Links
  <2>1. s \in Seq(Links) /\ Simple(s) /\ Members(l) = Elements(s)
    BY <1>3, Reading DEF Core
  <2>2. r \in Seq(Links) /\ Simple(r) /\ Members(l) = Elements(r)
    BY <1>2, <1>3, LoopReads DEF Core
  <2> QED
    BY <1>1, <2>1, <2>2, ElementsOf
<1>5. Content' [l] = S!RemoveAt(s, Position(s, x))
  <2>1. S!Unlink(l, At(l, x))
    BY <1>3, LoopUnlinkStep
  <2>2. At(l, x) = Position(s, x)
    BY <1>3, <1>4, LinksAndLists DEF At
  <2> QED
    BY <1>3, <2>1, <2>2, CoreTypes DEF S!Unlink
<1>6. x # l
  BY <1>3, <1>4, LinksAndLists
<1>7. r = (IF fw THEN s ELSE Reversed(s)) /\ r2 = (IF fw THEN Content'[l] ELSE Reversed(Content'[l]))
  BY DEF Ahead
<1> HIDE DEF l, fw, s, r, r2, x
<1>8. PICK t \in Seq(Links) : /\ loop.todo = Join(Join(loop.visited, One(x)), t)
                              /\ loop.n = First(t, l) /\ Followed(r, x, t)
  BY <1>2, <1>6 DEF Underway
<1>9. PICK w \in Seq(Links) : r = Join(Join(w, One(x)), t)
  BY <1>1, <1>4, <1>8 DEF Followed
<1>10. r2 = Join(w, t) /\ x \notin Elements(Join(w, t))
  <2>1. S!RemoveAt(r, Position(r, x)) = Join(w, t) /\ x \notin Elements(Join(w, t))
    BY <1>4, <1>9, RemovedPlace
  <2>2. CASE fw
    BY <1>5, <1>7, <2>1, <2>2
  <2>3. CASE ~fw
    <3>1. Reversed(w) \in Seq(Links) /\ Reversed(t) \in Seq(Links)
      BY DEF Reversed
    <3>2. s = Join(Join(Reversed(t), One(x)), Reversed(w))
      <4>1. s = Reversed(r)
        BY <1>4, <1>7, <2>3, ReverseTwice
      <4> QED
        BY <1>4, <1>9, <3>1, <4>1, ReverseThree
    <3>3. S!RemoveAt(s, Position(s, x)) = Join(Reversed(t), Reversed(w))
      BY <1>4, <3>1, <3>2, RemovedPlace
    <3>4. Reversed(Join(Reversed(t), Reversed(w))) = Join(w, t)
      BY <3>1, ReverseJoin, ReverseTwice
    <3> QED
      BY <1>5, <1>7, <2>1, <2>3, <3>3, <3>4
  <2> QED
    BY <1>3, <2>2, <2>3
<1>11. Followed(r2, x, t)
  BY <1>10 DEF Followed
<1>12. Underway(l, r2, x, loop.n, loop.visited, loop.todo)
  BY <1>4, <1>8, <1>11 DEF Underway
<1> QED
  BY <1>1, <1>2, <1>12 DEF LoopInv, l, fw, r2, x

LEMMA LoopUnshiftKeeps ==
    ASSUME Core, LoopInv, NEW l \in Lists, LoopUnshift(l)
    PROVE  LoopInv'
<1>1. loop.on /\ type' = type /\ loop' = loop /\ l # loop.list
  BY DEF LoopUnshift
<1>2. loop.list \in Lists
  BY <1>1 DEF LoopInv, LoopRecord
<1>3. S!Unshift(l, loop.link)
  BY LoopUnshiftStep
<1>4. Content'[loop.list] = Content[loop.list]
  BY <1>1, <1>2, <1>3, CoreTypes DEF S!Unshift, S!Insert
<1>5. Ahead(Content', loop.list, loop.forward) = Ahead(Content, loop.list, loop.forward)
  BY <1>4 DEF Ahead
<1> QED
  BY <1>1, <1>5 DEF LoopInv

-----------------------------------------------------------------------------
(* The invariant.                                                          *)

Inv == Core /\ LoopInv

LEMMA Initially ==
    ASSUME Init PROVE Inv /\ S!Init
<1> DEFINE c == [l \in Lists |-> <<>>]
<1>1. Proper(c)
  BY NoLink DEF Proper
<1>2. Rings(next, c) /\ Rings(prev, Backwards(c))
  <2>1. \A l \in Lists : /\ c[l] = <<>> /\ Backwards(c)[l] = <<>>
                         /\ next[l] = l /\ prev[l] = l
    BY NoLink, LinksAndLists DEF Backwards, Init
  <2>2. \A l \in Lists : \A f : f[l] = l => Path(f, l, <<>>, l)
    BY NoLink DEF Path
  <2> HIDE DEF c
  <2> QED
    BY <2>1, <2>2 DEF Rings
<1>3. /\ next \in [Nodes -> Nodes] /\ prev \in [Nodes -> Nodes]
      /\ last \in [Lists -> Nodes] /\ \A l \in Lists : last[l] = Final(l, c[l])
  BY NoLink, LinksAndLists DEF Init
<1>4. Content = c
  BY <1>1, <1>2, ContentIs DEF Content
<1>5. Shaped
  BY <1>1, <1>2, <1>3, <1>4 DEF Shaped, Shape
<1>6. \A l \in Lists : length[l] = Len(Content[l]) /\ ~tainted[l]
  BY <1>4, NoLink DEF Init
<1>7. TypeOK
  <2>1. 0 \in 0..(SizeMod - 1)
    BY LinksAndLists
  <2> QED
    BY <1>3, <2>1 DEF Init, TypeOK, Idle
<1>8. LoopInv
  BY DEF LoopInv, Init, Idle
<1> QED
  BY <1>4, <1>5, <1>6, <1>7, <1>8 DEF Inv, Core, LengthValid, S!Init

(* No loop is executed: the operations are called one after the other.     *)
LEMMA NoLoop ==
    ASSUME ~loop.on, loop' = loop PROVE LoopInv'
  BY DEF LoopInv

LEMMA Inductive ==
    ASSUME PrependToEmpty = FALSE, Inv, Next
    PROVE  Inv' /\ ImplementsStep
<1> USE DEF Inv
<1>1. ASSUME NEW l \in Lists, LIST_init(l) PROVE Inv' /\ ImplementsStep
  <2>1. LoopInv'
    BY <1>1, NoLoop DEF LIST_init, Call
  <2> QED
    BY <1>1, <2>1, InitStep DEF ImplementsStep
<1>2. ASSUME NEW l \in Lists, LIST_length(l) PROVE Inv' /\ ImplementsStep
  <2>1. LoopInv'
    BY <1>2, NoLoop DEF LIST_length
  <2> QED
    BY <1>2, <2>1, LengthStep DEF ImplementsStep
<1>3. ASSUME NEW l \in Lists, LIST_shift(l) PROVE Inv' /\ ImplementsStep
  <2>1. LoopInv'
    BY <1>3, NoLoop DEF LIST_shift, Call
  <2> QED
    BY <1>3, <2>1, ShiftStep DEF ImplementsStep
<1>4. ASSUME NEW l \in Lists, LIST_pop(l) PROVE Inv' /\ ImplementsStep
  <2>1. LoopInv'
    BY <1>4, NoLoop DEF LIST_pop, Call
  <2> QED
    BY <1>4, <2>1, PopStep DEF ImplementsStep
<1>5. ASSUME NEW l \in Lists, NEW x \in Links, LIST_unlink(l, x)
      PROVE  Inv' /\ ImplementsStep
  <2>1. LoopInv'
    BY <1>5, NoLoop DEF LIST_unlink, Call
  <2> QED
    BY <1>5, <2>1, UnlinkAction DEF ImplementsStep
<1>6. ASSUME NEW l \in Lists, NEW x \in Links, LIST_push(l, x)
      PROVE  Inv' /\ ImplementsStep
  <2>1. LoopInv'
    BY <1>6, NoLoop DEF LIST_push, Call
  <2> QED
    BY <1>6, <2>1, PushStep DEF ImplementsStep
<1>7. ASSUME NEW l \in Lists, NEW x \in Links, LIST_unshift(l, x)
      PROVE  Inv' /\ ImplementsStep
  <2>1. LoopInv'
    BY <1>7, NoLoop DEF LIST_unshift, Call
  <2> QED
    BY <1>7, <2>1, UnshiftStep DEF ImplementsStep
<1>8. ASSUME NEW l \in Lists, NEW at \in Nodes, NEW x \in Links, LIST_insert(l, at, x)
      PROVE  Inv' /\ ImplementsStep
  <2>1. LoopInv'
    BY <1>8, NoLoop DEF LIST_insert, Call
  <2> QED
    BY <1>8, <2>1, InsertAction DEF ImplementsStep
<1>9. ASSUME NEW l \in Lists, NEW k \in Lists, NEW p \in Nodes,
             LIST_separateFrom(l, k, p)
      PROVE  Inv' /\ ImplementsStep
  <2>1. LoopInv'
    BY <1>9, NoLoop DEF LIST_separateFrom, Call
  <2> QED
    BY <1>9, <2>1, SeparateFromAction DEF ImplementsStep
<1>10. ASSUME NEW l \in Lists, NEW k \in Lists, NEW p \in Nodes,
              LIST_separateUntil(l, k, p)
       PROVE  Inv' /\ ImplementsStep
  <2>1. LoopInv'
    BY <1>10, NoLoop DEF LIST_separateUntil, Call
  <2> QED
    BY <1>10, <2>1, SeparateUntilAction DEF ImplementsStep
<1>11. ASSUME NEW l \in Lists, NEW k \in Lists, LIST_concatenatePush(l, k)
       PROVE  Inv' /\ ImplementsStep
  <2>1. LoopInv'
    BY <1>11, NoLoop DEF LIST_concatenatePush, Call
  <2> QED
    BY <1>11, <2>1, ConcatenatePushStep DEF ImplementsStep
<1>12. ASSUME NEW l \in Lists, NEW k \in Lists, LIST_concatenateUnshift(l, k)
       PROVE  Inv' /\ ImplementsStep
  <2>1. LoopInv'
    BY <1>12, NoLoop DEF LIST_concatenateUnshift, Call
  <2> QED
    BY <1>12, <2>1, ConcatenateUnshiftStep DEF ImplementsStep
<1>13. ASSUME NEW l \in Lists, NEW vector \in Vectors, LIST_fromVector(l, vector)
       PROVE  Inv' /\ ImplementsStep
  <2>1. LoopInv'
    BY <1>13, NoLoop DEF LIST_fromVector, Call
  <2> QED
    BY <1>13, <2>1, FromVectorStep DEF ImplementsStep
<1>14. ASSUME NEW l \in Lists, NEW fw \in BOOLEAN, NEW from \in Nodes,
              LIST_foreach(l, fw, from)
       PROVE  Inv' /\ ImplementsStep
  BY <1>14, ForeachStep DEF ImplementsStep
<1>15. ASSUME LoopUnlink PROVE Inv' /\ ImplementsStep
  <2>1. loop.list \in Lists
    BY <1>15 DEF LoopUnlink, LoopInv, LoopRecord
  <2> QED
    BY <1>15, <2>1, LoopUnlinkStep, LoopUnlinkKeeps DEF ImplementsStep
<1>16. ASSUME NEW l \in Lists, LoopUnshift(l) PROVE Inv' /\ ImplementsStep
  BY <1>16, LoopUnshiftStep, LoopUnshiftKeeps DEF ImplementsStep
<1>17. ASSUME LoopNext PROVE Inv' /\ ImplementsStep
  BY <1>17, LoopNextStep DEF ImplementsStep
<1>18. ASSUME LoopEnd PROVE Inv' /\ ImplementsStep
  <2>1. /\ loop'.on = FALSE /\ UNCHANGED <<pointers, length, tainted>> /\ type' = type
    BY <1>18 DEF LoopEnd, Idle
  <2>2. Core' /\ Content' = Content
    BY <2>1, UnchangedStep
  <2> QED
    BY <2>1, <2>2 DEF ImplementsStep, LoopInv
<1> QED
  BY Zenon, <1>1, <1>2, <1>3, <1>4, <1>5, <1>6, <1>7, <1>8, <1>9, <1>10, <1>11,
     <1>12, <1>13, <1>14, <1>15, <1>16, <1>17, <1>18 DEF Next

LEMMA Stutter ==
    ASSUME Inv, UNCHANGED vars PROVE Inv'
<1>1. /\ UNCHANGED <<pointers, length, tainted>> /\ type' = type /\ loop' = loop
      /\ loop'.on \in BOOLEAN
  BY CoreTypes DEF vars, pointers, Inv
<1>2. Core' /\ Content' = Content
  BY <1>1, UnchangedStep DEF Inv
<1> QED
  BY <1>1, <1>2 DEF Inv, LoopInv

LEMMA InvHolds ==
    ASSUME PrependToEmpty = FALSE
    PROVE  Spec => []Inv
<1>1. Init => Inv
  BY Initially
<1>2. Inv /\ [Next]_vars => Inv'
  BY Inductive, Stutter
<1> QED
  BY <1>1, <1>2, PTL DEF Spec

-----------------------------------------------------------------------------
(* The theorems.  All of them leave out the one call that breaks a list:   *)
(* prepending to an empty single linked list (PrependToEmpty).             *)

(* Whatever is called, every list stays a ring through its anchor, in both *)
(* directions or with a tail pointer to its last link, and no link is in   *)
(* two places.                                                             *)
THEOREM ListRingsIntact ==
    ASSUME PrependToEmpty = FALSE
    PROVE  Spec => []RingsIntact
<1>1. Inv => RingsIntact
  <2> SUFFICES ASSUME Inv PROVE RingsIntact
    OBVIOUS
  <2>1. TypeOK /\ Shaped /\ Proper(Content)
    BY DEF Inv, Core, Shaped, Shape
  <2>2. ASSUME NEW l \in Lists
        PROVE  LET s == Content[l]
                   n == Len(s)
               IN  /\ n <= Cardinality(Links)
                   /\ Double => /\ Len(Ring(prev, l)) = n
                                /\ \A i \in 1..n : Ring(prev, l)[i] = s[n + 1 - i]
                   /\ Single => last[l] = (IF n = 0 THEN l ELSE s[n])
                   /\ \A i, j \in 1..n : s[i] = s[j] => i = j
    <3> DEFINE s == Content[l]
               n == Len(s)
    <3>1. s \in Seq(Links) /\ Simple(s) /\ n \in Nat /\ n <= Cardinality(Links)
      BY <2>1, Reading
    <3>2. ASSUME Double PROVE Len(Ring(prev, l)) = n
                              /\ \A i \in 1..n : Ring(prev, l)[i] = s[n + 1 - i]
      <4>1. Ring(prev, l) = Reversed(s)
        BY <2>1, <3>2, BackwardsContent DEF Double
      <4>2. Len(Reversed(s)) = n /\ \A i \in 1..n : Reversed(s)[i] = s[n + 1 - i]
        BY <3>1 DEF Reversed
      <4> QED
        BY <4>1, <4>2
    <3>3. ASSUME Single PROVE last[l] = IF n = 0 THEN l ELSE s[n]
      <4>1. last[l] = Final(l, s)
        BY <2>1, <3>3 DEF Single, Shaped, Shape
      <4>2. n = 0 <=> s = <<>>
        BY <3>1
      <4> QED
        BY <4>1, <4>2 DEF Final
    <3> QED
      BY <3>1, <3>2, <3>3 DEF Simple
  <2>3. ASSUME NEW l \in Lists, NEW m \in Lists, l # m
        PROVE  Members(l) \cap Members(m) = {}
    <3>1. Members(l) = Elements(Content[l]) /\ Members(m) = Elements(Content[m])
      BY <2>1, Reading
    <3> QED
      BY <2>1, <2>3, <3>1 DEF Proper
  <2> QED
    BY <2>1, <2>2, <2>3 DEF RingsIntact
<1> QED
  BY <1>1, InvHolds, PTL

(* The counter of a list that is not tainted is the number of its links,   *)
(* and only lists of a build without _Generic are ever tainted.            *)
THEOREM ListLengthValid ==
    ASSUME PrependToEmpty = FALSE
    PROVE  Spec => []LengthValid
<1>1. Inv => LengthValid
  BY DEF Inv, Core
<1> QED
  BY <1>1, InvHolds, PTL

(* A loop in either direction visits every link its list had when it       *)
(* began, once and in order, though its body unlinks or moves some.        *)
THEOREM ListLoopVisitsAll ==
    ASSUME PrependToEmpty = FALSE
    PROVE  Spec => []LoopVisitsAll
<1>1. Inv => LoopVisitsAll
  <2> SUFFICES ASSUME Inv, loop.on
               PROVE  /\ Len(loop.visited) <= Len(loop.todo)
                      /\ \A i \in 1..Len(loop.visited) :
                            loop.visited[i] = loop.todo[i]
                      /\ loop.link = loop.list <=>
                            Len(loop.visited) = Len(loop.todo)
    BY DEF LoopVisitsAll
  <2> DEFINE u == loop.visited
             x == loop.link
             l == loop.list
  <2>1. u \in Seq(Links) /\ l \in Lists /\ Len(u) \in Nat
    BY DEF Inv, LoopInv, LoopRecord
  <2>2. \/ x = l /\ u = loop.todo
        \/ x \in Links /\ \E t \in Seq(Links) : loop.todo = Join(Join(u, One(x)), t)
    BY DEF Inv, LoopInv, Underway
  <2>3. CASE x = l /\ u = loop.todo
    BY <2>1, <2>3
  <2>4. CASE x \in Links /\ \E t \in Seq(Links) : loop.todo = Join(Join(u, One(x)), t)
    <3>1. PICK t \in Seq(Links) : loop.todo = Join(Join(u, One(x)), t)
      BY <2>4
    <3>2. x # l
      BY <2>1, <2>4, LinksAndLists
    <3> HIDE DEF u, x, l
    <3>3. /\ Len(Join(Join(u, One(x)), t)) = Len(u) + 1 + Len(t) /\ Len(t) \in Nat
          /\ \A i \in 1..Len(u) : Join(Join(u, One(x)), t)[i] = u[i]
      BY <2>1, <2>4 DEF Join, One
    <3>4. /\ Len(u) <= Len(loop.todo) /\ Len(u) # Len(loop.todo)
          /\ \A i \in 1..Len(u) : loop.todo[i] = u[i]
      BY <2>1, <3>1, <3>3
    <3> QED
      BY <3>2, <3>4 DEF u, x, l
  <2> QED
    BY <2>2, <2>3, <2>4
<1> QED
  BY <1>1, InvHolds, PTL

(* Every operation of the lists is the operation of ListSpec on sequences. *)
THEOREM ListImplementsSequences ==
    ASSUME PrependToEmpty = FALSE
    PROVE  Spec => ImplementsSequences
<1>1. Init => S!Init
  BY Initially
<1>2. Inv /\ [Next]_vars => [ImplementsStep]_vars
  BY Inductive
<1> QED
  BY <1>1, <1>2, InvHolds, PTL DEF Spec, ImplementsSequences
=============================================================================
