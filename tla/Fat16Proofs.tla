---------------------------- MODULE Fat16Proofs -----------------------------
(***************************************************************************)
(* For volumes of any size, whatever calls fail half way and whichever     *)
(* writes to the table are lost: the links of the allocation table go      *)
(* upwards, so that the loops that follow a chain, which have no other     *)
(* bound, end.  And as long as no call fails half way, entries and chains  *)
(* belong together, those of entries that an end mark hides included: a    *)
(* chain is the least set of clusters that contains its start and is       *)
(* closed under the links, so a call that changes the links of one chain   *)
(* changes no other.  From this, what is written to a file is what is read *)
(* from it, and what a hidden file held is what it has when it comes back: *)
(* the driver implements FileStore.                                        *)
(***************************************************************************)
EXTENDS Fat16, FiniteSetTheorems, WellFoundedInduction, TLAPS

USE FatAssumption

Table == [Clusters -> {0, EOC} \union Clusters]
Ascending(f) == \A c \in Clusters : f[c] \in Clusters => f[c] > c

\* The inductive invariant: the table is one, and its links ascend.
IInv == fat \in Table /\ Ascending(fat)

\* A nonempty set of numbers has a lowest one, which Least finds.
LEMMA LeastIn ==
  ASSUME NEW S \in SUBSET Nat, S # {}
  PROVE  Least(S) \in S /\ \A y \in S : Least(S) <= y
<1> HIDE DEF FatAssumption
<1> DEFINE R == {ss \in Nat \X Nat : ss[1] < ss[2]}
<1>1. IsWellFoundedOn(R, Nat)
  BY NatLessThanWellFounded, Zenon DEF OpToRel
<1>2. PICK x \in S : \A y \in S : ~(<<y, x>> \in R)
  <2> HIDE DEF R
  <2> QED BY <1>1, WFMin
<1>3. \A y \in S : ~(y < x)
  BY <1>2
<1>4. \A y \in S : x <= y
  BY <1>3
<1> QED BY <1>4 DEF Least

LEMMA LeastCluster ==
  ASSUME NEW T \in SUBSET Clusters, T # {}
  PROVE  Least(T) \in T
<1>1. T \in SUBSET Nat
  BY DEF Clusters
<1> QED BY <1>1, LeastIn

\* free_chain only clears entries.
LEMMA FreeChainAscends ==
  ASSUME NEW f \in Table, Ascending(f), NEW s
  PROVE  free_chain(f, s) \in Table /\ Ascending(free_chain(f, s))
<1>1. \A c \in Clusters : free_chain(f, s)[c] \in {0, f[c]}
  BY DEF free_chain
<1>2. 0 \notin Clusters
  BY DEF Clusters
<1>3. free_chain(f, s) \in Table
  BY DEF free_chain, Table
<1> HIDE DEF FatAssumption
<1>4. QED
  BY <1>1, <1>2, <1>3 DEF Ascending

\* allocate_chain links each cluster it has found to a higher one.
LEMMA NextAscends ==
  ASSUME NEW T \in SUBSET Clusters, NEW c \in Clusters
  PROVE  NextIn(T, c) = EOC \/ (NextIn(T, c) \in Clusters /\ NextIn(T, c) > c)
<1> DEFINE S == {d \in T : d > c}
<1>1. CASE S = {}
  BY <1>1 DEF NextIn
<1>2. CASE S # {}
  <2>1. Least(S) \in S
    BY <1>2, LeastCluster
  <2>2. NextIn(T, c) = Least(S)
    BY <1>2 DEF NextIn
  <2>3. QED
    BY <2>1, <2>2
<1>3. QED
  BY <1>1, <1>2

LEMMA LinkedAscends ==
  ASSUME NEW f \in Table, Ascending(f), NEW T \in SUBSET Clusters
  PROVE  Linked(f, T) \in Table /\ Ascending(Linked(f, T))
<1>1. EOC \notin Clusters
  BY DEF EOC, Clusters
<1>2. ASSUME NEW c \in Clusters
      PROVE  /\ Linked(f, T)[c] \in {0, EOC} \union Clusters
             /\ Linked(f, T)[c] \in Clusters => Linked(f, T)[c] > c
  <2>1. CASE c \in T
    BY <1>1, <2>1, NextAscends DEF Linked
  <2>2. CASE c \notin T
    BY <2>2 DEF Linked, Table, Ascending
  <2>3. QED
    BY <2>1, <2>2
<1>3. Linked(f, T) = [c \in Clusters |-> Linked(f, T)[c]]
  BY DEF Linked
<1>4. QED
  BY <1>2, <1>3 DEF Table, Ascending

LEMMA FreedAscends ==
  ASSUME IInv, NEW p \in Paths
  PROVE  Freed(p) \in Table /\ Ascending(Freed(p))
BY FreeChainAscends DEF Freed, IInv

LEMMA WriteAscends ==
  ASSUME IInv, NEW p \in Paths, NEW b \in Contents, write_file(p, b)
  PROVE  IInv'
<1> DEFINE T == FirstFree(Freed(p), need(Len(b)))
<1>1. T \in SUBSET Clusters
  BY DEF FirstFree, FreeIn
<1>2. fat' = Freed(p) \/ fat' = Linked(Freed(p), T)
  BY DEF write_file, WriteEmpty, WriteSucceeds, WriteAllocFails, WriteDataFails
<1> HIDE DEF T
<1>3. fat' \in Table /\ Ascending(fat')
  BY <1>1, <1>2, FreedAscends, LinkedAscends
<1>4. QED
  BY <1>3 DEF IInv, Ascending

\* Entries that are not written keep links that ascend.
LEMMA PartlyFreedAscends ==
  ASSUME NEW f \in Table, Ascending(f), NEW s, NEW g \in PartlyFreed(f, s)
  PROVE  g \in Table /\ Ascending(g)
<1>1. PICK F \in SUBSET Chain(f, s) :
        g = [c \in Clusters |-> IF c \in F THEN 0 ELSE f[c]]
  BY DEF PartlyFreed
<1>2. 0 \notin Clusters
  BY DEF Clusters
<1> HIDE DEF FatAssumption
<1>3. QED
  BY <1>1, <1>2 DEF Table, Ascending

LEMMA PartlyLinkedAscends ==
  ASSUME NEW f \in Table, Ascending(f), NEW T \in SUBSET Clusters, NEW W
  PROVE  PartlyLinked(f, T, W) \in Table /\ Ascending(PartlyLinked(f, T, W))
<1>1. Linked(f, T) \in Table /\ Ascending(Linked(f, T))
  BY LinkedAscends
<1> HIDE DEF FatAssumption
<1>2. QED
  BY <1>1 DEF PartlyLinked, Table, Ascending

LEMMA UnnoticedAscends ==
  ASSUME IInv, NEW p \in Paths, Unnoticed(p)
  PROVE  IInv'
<1>1. fat \in Table /\ Ascending(fat)
  BY DEF IInv
<1>2. SUFFICES fat' \in Table /\ Ascending(fat')
  BY DEF IInv, Ascending
<1>3. CASE CreateUnnoticed(p)
  BY <1>1, <1>3, PartlyFreedAscends DEF CreateUnnoticed
<1>4. ASSUME NEW b \in Contents, WriteUnnoticed(p, b)
      PROVE  fat' \in Table /\ Ascending(fat')
  <2>1. PICK f \in FreedSomehow(p) :
          \/ fat' = f
          \/ \E T \in SUBSET FreeIn(f) : \E W \in SUBSET T :
               fat' = PartlyLinked(f, T, W)
    BY <1>4 DEF WriteUnnoticed
  <2>2. f \in Table /\ Ascending(f)
    BY <1>1, PartlyFreedAscends DEF FreedSomehow
  <2>3. FreeIn(f) \subseteq Clusters
    BY DEF FreeIn
  <2>4. QED
    BY <2>1, <2>2, <2>3, PartlyLinkedAscends
<1>5. QED
  BY <1>3, <1>4 DEF Unnoticed

LEMMA NextAscending ==
  ASSUME IInv, [Next]_vars
  PROVE  IInv'
<1>1. ASSUME NEW p \in Paths, create_file(p) PROVE IInv'
  <2>1. \/ fat' = free_chain(fat, dir[EntryOf(p)].start)
        \/ fat' = fat
    BY <1>1 DEF create_file
  <2>2. fat' \in Table /\ Ascending(fat')
    BY <2>1, FreeChainAscends DEF IInv
  <2>3. QED
    BY <2>2 DEF IInv, Ascending
<1>2. CASE UNCHANGED vars
  BY <1>2 DEF vars, IInv, Ascending
<1>3. QED
  BY <1>1, <1>2, WriteAscends, UnnoticedAscends DEF Next

LEMMA InitAscending == Init => IInv
<1>1. 0 \notin Clusters
  BY DEF Clusters
<1>2. QED
  BY <1>1 DEF Init, IInv, Table, Ascending

\* Whatever was written, truncated or left half done, and whichever entries
\* could not be written, every link of the allocation table leads to a higher
\* cluster: free_chain, fat16_read_file
\* and the loop of fat16_write_file come to the end of every chain.
THEOREM LinksAlwaysAscend == Spec => []LinksAscend
<1>1. IInv /\ [Next]_vars => IInv'
  BY NextAscending
<1>2. IInv => LinksAscend
  BY DEF IInv, Ascending, LinksAscend
<1>3. QED
  BY <1>1, <1>2, InitAscending, PTL DEF Spec


-----------------------------------------------------------------------------
(* Chains.                                                                 *)

HIDE FatAssumption

LEMMA Sizes ==
  /\ TotalClusters \in Nat \ {0} /\ RootEntries \in Nat \ {0} /\ ClusterBytes \in Nat \ {0}
  /\ CountMod \in Nat \ {0, 1}
  BY FatAssumption

LEMMA ClusterNumbers ==
  /\ Clusters \in SUBSET Nat /\ 0 \notin Clusters /\ EOC \notin Clusters /\ EOC # 0
  /\ IsFiniteSet(Clusters) /\ EOC \in Nat /\ \A c \in Clusters : c < EOC
<1>1. TotalClusters + 1 \in Int /\ 2 \in Int
  BY Sizes
<1>2. IsFiniteSet(2..(TotalClusters + 1))
  BY <1>1, FS_Interval
<1> QED BY <1>2, Sizes DEF Clusters, EOC

\* What holds of 0, and of i + 1 if it holds of i, holds up to n.
LEMMA UpToInduction ==
  ASSUME NEW n \in Nat, NEW S, 0 \in S,
         \A i \in 0..(n - 1) : i \in S => i + 1 \in S
  PROVE  \A i \in 0..n : i \in S
<1> DEFINE D == {i \in 0..n : i \notin S}
<1> SUFFICES ASSUME D # {} PROVE FALSE
  OBVIOUS
<1>1. D \in SUBSET Nat
  OBVIOUS
<1>2. PICK m \in D : \A y \in D : m <= y
  <2> HIDE DEF D
  <2> QED BY <1>1, LeastIn
<1>3. m \in 1..n /\ m \notin S
  BY <1>2
<1>4. m - 1 \in 0..(n - 1) /\ (m - 1) + 1 = m
  BY <1>3
<1>5. m - 1 \in S
  BY <1>2, <1>4
<1> QED BY <1>3, <1>4, <1>5

\* A nonempty set of clusters has a highest one.
LEMMA GreatestCluster ==
  ASSUME NEW S \in SUBSET Clusters, S # {}
  PROVE  \E x \in S : \A y \in S : y <= x
<1> DEFINE U == {m \in Nat : \A y \in S : y <= m}
<1>1. S \in SUBSET Nat /\ \A y \in S : y <= EOC
  BY ClusterNumbers
<1>2. PICK m \in U : \A y \in U : m <= y
  <2>1. U \in SUBSET Nat /\ U # {}
    BY <1>1, ClusterNumbers
  <2> HIDE DEF U
  <2> QED BY <2>1, LeastIn
<1>3. m \in S
  <2> SUFFICES ASSUME m \notin S PROVE FALSE
    OBVIOUS
  <2>1. \A y \in S : y \in Nat /\ y < m
    BY <1>1
  <2>2. m - 1 \in Nat /\ \A y \in S : y <= m - 1
    BY <2>1
  <2>3. m - 1 \in U
    BY <2>2
  <2> QED BY <1>2, <2>3
<1> QED BY <1>3

\* One more step along the links.
More(f, S) == S \union ({f[c] : c \in S} \intersect Clusters)

\* u[k]: the clusters of the chain from s within k steps.
Steps(f, s, n, u) ==
  /\ u \in [0..n -> SUBSET Clusters]
  /\ u[0] = {s} \intersect Clusters
  /\ \A k \in 1..n : u[k] = More(f, u[k - 1])

\* Chain computes them.
LEMMA ChainSteps ==
  ASSUME NEW f, NEW s
  PROVE  \E u : Steps(f, s, TotalClusters, u) /\ Chain(f, s) = u[TotalClusters]
<1> DEFINE N == TotalClusters
           Eq(h) == h = [k \in 0..N |-> IF k = 0 THEN {s} \intersect Clusters
                                        ELSE More(f, h[k - 1])]
           u == CHOOSE h : Eq(h)
           T == {m \in 0..N : \E h : Steps(f, s, m, h)}
<1>1. N \in Nat
  BY Sizes
<1>2. 0 \in T
  <2> DEFINE h == [k \in 0..0 |-> {s} \intersect Clusters]
  <2>1. Steps(f, s, 0, h)
    BY DEF Steps
  <2>2. 0 \in 0..N
    BY <1>1
  <2> HIDE DEF h
  <2> QED BY <2>1, <2>2
<1>3. ASSUME NEW m \in 0..(N - 1), m \in T PROVE m + 1 \in T
  <2>1. PICK h : Steps(f, s, m, h)
    BY <1>3
  <2> DEFINE g == [k \in 0..(m + 1) |-> IF k <= m THEN h[k] ELSE More(f, h[m])]
  <2>2. m \in Nat /\ m + 1 \in 0..N /\ m \in 0..m
    BY <1>1
  <2>3. h \in [0..m -> SUBSET Clusters] /\ h[0] = {s} \intersect Clusters
        /\ \A k \in 1..m : h[k] = More(f, h[k - 1])
    BY <2>1 DEF Steps
  <2>4. h[m] \in SUBSET Clusters /\ More(f, h[m]) \in SUBSET Clusters
    BY <2>2, <2>3 DEF More
  <2>5. g \in [0..(m + 1) -> SUBSET Clusters]
    <3>1. \A k \in 0..(m + 1) : k <= m => k \in 0..m
      BY <2>2
    <3> QED BY <2>3, <2>4, <3>1
  <2>6. g[0] = {s} \intersect Clusters
    BY <2>2, <2>3
  <2>7. ASSUME NEW k \in 1..(m + 1) PROVE g[k] = More(f, g[k - 1])
    <3>1. CASE k = m + 1
      <4>1. k - 1 = m /\ ~(k <= m) /\ m \in 0..(m + 1) /\ m <= m /\ k \in 0..(m + 1)
        BY <2>2, <3>1
      <4>2. g[k] = More(f, h[m]) /\ g[m] = h[m]
        BY <4>1
      <4> QED BY <4>1, <4>2
    <3>2. CASE k # m + 1
      <4>1. k \in 1..m /\ k <= m /\ k - 1 <= m /\ k \in 0..(m + 1) /\ k - 1 \in 0..(m + 1)
        BY <2>2, <3>2
      <4>2. g[k] = h[k] /\ g[k - 1] = h[k - 1]
        BY <4>1
      <4> QED BY <2>3, <4>1, <4>2
    <3> QED BY <3>1, <3>2
  <2> HIDE DEF g
  <2>8. Steps(f, s, m + 1, g)
    BY <2>5, <2>6, <2>7 DEF Steps
  <2> QED BY <2>2, <2>8
<1>4. \A m \in 0..N : m \in T
  <2> HIDE DEF T, N
  <2> QED BY <1>1, <1>2, <1>3, UpToInduction
<1>5. PICK h : Steps(f, s, N, h)
  <2>1. N \in T
    <3> HIDE DEF T, N
    <3> QED BY <1>1, <1>4
  <2> QED BY <2>1
<1>6. Eq(h)
  <2>1. ASSUME NEW k \in 0..N
        PROVE  h[k] = IF k = 0 THEN {s} \intersect Clusters ELSE More(f, h[k - 1])
    <3>1. k # 0 => k \in 1..N
      BY <1>1
    <3> QED BY <1>5, <3>1 DEF Steps
  <2> QED BY <1>5, <2>1 DEF Steps
<1>7. Eq(u)
  <2> HIDE DEF Eq
  <2> QED BY <1>6, Zenon
<1>8. Chain(f, s) = u[N]
  BY DEF Chain, More
<1> HIDE DEF u
<1>9. /\ DOMAIN u = 0..N /\ u = [k \in 0..N |-> u[k]]
      /\ \A k \in 0..N : u[k] = IF k = 0 THEN {s} \intersect Clusters ELSE More(f, u[k - 1])
  BY <1>7
<1>10. u[0] = {s} \intersect Clusters /\ \A k \in 1..N : u[k] = More(f, u[k - 1])
  <2>1. 0 \in 0..N /\ \A k \in 1..N : k \in 0..N /\ k # 0
    BY <1>1
  <2> QED BY <1>9, <2>1
<1>11. \A k \in 0..N : u[k] \in SUBSET Clusters
  <2> DEFINE S == {k \in 0..N : u[k] \in SUBSET Clusters}
  <2>1. 0 \in S
    BY <1>1, <1>10
  <2>2. ASSUME NEW k \in 0..(N - 1), k \in S PROVE k + 1 \in S
    <3>1. k + 1 \in 1..N /\ k + 1 \in 0..N /\ (k + 1) - 1 = k
      BY <1>1
    <3>2. u[k + 1] = More(f, u[k])
      BY <1>10, <3>1
    <3> QED BY <2>2, <3>1, <3>2 DEF More
  <2>3. \A k \in 0..N : k \in S
    <3> HIDE DEF S, N
    <3> QED BY <1>1, <2>1, <2>2, UpToInduction
  <2> QED BY <2>3
<1>12. Steps(f, s, N, u)
  BY <1>9, <1>10, <1>11 DEF Steps
<1> QED BY <1>8, <1>12

Closed(f, S) == \A c \in S : f[c] \in Clusters => f[c] \in S

\* With links that ascend, TotalClusters steps come to the end of the chain:
\* Chain(f, s) is the least set of clusters that has s and what it links to.
LEMMA ChainIs ==
  ASSUME NEW f, Ascending(f), NEW s
  PROVE  /\ Chain(f, s) \in SUBSET Clusters /\ (s \in Clusters => s \in Chain(f, s))
         /\ Closed(f, Chain(f, s))
         /\ \A S : (s \in Clusters => s \in S) /\ Closed(f, S) => Chain(f, s) \subseteq S
<1> DEFINE N == TotalClusters
<1>1. PICK u : Steps(f, s, N, u) /\ Chain(f, s) = u[N]
  BY ChainSteps
<1>2. N \in Nat /\ N >= 1 /\ \A c \in Clusters : c \in 2..(N + 1)
  BY Sizes DEF Clusters
<1>3. /\ u \in [0..N -> SUBSET Clusters] /\ u[0] = {s} \intersect Clusters
      /\ \A k \in 0..(N - 1) : u[k + 1] = More(f, u[k])
  <2>1. \A k \in 0..(N - 1) : k + 1 \in 1..N /\ (k + 1) - 1 = k
    BY <1>2
  <2> QED BY <1>1, <2>1 DEF Steps
<1> HIDE DEF N
<1>4. \A k \in 0..N : s \in Clusters => s \in u[k]
  <2> DEFINE S == {k \in 0..N : s \in Clusters => s \in u[k]}
  <2>1. 0 \in S
    BY <1>2, <1>3
  <2>2. ASSUME NEW k \in 0..(N - 1), k \in S PROVE k + 1 \in S
    <3>1. k + 1 \in 0..N
      BY <1>2
    <3> QED BY <1>3, <2>2, <3>1 DEF More
  <2>3. \A k \in 0..N : k \in S
    <3> HIDE DEF S
    <3> QED BY <1>2, <2>1, <2>2, UpToInduction
  <2> QED BY <2>3
<1>5. ASSUME NEW S, s \in Clusters => s \in S, Closed(f, S) PROVE u[N] \subseteq S
  <2> DEFINE D == {k \in 0..N : u[k] \subseteq S}
  <2>1. 0 \in D
    BY <1>2, <1>3, <1>5
  <2>2. ASSUME NEW k \in 0..(N - 1), k \in D PROVE k + 1 \in D
    <3>1. k + 1 \in 0..N /\ u[k] \subseteq S /\ u[k + 1] = More(f, u[k])
      BY <1>2, <1>3, <2>2
    <3>2. u[k + 1] \subseteq S
      BY <1>5, <3>1 DEF More, Closed
    <3> QED BY <3>1, <3>2
  <2>3. \A k \in 0..N : k \in D
    <3> HIDE DEF D
    <3> QED BY <1>2, <2>1, <2>2, UpToInduction
  <2>4. N \in 0..N
    BY <1>2
  <2> QED BY <2>3, <2>4
<1>6. \A k \in 0..(N - 1) : \A c \in u[k + 1] : c \notin u[k] => c >= k + 3
  <2> DEFINE S == {k \in 0..(N - 1) : \A c \in u[k + 1] : c \notin u[k] => c >= k + 3}
  <2>1. 0 \in S
    <3>1. 0 \in 0..(N - 1) /\ 0 + 1 = 1 /\ 0 \in 0..N /\ 1 \in 0..N
      BY <1>2
    <3>2. u[1] = More(f, u[0])
      BY <1>3, <3>1
    <3>3. ASSUME NEW c \in u[1], c \notin u[0] PROVE c >= 3
      <4>1. PICK d \in u[0] : c = f[d] /\ c \in Clusters
        BY <3>2, <3>3 DEF More
      <4>2. d \in Clusters /\ c > d
        BY <1>3, <3>1, <4>1 DEF Ascending
      <4> QED BY <1>2, <4>1, <4>2
    <3> QED BY <3>1, <3>3
  <2>2. ASSUME NEW k \in 0..((N - 1) - 1), k \in S PROVE k + 1 \in S
    <3>1. /\ k \in 0..(N - 1) /\ k + 1 \in 0..(N - 1) /\ k + 1 \in 0..N
          /\ (k + 1) + 1 \in 0..N /\ k \in 0..N
      BY <1>2
    <3>2. u[(k + 1) + 1] = More(f, u[k + 1]) /\ u[k + 1] = More(f, u[k])
      BY <1>3, <3>1
    <3>3. ASSUME NEW c \in u[(k + 1) + 1], c \notin u[k + 1] PROVE c >= (k + 1) + 3
      <4>1. PICK d \in u[k + 1] : c = f[d] /\ c \in Clusters
        BY <3>2, <3>3 DEF More
      <4>2. d \notin u[k]
        BY <3>2, <3>3, <4>1 DEF More
      <4>3. d >= k + 3
        BY <2>2, <4>1, <4>2
      <4>4. d \in Clusters /\ c > d
        BY <1>3, <3>1, <4>1 DEF Ascending
      <4> QED BY <1>2, <4>1, <4>3, <4>4
    <3> QED BY <3>1, <3>3
  <2>3. \A k \in 0..(N - 1) : k \in S
    <3>1. N - 1 \in Nat
      BY <1>2
    <3> HIDE DEF S
    <3> QED BY <2>1, <2>2, <3>1, UpToInduction
  <2> QED BY <2>3
<1>7. Closed(f, u[N])
  <2> SUFFICES ASSUME NEW c \in u[N], f[c] \in Clusters PROVE f[c] \in u[N]
    BY DEF Closed
  <2>1. N - 1 \in 0..(N - 1) /\ (N - 1) + 1 = N /\ (N - 1) + 3 = N + 2 /\ N \in 0..N
    BY <1>2
  <2>2. u[N] = More(f, u[N - 1])
    BY <1>3, <2>1
  <2>3. c \notin u[N - 1] => c >= N + 2
    BY <1>6, <2>1
  <2>4. c \in Clusters
    BY <1>3, <2>1
  <2>5. c \in u[N - 1]
    BY <1>2, <2>3, <2>4
  <2> QED BY <2>2, <2>5 DEF More
<1>8. u[N] \in SUBSET Clusters /\ (s \in Clusters => s \in u[N])
  <2>1. N \in 0..N
    BY <1>2
  <2> QED BY <1>3, <1>4, <2>1
<1> QED BY <1>1, <1>5, <1>7, <1>8

LEMMA NoChain ==
  ASSUME NEW f, Ascending(f)
  PROVE  Chain(f, 0) = {}
<1>1. Closed(f, {})
  BY DEF Closed
<1>2. 0 \in Clusters => 0 \in {}
  BY ClusterNumbers
<1>3. Chain(f, 0) \subseteq {}
  BY <1>1, <1>2, ChainIs
<1> QED BY <1>3

\* A chain stays as it is if none of its links changes.
LEMMA SameChain ==
  ASSUME NEW f, Ascending(f), NEW g, Ascending(g), NEW s, \A c \in Chain(f, s) : g[c] = f[c]
  PROVE  Chain(g, s) = Chain(f, s)
<1>1. Closed(f, Chain(f, s)) /\ (s \in Clusters => s \in Chain(f, s))
  BY ChainIs
<1>2. Closed(g, Chain(f, s))
  BY <1>1 DEF Closed
<1>3. Chain(g, s) \subseteq Chain(f, s)
  BY <1>1, <1>2, ChainIs
<1>4. Closed(g, Chain(g, s)) /\ (s \in Clusters => s \in Chain(g, s))
  BY ChainIs
<1>5. Closed(f, Chain(g, s))
  BY <1>3, <1>4 DEF Closed
<1>6. Chain(f, s) \subseteq Chain(g, s)
  BY <1>4, <1>5, ChainIs
<1> QED BY <1>3, <1>6

\* What allocate_chain has linked is a chain from the lowest cluster.
LEMMA LinkedChain ==
  ASSUME NEW f, NEW T \in SUBSET Clusters, T # {}, Ascending(Linked(f, T))
  PROVE  Chain(Linked(f, T), Least(T)) = T
<1> DEFINE g == Linked(f, T)
           C == Chain(g, Least(T))
<1>1. \A c \in T : g[c] = NextIn(T, c)
  BY DEF Linked
<1>2. Least(T) \in T /\ (\A y \in T : Least(T) <= y) /\ T \in SUBSET Nat
  BY ClusterNumbers, LeastIn
<1>3. Ascending(g)
  OBVIOUS
<1> HIDE DEF g
<1>4. C \in SUBSET Clusters /\ Least(T) \in C /\ Closed(g, C)
      /\ \A S : (Least(T) \in Clusters => Least(T) \in S) /\ Closed(g, S) => C \subseteq S
  BY <1>2, <1>3, ChainIs
<1> HIDE DEF C
<1>5. Closed(g, T)
  <2> SUFFICES ASSUME NEW c \in T, g[c] \in Clusters PROVE g[c] \in T
    BY DEF Closed
  <2> DEFINE S == {d \in T : d > c}
  <2>1. g[c] = IF S = {} THEN EOC ELSE Least(S)
    BY <1>1 DEF NextIn
  <2>2. S # {}
    BY <2>1, ClusterNumbers
  <2>3. S \in SUBSET Nat
    BY <1>2
  <2>4. Least(S) \in S
    <3> HIDE DEF S
    <3> QED BY <2>2, <2>3, LeastIn
  <2> QED BY <2>1, <2>2, <2>4
<1>6. C \subseteq T
  BY <1>2, <1>4, <1>5
<1>7. T \subseteq C
  <2> DEFINE D == T \ C
  <2> SUFFICES ASSUME D # {} PROVE FALSE
    OBVIOUS
  <2>1. PICK x \in D : \A y \in D : x <= y
    <3>1. D \in SUBSET Nat
      BY <1>2
    <3> HIDE DEF D
    <3> QED BY <3>1, LeastIn
  <2> DEFINE P == {d \in T : d < x}
  <2>2. x \in T /\ x \notin C /\ x \in Nat /\ x # Least(T)
    BY <1>2, <1>4, <2>1
  <2>3. P \in SUBSET Clusters /\ Least(T) \in P
    <3>1. Least(T) \in T /\ Least(T) \in Nat /\ Least(T) <= x
      BY <1>2, <2>2
    <3>2. Least(T) < x
      BY <2>2, <3>1
    <3> QED BY <3>1, <3>2
  <2>4. PICK d \in P : \A y \in P : y <= d
    <3> HIDE DEF P
    <3> QED BY <2>3, GreatestCluster
  <2>5. d \in T /\ d < x /\ d \in Nat /\ d \in C
    BY <1>2, <2>1, <2>2, <2>4
  <2> DEFINE S == {e \in T : e > d}
  <2>6. x \in S /\ \A y \in S : x <= y
    BY <1>2, <2>2, <2>4, <2>5
  <2>7. S \in SUBSET Nat /\ S # {}
    BY <1>2, <2>6
  <2>8. Least(S) \in S /\ \A y \in S : Least(S) <= y
    <3> HIDE DEF S
    <3> QED BY <2>7, LeastIn
  <2>9. Least(S) = x
    BY <2>2, <2>6, <2>7, <2>8
  <2>10. g[d] = x
    BY <1>1, <2>5, <2>7, <2>9 DEF NextIn
  <2>11. x \in Clusters
    BY <2>2
  <2> QED BY <1>4, <2>2, <2>5, <2>10, <2>11 DEF Closed
<1>8. C = T
  BY <1>6, <1>7
<1> QED BY <1>8 DEF C, g

-----------------------------------------------------------------------------
(* Counting clusters.                                                      *)

LEMMA Finite ==
  ASSUME NEW S \in SUBSET Clusters
  PROVE  IsFiniteSet(S) /\ Cardinality(S) \in Nat
<1>1. IsFiniteSet(S)
  BY ClusterNumbers, FS_Subset
<1> QED BY <1>1, FS_CardinalityType

\* The place of a cluster in a set grows with the cluster.
LEMMA Ranks ==
  ASSUME NEW S \in SUBSET Clusters, NEW c \in S
  PROVE  /\ Cardinality(Upto(S, c)) \in Nat /\ Cardinality(Upto(S, c)) >= 1
         /\ \A d \in S : c < d => Cardinality(Upto(S, c)) < Cardinality(Upto(S, d))
<1>1. \A d \in S : d \in Nat /\ d <= d
  BY ClusterNumbers
<1>2. \A d \in S : Upto(S, d) \in SUBSET Clusters /\ d \in Upto(S, d)
  BY <1>1 DEF Upto
<1>3. \A d \in S : IsFiniteSet(Upto(S, d)) /\ Cardinality(Upto(S, d)) \in Nat
  BY <1>2, Finite
<1>4. Cardinality(Upto(S, c)) # 0
  <2>1. Upto(S, c) # {}
    BY <1>2
  <2> QED BY <1>3, <2>1, FS_EmptySet
<1>5. ASSUME NEW d \in S, c < d PROVE Cardinality(Upto(S, c)) < Cardinality(Upto(S, d))
  <2>1. Upto(S, c) \in SUBSET Upto(S, d) /\ d \notin Upto(S, c)
    BY <1>1, <1>5 DEF Upto
  <2>2. Upto(S, c) # Upto(S, d)
    BY <1>2, <2>1
  <2>3. /\ Cardinality(Upto(S, c)) <= Cardinality(Upto(S, d))
        /\ Cardinality(Upto(S, c)) # Cardinality(Upto(S, d))
    BY <1>3, <2>1, <2>2, FS_Subset
  <2> QED BY <1>3, <2>3
<1>6. Cardinality(Upto(S, c)) \in Nat /\ Cardinality(Upto(S, c)) >= 1
  BY <1>3, <1>4
<1> QED BY <1>5, <1>6

Lowest(S, n) == {c \in S : Cardinality(Upto(S, c)) <= n}

\* There are n lowest clusters.
LEMMA LowestCount ==
  ASSUME NEW S \in SUBSET Clusters, NEW n \in Nat, Cardinality(S) >= n
  PROVE  Cardinality(Lowest(S, n)) = n
<1> DEFINE A(k) == Lowest(S, k)
           D == {k \in 0..n : Cardinality(A(k)) = k}
<1>1. \A k : A(k) \in SUBSET S /\ A(k) \in SUBSET Clusters
  BY DEF Lowest
<1>2. 0 \in D
  <2>1. A(0) = {}
    BY Ranks DEF Lowest
  <2>2. 0 \in 0..n
    OBVIOUS
  <2> QED BY <2>1, <2>2, FS_EmptySet
<1>3. ASSUME NEW k \in 0..(n - 1), k \in D PROVE k + 1 \in D
  <2>1. Cardinality(A(k)) = k /\ IsFiniteSet(A(k)) /\ Cardinality(S) \in Nat
    BY <1>1, <1>3, Finite
  <2> DEFINE R == S \ A(k)
  <2>2. R # {}
    <3> SUFFICES ASSUME R = {} PROVE FALSE
      OBVIOUS
    <3>1. S = A(k)
      BY <1>1
    <3> QED BY <2>1, <3>1
  <2>3. PICK m \in R : \A y \in R : m <= y
    <3>1. R \in SUBSET Nat
      BY ClusterNumbers
    <3> HIDE DEF R
    <3> QED BY <2>2, <3>1, LeastIn
  <2>4. m \in S /\ m \notin A(k) /\ m \in Nat /\ \A c \in S : c \in Nat
    BY <2>3, ClusterNumbers
  <2>5. \A c \in S : /\ Cardinality(Upto(S, c)) \in Nat
                     /\ c < m => Cardinality(Upto(S, c)) < Cardinality(Upto(S, m))
                     /\ m < c => Cardinality(Upto(S, m)) < Cardinality(Upto(S, c))
    BY <2>4, Ranks
  <2>6. Upto(S, m) = A(k) \union {m}
    <3>1. ASSUME NEW c \in Upto(S, m) PROVE c \in A(k) \union {m}
      <4>1. c \in S /\ c <= m /\ c \in Nat
        BY <2>4 DEF Upto
      <4>2. c \notin A(k) => m <= c
        BY <2>3, <4>1
      <4> QED BY <2>4, <4>1, <4>2
    <3>2. ASSUME NEW c \in A(k) PROVE c \in Upto(S, m)
      <4>1. c \in S /\ Cardinality(Upto(S, c)) <= k
        BY DEF Lowest
      <4>2. ~(Cardinality(Upto(S, m)) <= k)
        BY <2>4 DEF Lowest
      <4>3. ~(m < c)
        BY <2>4, <2>5, <4>1, <4>2
      <4> QED BY <2>4, <4>1, <4>3 DEF Upto
    <3>3. m \in Upto(S, m)
      BY <2>4 DEF Upto
    <3> QED BY <3>1, <3>2, <3>3
  <2>7. Cardinality(A(k) \union {m}) = k + 1
    BY <2>1, <2>4, FS_AddElement
  <2>8. Cardinality(Upto(S, m)) = k + 1
    BY <2>6, <2>7
  <2>9. A(k + 1) = A(k) \union {m}
    <3>1. ASSUME NEW c \in A(k + 1), c \notin A(k) PROVE c = m
      <4>1. c \in S /\ Cardinality(Upto(S, c)) <= k + 1 /\ c \in Nat
        BY <2>4 DEF Lowest
      <4>2. m <= c
        BY <2>3, <3>1, <4>1
      <4>3. ~(m < c)
        BY <2>5, <2>8, <4>1
      <4> QED BY <2>4, <4>1, <4>2, <4>3
    <3>2. m \in A(k + 1)
      BY <2>4, <2>8 DEF Lowest
    <3>3. ASSUME NEW c \in A(k) PROVE c \in A(k + 1)
      <4>1. c \in S /\ Cardinality(Upto(S, c)) <= k
        BY DEF Lowest
      <4>2. Cardinality(Upto(S, c)) <= k + 1
        BY <2>5, <4>1
      <4> QED BY <4>1, <4>2 DEF Lowest
    <3> HIDE DEF A
    <3> QED BY <3>1, <3>2, <3>3
  <2>10. k + 1 \in 0..n
    OBVIOUS
  <2> QED BY <2>7, <2>9, <2>10
<1>4. \A k \in 0..n : k \in D
  <2> HIDE DEF D
  <2> QED BY <1>2, <1>3, UpToInduction
<1>5. n \in 0..n
  OBVIOUS
<1> QED BY <1>4, <1>5

\* allocate_chain finds as many clusters as it needs, if there are enough.
LEMMA FirstFreeCount ==
  ASSUME NEW f, NEW n \in Nat, Cardinality(FreeIn(f)) >= n
  PROVE  /\ FirstFree(f, n) \in SUBSET FreeIn(f) /\ FirstFree(f, n) \in SUBSET Clusters
         /\ Cardinality(FirstFree(f, n)) = n
<1>1. FreeIn(f) \in SUBSET Clusters /\ FirstFree(f, n) = Lowest(FreeIn(f), n)
  BY DEF FreeIn, FirstFree, Lowest
<1>2. Lowest(FreeIn(f), n) \in SUBSET FreeIn(f)
  BY DEF Lowest
<1> QED BY <1>1, <1>2, LowestCount

LEMMA ClustersNat ==
  ASSUME NEW l \in Nat
  PROVE  ClustersFor(l) \in Nat /\ (l = 0 => ClustersFor(l) = 0) /\ (l > 0 => ClustersFor(l) > 0)
<1> DEFINE B == ClusterBytes
<1>1. B \in Nat \ {0}
  BY Sizes
<1>2. ClustersFor(l) = (l + B - 1) \div B
  BY DEF ClustersFor
<1> HIDE DEF B
<1>3. l + B - 1 \in Nat
  BY <1>1
<1>4. ASSUME NEW x \in Nat
      PROVE  x \div B \in Nat /\ (x < B => x \div B = 0) /\ (x >= B => x \div B # 0)
  <2>1. x \div B \in Nat /\ (x % B) \in 0..(B - 1) /\ x = (x \div B) * B + (x % B)
    BY <1>1
  <2> DEFINE q == x \div B
             r == x % B
  <2>2. q \in Nat /\ r \in 0..(B - 1) /\ x = q * B + r
    BY <2>1
  <2> HIDE DEF q, r
  <2>3. ASSUME q # 0 PROVE x >= B
    <3>1. PICK d \in Nat : q = d + 1
      BY <2>2, <2>3
    <3>2. q * B = d * B + B /\ d * B \in Nat
      BY <1>1, <3>1
    <3> QED BY <1>1, <2>2, <3>2
  <2>4. ASSUME q = 0 PROVE x < B
    BY <1>1, <2>2, <2>4
  <2> QED BY <1>1, <2>2, <2>3, <2>4 DEF q
<1>5. l = 0 => l + B - 1 < B
  BY <1>1
<1>6. l > 0 => l + B - 1 >= B
  BY <1>1
<1> QED BY <1>2, <1>3, <1>4, <1>5, <1>6

\* need is what ClustersFor gives, if it fits into a uint16_t.
LEMMA NeedNat ==
  ASSUME NEW l \in Nat, l > 0
  PROVE  /\ need(l) \in Nat /\ need(l) > 0 /\ need(l) \in 1..(CountMod - 1)
         /\ ClustersFor(l) < CountMod => need(l) = ClustersFor(l)
<1> DEFINE n == ClustersFor(l)
           k == n % CountMod
<1>1. n \in Nat /\ n > 0 /\ CountMod \in Nat /\ CountMod >= 2
  BY ClustersNat, Sizes
<1>2. need(l) = IF k = 0 THEN 1 ELSE k
  BY DEF need
<1> HIDE DEF n
<1>3. k \in 0..(CountMod - 1) /\ (n < CountMod => k = n)
  BY <1>1
<1> HIDE DEF k
<1> QED BY <1>1, <1>2, <1>3 DEF n

\* The clusters a file of l bytes owns.
Owned(l) == IF l = 0 THEN 0 ELSE need(l)

LEMMA OwnedIs ==
  ASSUME NEW l \in Nat
  PROVE  /\ Owned(l) \in Nat /\ Owned(0) = 0 /\ (l > 0 => Owned(l) = need(l))
         /\ IF ClustersFor(l) < CountMod THEN Owned(l) = ClustersFor(l)
            ELSE Owned(l) \in 1..(CountMod - 1)
  BY ClustersNat, NeedNat, Sizes DEF Owned

-----------------------------------------------------------------------------
(* The directory.                                                          *)

\* No file is hidden behind an end mark, and none is entered twice.
NamesOK(d) ==
  /\ Entered(d) \subseteq Seen(d)
  /\ \A i, j \in Entered(d) : d[i].name = d[j].name => i = j

\* A place of the directory that can be written: one in front of the end mark,
\* or that of the end mark.
Writable(d, k) ==
  /\ k \in Slots
  /\ k \in Seen(d) \/ \A j \in Slots : j < k => j \in Seen(d)

LEMMA SlotNumbers == Slots \in SUBSET Nat /\ \A i \in Slots : i \in 1..i /\ 1..i \subseteq Slots
  BY Sizes DEF Slots

\* A name of a file is no mark.
LEMMA NoMark ==
  ASSUME NEW e, e.name \in ShortNames
  PROVE  e # EndMark /\ e # Deleted
<1>1. EndMark.name = "end" /\ Deleted.name = "deleted"
  BY DEF EndMark, Deleted
<1>2. "end" \notin ShortNames /\ "deleted" \notin ShortNames
  BY FatAssumption
<1> QED BY <1>1, <1>2

LEMMA SeenIs ==
  ASSUME NEW d
  PROVE  /\ Seen(d) \subseteq Slots /\ Entered(d) \subseteq Slots
         /\ \A i \in Seen(d) : d[i] # EndMark
         /\ \A i \in Seen(d) : \A j \in Slots : j < i => j \in Seen(d)
         /\ \A i \in Slots : d[i] # EndMark /\ (\A j \in Slots : j < i => j \in Seen(d)) => i \in Seen(d)
<1>1. \A i \in Slots : i \in Seen(d) <=> \A j \in 1..i : d[j] # EndMark
  BY DEF Seen
<1>2. Seen(d) \subseteq Slots /\ Entered(d) \subseteq Slots
  BY DEF Seen, Entered
<1>3. \A i \in Seen(d) : d[i] # EndMark
  BY <1>1, <1>2, SlotNumbers
<1>4. ASSUME NEW i \in Seen(d), NEW j \in Slots, j < i PROVE j \in Seen(d)
  <2>0. i \in Nat /\ j \in Nat /\ i \in Slots
    BY <1>2, SlotNumbers
  <2>1. \A x \in 1..j : x \in 1..i
    BY <1>4, <2>0
  <2> QED BY <1>1, <1>2, <2>1
<1>5. ASSUME NEW i \in Slots, d[i] # EndMark, \A j \in Slots : j < i => j \in Seen(d)
      PROVE  i \in Seen(d)
  <2>1. ASSUME NEW x \in 1..i PROVE d[x] # EndMark
    <3>1. x \in Slots /\ (x = i \/ x < i)
      BY SlotNumbers
    <3> QED BY <1>3, <1>5, <3>1
  <2> QED BY <1>1, <2>1
<1> QED BY <1>2, <1>3, <1>4, <1>5

\* An entry is written: the files are those there were, and this one.
LEMMA Filed ==
  ASSUME NEW d \in [Slots -> Entries], NEW k, Writable(d, k),
         NEW e, e # EndMark, NEW d2, d2 = [d EXCEPT ![k] = e]
  PROVE  Seen(d) \subseteq Seen(d2) /\ k \in Seen(d2)
<1>1. k \in Slots /\ \A i \in Slots : d2[i] = IF i = k THEN e ELSE d[i]
  BY DEF Writable
<1>2. \A i \in Slots : i \in Seen(d) <=> \A j \in 1..i : d[j] # EndMark
  BY DEF Seen
<1>3. \A i \in Slots : i \in Seen(d2) <=> \A j \in 1..i : d2[j] # EndMark
  BY DEF Seen
<1>4. \A i \in Seen(d) : i \in Seen(d2)
  BY <1>1, <1>2, <1>3, SeenIs, SlotNumbers
<1>5. \A j \in Slots : j < k => j \in Seen(d2)
  BY <1>4, SeenIs DEF Writable
<1>6. k \in Seen(d2)
  BY <1>1, <1>5, SeenIs
<1> QED BY <1>4, <1>6

\* Which entries are files after one has been replaced.
LEMMA EnteredIs ==
  ASSUME NEW d \in [Slots -> Entries], NEW k \in Slots, NEW e, NEW d2, d2 = [d EXCEPT ![k] = e]
  PROVE  /\ \A i : i \in Entered(d2) <=> IF i = k THEN e \notin {EndMark, Deleted} ELSE i \in Entered(d)
         /\ d2[k] = e /\ \A i \in Slots : i # k => d2[i] = d[i]
<1>1. \A i \in Slots : d2[i] = IF i = k THEN e ELSE d[i]
  OBVIOUS
<1> QED BY <1>1 DEF Entered

\* If no other entry has the name, nothing is hidden and nothing entered twice.
LEMMA NamesStep ==
  ASSUME NEW d \in [Slots -> Entries], NamesOK(d), NEW k, Writable(d, k),
         NEW e, e # EndMark, e # Deleted, \A i \in Entered(d) : i # k => d[i].name # e.name
  PROVE  NamesOK([d EXCEPT ![k] = e])
<1> DEFINE d2 == [d EXCEPT ![k] = e]
<1>1. k \in Slots /\ \A i \in Entered(d) : i \in Slots
  BY DEF Writable, Entered
<1>2. /\ \A i : i \in Entered(d2) <=> IF i = k THEN e \notin {EndMark, Deleted} ELSE i \in Entered(d)
      /\ d2[k] = e /\ \A i \in Slots : i # k => d2[i] = d[i]
  BY <1>1, EnteredIs
<1>3. Seen(d) \subseteq Seen(d2) /\ k \in Seen(d2)
  BY Filed
<1> HIDE DEF d2
<1>4. Entered(d2) \subseteq Seen(d2)
  BY <1>2, <1>3 DEF NamesOK
<1>5. \A i, j \in Entered(d2) : d2[i].name = d2[j].name => i = j
  <2> SUFFICES ASSUME NEW i \in Entered(d2), NEW j \in Entered(d2), d2[i].name = d2[j].name, i # j
               PROVE  FALSE
    OBVIOUS
  <2>1. CASE i = k
    BY <1>1, <1>2, <2>1
  <2>2. CASE j = k
    BY <1>1, <1>2, <2>2
  <2>3. CASE i # k /\ j # k
    BY <1>1, <1>2, <2>3 DEF NamesOK
  <2> QED BY <2>1, <2>2, <2>3
<1> QED BY <1>4, <1>5 DEF NamesOK, d2

\* Where fat16_write_file puts the entry.
LEMMA SlotOf ==
  ASSUME dir \in [Slots -> Entries], NEW p \in Paths, Proceeds(p)
  PROVE  LET k == WriteSlot(p) IN
         /\ Writable(dir, k)
         /\ \A i \in Found(dir, Component[p]) : k <= i
         /\ Exists(p) => k \in Seen(dir) /\ k \in Entered(dir) /\ dir[k].name = Component[p]
         /\ ~Exists(p) => k \notin Entered(dir) /\ Found(dir, Component[p]) = {}
<1>1. Component[p] \in ShortNames
  BY FatAssumption
<1>2. Seen(dir) \subseteq Slots
  BY DEF Seen
<1>3. CASE Exists(p)
  <2> DEFINE F == Found(dir, Component[p])
  <2>1. F \in SUBSET Nat /\ F # {}
    BY <1>2, <1>3, SlotNumbers DEF Found, Exists
  <2>2. Least(F) \in F /\ \A i \in F : Least(F) <= i
    <3> HIDE DEF F
    <3> QED BY <2>1, LeastIn
  <2>3. /\ WriteSlot(p) \in Seen(dir) /\ dir[WriteSlot(p)].name = Component[p]
        /\ \A i \in F : WriteSlot(p) <= i
    BY <1>3, <2>2 DEF WriteSlot, EntryOf, Found
  <2>4. WriteSlot(p) \in Entered(dir)
    BY <1>1, <1>2, <2>3, NoMark DEF Entered
  <2> QED BY <1>2, <1>3, <2>3, <2>4 DEF Writable
<1>4. CASE ~Exists(p)
  <2> DEFINE S == FreeSlots(dir)
             k == Least(S)
  <2>1. S \in SUBSET Nat /\ S # {} /\ S \subseteq Slots
    BY <1>2, <1>4, SlotNumbers DEF Proceeds, HasSlot, FreeSlots
  <2>2. k \in S /\ (\A y \in S : k <= y) /\ k \in Nat
    <3> HIDE DEF S
    <3> QED BY <2>1, LeastIn
  <2>3. WriteSlot(p) = k
    BY <1>4 DEF WriteSlot
  <2> HIDE DEF k
  <2>4. Found(dir, Component[p]) = {}
    BY <1>4 DEF Exists
  <2>5. CASE Seen(dir) # Slots
    <3>1. S = {i \in Slots : i \notin Seen(dir)}
      BY <2>5 DEF FreeSlots
    <3>2. k \in Slots /\ k \notin Seen(dir)
      BY <2>2, <3>1
    <3>3. \A j \in Slots : j < k => j \in Seen(dir)
      BY <2>2, <3>1, SlotNumbers
    <3>4. k \notin Entered(dir)
      <4>1. dir[k] = EndMark
        BY <3>2, <3>3, SeenIs
      <4> QED BY <4>1 DEF Entered
    <3> QED BY <1>4, <2>3, <2>4, <3>2, <3>3, <3>4 DEF Writable
  <2>6. CASE Seen(dir) = Slots
    <3>1. k \in Slots /\ dir[k] = Deleted
      BY <2>2, <2>6 DEF FreeSlots
    <3> QED BY <1>4, <2>3, <2>4, <2>6, <3>1 DEF Writable, Entered
  <2> QED BY <2>5, <2>6
<1> QED BY <1>3, <1>4

-----------------------------------------------------------------------------
(* A volume that is sound.                                                 *)

ChainIn(f, d, i) == Chain(f, d[i].start)

\* The chains of all entries, in front of the end mark or behind it.
VolumeOK(f, d) ==
  /\ \A i \in Entered(d) : Cardinality(ChainIn(f, d, i)) = Owned(d[i].size)
  /\ \A i, j \in Entered(d) : i # j => ChainIn(f, d, i) \intersect ChainIn(f, d, j) = {}
  /\ UNION {ChainIn(f, d, i) : i \in Entered(d)} = Clusters \ FreeIn(f)

OldChain(f, d, k) == IF k \in Entered(d) THEN ChainIn(f, d, k) ELSE {}

\* The table g has given up the chain of entry k and has a new one instead.
Rechained(f, g, old, new) ==
  /\ new \in SUBSET Clusters
  /\ \A c \in new : g[c] # 0 /\ (c \in old \/ f[c] = 0)
  /\ \A c \in old : c \notin new => g[c] = 0
  /\ \A c \in Clusters : c \notin old /\ c \notin new => g[c] = f[c]

\* A volume stays sound if one entry gets another chain, of the right length,
\* or is removed with its chain.
LEMMA VolumeStep ==
  ASSUME NEW f \in Table, Ascending(f), NEW g \in Table, Ascending(g),
         NEW d \in [Slots -> Entries], VolumeOK(f, d), NEW k \in Slots, NEW e,
         Rechained(f, g, OldChain(f, d, k), Chain(g, e.start)),
         IF e \in {EndMark, Deleted} THEN Chain(g, e.start) = {}
         ELSE Cardinality(Chain(g, e.start)) = Owned(e.size)
  PROVE  VolumeOK(g, [d EXCEPT ![k] = e])
<1> DEFINE d2 == [d EXCEPT ![k] = e]
           old == OldChain(f, d, k)
           new == Chain(g, e.start)
           mark == e \in {EndMark, Deleted}
<1>1. /\ \A i : i \in Entered(d2) <=> IF i = k THEN ~mark ELSE i \in Entered(d)
      /\ d2[k] = e /\ \A i \in Slots : i # k => d2[i] = d[i]
  BY EnteredIs
<1>2. d2[k] = e /\ \A i \in Entered(d) : i # k => d2[i] = d[i]
  BY <1>1, SeenIs
<1> HIDE DEF d2
<1>3. /\ Rechained(f, g, old, new) /\ (mark => new = {})
      /\ ~mark => Cardinality(new) = Owned(e.size)
  OBVIOUS
<1>4. \A i \in Entered(d) : ChainIn(f, d, i) \in SUBSET Clusters
  BY ChainIs DEF ChainIn
<1> HIDE DEF new, mark
<1>5. \A i \in Entered(d) : \A c \in ChainIn(f, d, i) : c \in Clusters /\ f[c] # 0
  <2>1. \A i \in Entered(d) : \A c \in ChainIn(f, d, i) : c \in Clusters \ FreeIn(f)
    BY DEF VolumeOK
  <2> QED BY <2>1 DEF FreeIn
<1>6. \A c \in Clusters : f[c] # 0 => \E i \in Entered(d) : c \in ChainIn(f, d, i)
  <2>1. \A c \in Clusters \ FreeIn(f) : \E i \in Entered(d) : c \in ChainIn(f, d, i)
    BY DEF VolumeOK
  <2> QED BY <2>1 DEF FreeIn
<1>7. ASSUME NEW i \in Entered(d), i # k, NEW c \in ChainIn(f, d, i)
      PROVE  c \notin old /\ c \notin new /\ g[c] = f[c]
  <2>1. c \notin old
    BY <1>7 DEF OldChain, VolumeOK
  <2>2. c \in Clusters /\ f[c] # 0
    BY <1>5, <1>7
  <2> HIDE DEF old
  <2> QED BY <1>3, <2>1, <2>2 DEF Rechained
<1>8. \A i \in Entered(d) : i # k => ChainIn(g, d2, i) = ChainIn(f, d, i)
  BY <1>2, <1>7, SameChain DEF ChainIn
<1>9. ChainIn(g, d2, k) = new
  BY <1>2 DEF ChainIn, new
<1>10. \A i \in Entered(d2) : (i = k /\ ~mark) \/ (i # k /\ i \in Entered(d))
  BY <1>1
<1>11. \A i \in Entered(d2) : Cardinality(ChainIn(g, d2, i)) = Owned(d2[i].size)
  BY <1>2, <1>3, <1>8, <1>9, <1>10 DEF VolumeOK
<1>12. \A i, j \in Entered(d2) : i # j => ChainIn(g, d2, i) \intersect ChainIn(g, d2, j) = {}
  <2> SUFFICES ASSUME NEW i \in Entered(d2), NEW j \in Entered(d2), i # j,
                      NEW c \in ChainIn(g, d2, i), c \in ChainIn(g, d2, j)
               PROVE  FALSE
    OBVIOUS
  <2>1. CASE i # k /\ j # k
    BY <1>8, <1>10, <2>1 DEF VolumeOK
  <2>2. CASE i = k
    BY <1>7, <1>8, <1>9, <1>10, <2>2
  <2>3. CASE j = k
    BY <1>7, <1>8, <1>9, <1>10, <2>3
  <2> QED BY <2>1, <2>2, <2>3
<1>13. ASSUME NEW i \in Entered(d2), NEW c \in ChainIn(g, d2, i) PROVE c \in Clusters /\ g[c] # 0
  <2>1. CASE i = k
    BY <1>3, <1>9, <1>13, <2>1 DEF Rechained
  <2>2. CASE i # k
    BY <1>5, <1>7, <1>8, <1>10, <1>13, <2>2
  <2> QED BY <2>1, <2>2
<1>14. ASSUME NEW c \in Clusters, g[c] # 0 PROVE \E i \in Entered(d2) : c \in ChainIn(g, d2, i)
  <2>1. CASE c \in new
    BY <1>1, <1>3, <1>9, <2>1
  <2>2. CASE c \notin new
    <3>1. c \notin old /\ f[c] # 0
      <4> HIDE DEF old
      <4> QED BY <1>3, <1>14, <2>2 DEF Rechained
    <3>2. PICK i \in Entered(d) : c \in ChainIn(f, d, i)
      BY <1>6, <3>1
    <3>3. i # k
      BY <3>1, <3>2 DEF OldChain
    <3>4. c \in ChainIn(g, d2, i) /\ i \in Entered(d2)
      BY <1>1, <1>8, <3>2, <3>3
    <3> QED BY <3>4
  <2> QED BY <2>1, <2>2
<1>15. UNION {ChainIn(g, d2, i) : i \in Entered(d2)} = Clusters \ FreeIn(g)
  BY <1>13, <1>14 DEF FreeIn
<1>16. VolumeOK(g, d2)
  BY <1>11, <1>12, <1>15 DEF VolumeOK
<1> QED BY <1>16 DEF d2

-----------------------------------------------------------------------------
(* The steps.                                                              *)

FileData == [Clusters -> [1..ClusterBytes -> Bytes \union {Zero}]]

\* The invariant of the chains.
SInv ==
  /\ TypeOK /\ Ascending(fat)
  /\ damaged \/ VolumeOK(fat, dir)

\* That of the names.
NInv == damaged \/ recreated \/ NamesOK(dir)

LEMMA BlankType == Blank \in FileData
  BY DEF Blank, FileData

LEMMA PieceType ==
  ASSUME NEW b \in Seq(Bytes), NEW k \in Nat, k >= 1
  PROVE  Piece(b, k) \in [1..ClusterBytes -> Bytes \union {Zero}]
<1> DEFINE B == ClusterBytes
           o == (k - 1) * B
<1>1. B \in Nat
  BY Sizes
<1>2. o \in Nat
  <2>1. k - 1 \in Nat
    OBVIOUS
  <2> QED BY <1>1, <2>1
<1> HIDE DEF o
<1>3. ASSUME NEW i \in 1..B
      PROVE  (IF o + i <= Len(b) THEN b[o + i] ELSE Zero) \in Bytes \union {Zero}
  <2>1. CASE o + i <= Len(b)
    <3>1. o + i \in 1..Len(b)
      BY <1>1, <1>2, <2>1
    <3> QED BY <2>1, <3>1
  <2>2. CASE ~(o + i <= Len(b))
    BY <2>2
  <2> QED BY <2>1, <2>2
<1> QED BY <1>3 DEF Piece, o

LEMMA WrittenType ==
  ASSUME NEW m \in FileData, NEW T \in SUBSET Clusters, NEW b \in Seq(Bytes)
  PROVE  Written(m, T, b) \in FileData
<1>1. ASSUME NEW c \in T
      PROVE  Piece(b, Cardinality(Upto(T, c))) \in [1..ClusterBytes -> Bytes \union {Zero}]
  BY Ranks, PieceType
<1> QED BY <1>1 DEF Written, FileData

LEMMA FollowType ==
  ASSUME NEW m \in FileData, Follow(m)
  PROVE  data' \in FileData
  BY BlankType DEF Follow

LEMMA EntryType ==
  ASSUME NEW p \in Paths, NEW start \in {0} \union Clusters, NEW len \in Nat
  PROVE  /\ WriteName(p) \in ShortNames
         /\ [name |-> WriteName(p), start |-> start, size |-> len] \in Entries
<1>1. WriteName(p) \in ShortNames
  BY FatAssumption DEF WriteName
<1> QED BY <1>1 DEF Entries

LEMMA UpdatedType ==
  ASSUME dir \in [Slots -> Entries], NEW p \in Paths,
         NEW start \in {0} \union Clusters, NEW len \in Nat
  PROVE  Updated(p, start, len) \in [Slots -> Entries]
  BY EntryType DEF Updated

LEMMA MarksAreEntries == EndMark \in Entries /\ Deleted \in Entries
  BY DEF EndMark, Deleted, Entries

LEMMA NonEmpty ==
  ASSUME NEW T, NEW n \in Nat, n > 0, Cardinality(T) = n
  PROVE  T # {}
<1>1. Cardinality({}) = 0
  BY FS_EmptySet
<1> QED BY <1>1

\* What is written to a file has as many clusters as it needs.
LEMMA Allocated ==
  ASSUME NEW f, NEW b \in Contents, b # <<>>, Cardinality(FreeIn(f)) >= need(Len(b))
  PROVE  LET T == FirstFree(f, need(Len(b))) IN
         /\ T \in SUBSET FreeIn(f) /\ T \in SUBSET Clusters /\ T # {}
         /\ Cardinality(T) = need(Len(b)) /\ Least(T) \in Clusters
<1> DEFINE n == need(Len(b))
           T == FirstFree(f, n)
<1>1. b \in Seq(Bytes)
  BY FatAssumption
<1>2. Len(b) \in Nat /\ Len(b) > 0
  BY <1>1
<1>3. n \in Nat /\ n > 0
  BY <1>2, NeedNat
<1> HIDE DEF n
<1>4. T \in SUBSET FreeIn(f) /\ T \in SUBSET Clusters /\ Cardinality(T) = n
  BY <1>3, FirstFreeCount DEF n
<1> HIDE DEF T
<1>5. T # {}
  BY <1>3, <1>4, NonEmpty
<1>6. Least(T) \in Clusters
  BY <1>4, <1>5, LeastCluster
<1> QED BY <1>4, <1>5, <1>6 DEF T, n

LEMMA ContentsLength ==
  ASSUME NEW b \in Contents
  PROVE  b \in Seq(Bytes) /\ Len(b) \in Nat
<1>1. b \in Seq(Bytes)
  BY FatAssumption
<1> QED BY <1>1

\* Every step keeps the types.
LEMMA WriteTypes ==
  ASSUME TypeOK, NEW p \in Paths, NEW b \in Contents, write_file(p, b)
  PROVE  /\ dir' \in [Slots -> Entries] /\ data' \in FileData
         /\ damaged' \in BOOLEAN /\ recreated' \in BOOLEAN
<1> DEFINE T == FirstFree(Freed(p), need(Len(b)))
<1>1. /\ dir \in [Slots -> Entries] /\ data \in FileData
      /\ damaged \in BOOLEAN /\ recreated \in BOOLEAN
  BY DEF TypeOK, FileData
<1>2. CASE WriteEmpty(p)
  BY <1>1, <1>2, UpdatedType DEF WriteEmpty
<1>3. CASE WriteSucceeds(p, b)
  <2>1. T \in SUBSET Clusters /\ Least(T) \in Clusters
    BY <1>3, Allocated DEF WriteSucceeds, Enough
  <2>2. dir' = Updated(p, Least(T), Len(b)) /\ Follow(Written(data, T, b))
        /\ damaged' = damaged /\ recreated' = recreated
    BY <1>3 DEF WriteSucceeds
  <2> HIDE DEF T
  <2>3. data' \in FileData
    BY <1>1, <2>1, <2>2, ContentsLength, WrittenType, FollowType
  <2>4. dir' \in [Slots -> Entries]
    BY <1>1, <2>1, <2>2, ContentsLength, UpdatedType
  <2> QED BY <1>1, <2>2, <2>3, <2>4
<1>4. CASE WriteAllocFails(p, b)
  BY <1>1, <1>4, FollowType DEF WriteAllocFails
<1>5. CASE WriteDataFails(p, b)
  BY <1>1, <1>5, FollowType DEF WriteDataFails
<1> QED BY <1>2, <1>3, <1>4, <1>5 DEF write_file

LEMMA CreateTypes ==
  ASSUME TypeOK, NEW p \in Paths, create_file(p)
  PROVE  /\ dir' \in [Slots -> Entries] /\ data' \in FileData
         /\ damaged' \in BOOLEAN /\ recreated' \in BOOLEAN
<1>1. /\ dir \in [Slots -> Entries] /\ data \in FileData
      /\ damaged \in BOOLEAN /\ recreated \in BOOLEAN
  BY DEF TypeOK, FileData
<1>2. NewEntry(Whole[p]) \in Entries
  BY FatAssumption DEF NewEntry, Entries
<1>3. CASE Exists(p)
  <2>1. dir' = [dir EXCEPT ![EntryOf(p)] = EndMark] /\ data' = data /\ damaged' = damaged /\ recreated' = TRUE
    BY <1>3 DEF create_file
  <2>2. dir' \in [Slots -> Entries]
    BY <1>1, <2>1, MarksAreEntries
  <2> QED BY <1>1, <2>1, <2>2
<1>4. CASE ~Exists(p)
  <2>1. /\ dir' = [dir EXCEPT ![Least(FreeSlots(dir))] = NewEntry(Whole[p])]
        /\ data' = data /\ damaged' = damaged /\ recreated' = recreated
    BY <1>4 DEF create_file
  <2>2. dir' \in [Slots -> Entries]
    BY <1>1, <1>2, <2>1
  <2> QED BY <1>1, <2>1, <2>2
<1> QED BY <1>3, <1>4

LEMMA UnnoticedTypes ==
  ASSUME TypeOK, NEW p \in Paths, Unnoticed(p)
  PROVE  /\ dir' \in [Slots -> Entries] /\ data' \in FileData
         /\ damaged' \in BOOLEAN /\ recreated' \in BOOLEAN
<1>1. /\ dir \in [Slots -> Entries] /\ data \in FileData
      /\ damaged \in BOOLEAN /\ recreated \in BOOLEAN
  BY DEF TypeOK, FileData
<1>2. data' \in FileData /\ damaged' \in BOOLEAN /\ recreated' \in BOOLEAN
  BY <1>1, FollowType DEF Unnoticed
<1>3. CASE CreateUnnoticed(p)
  BY <1>1, <1>2, <1>3, MarksAreEntries DEF CreateUnnoticed
<1>4. ASSUME NEW b \in Contents, WriteUnnoticed(p, b) PROVE dir' \in [Slots -> Entries]
  <2>1. PICK f \in FreedSomehow(p) :
          \/ dir' \in {dir, Updated(p, 0, 0)}
          \/ /\ b # <<>>
             /\ \E T \in SUBSET FreeIn(f) :
                  Cardinality(T) = need(Len(b)) /\ dir' \in {dir, Updated(p, Least(T), Len(b))}
    BY <1>4 DEF WriteUnnoticed
  <2>2. CASE dir' \in {dir, Updated(p, 0, 0)}
    BY <1>1, <2>2, UpdatedType
  <2>3. CASE b # <<>> /\ \E T \in SUBSET FreeIn(f) :
               Cardinality(T) = need(Len(b)) /\ dir' \in {dir, Updated(p, Least(T), Len(b))}
    <3>1. PICK T \in SUBSET FreeIn(f) :
            Cardinality(T) = need(Len(b)) /\ dir' \in {dir, Updated(p, Least(T), Len(b))}
      BY <2>3
    <3>2. b \in Seq(Bytes) /\ Len(b) \in Nat
      BY ContentsLength
    <3>3. Len(b) > 0
      BY <2>3, <3>2
    <3>4. need(Len(b)) > 0 /\ need(Len(b)) \in Nat
      BY <3>2, <3>3, NeedNat
    <3>5. T # {}
      BY <3>1, <3>4, NonEmpty
    <3>6. T \in SUBSET Clusters
      BY DEF FreeIn
    <3>7. Least(T) \in Clusters
      BY <3>5, <3>6, LeastCluster
    <3> QED BY <1>1, <3>1, <3>2, <3>7, UpdatedType
  <2> QED BY <2>1, <2>2, <2>3
<1> QED BY <1>2, <1>3, <1>4 DEF Unnoticed

LEMMA NextTypes ==
  ASSUME TypeOK, Ascending(fat), [Next]_vars
  PROVE  TypeOK' /\ Ascending(fat')
<1>1. IInv
  BY DEF IInv, TypeOK, Table
<1>2. fat' \in Table /\ Ascending(fat')
  BY <1>1, NextAscending DEF IInv, Ascending
<1>3. /\ dir' \in [Slots -> Entries] /\ data' \in FileData
      /\ damaged' \in BOOLEAN /\ recreated' \in BOOLEAN
  <2>1. CASE UNCHANGED vars
    BY <2>1 DEF vars, TypeOK, FileData
  <2> QED BY <2>1, WriteTypes, CreateTypes, UnnoticedTypes DEF Next
<1> QED BY <1>2, <1>3 DEF TypeOK, Table, FileData

\* No path begins with a slash: the name that is looked up, that of the last
\* component, is the one that is entered.  With a slash a name can be entered
\* twice.
RelativePaths == \A p \in Paths : Whole[p] = Component[p]

\* Exactly the chain of the entry that will be written is freed.
LEMMA FreedIs ==
  ASSUME SInv, NEW p \in Paths, Proceeds(p), NEW c \in Clusters
  PROVE  Freed(p)[c] = IF c \in OldChain(fat, dir, WriteSlot(p)) THEN 0 ELSE fat[c]
<1>1. dir \in [Slots -> Entries]
  BY DEF SInv, TypeOK
<1>2. CASE Exists(p)
  <2>1. WriteSlot(p) = EntryOf(p) /\ WriteSlot(p) \in Entered(dir)
    BY <1>1, <1>2, SlotOf DEF WriteSlot
  <2>2. OldChain(fat, dir, WriteSlot(p)) = Chain(fat, dir[EntryOf(p)].start)
    BY <2>1 DEF OldChain, ChainIn
  <2> QED BY <1>2, <2>2 DEF Freed, free_chain
<1>3. CASE ~Exists(p)
  <2>1. WriteSlot(p) \notin Entered(dir)
    BY <1>1, <1>3, SlotOf
  <2> QED BY <1>3, <2>1 DEF Freed, OldChain
<1> QED BY <1>2, <1>3

\* An entry that is written has a name no other entry has.
LEMMA NameOnce ==
  ASSUME RelativePaths, dir \in [Slots -> Entries], NamesOK(dir), NEW p \in Paths, Proceeds(p)
  PROVE  /\ WriteName(p) = Component[p]
         /\ \A i \in Entered(dir) : i # WriteSlot(p) => dir[i].name # WriteName(p)
<1>1. WriteName(p) = Component[p]
  BY DEF WriteName, RelativePaths
<1>2. CASE Exists(p)
  <2>1. WriteSlot(p) \in Entered(dir) /\ dir[WriteSlot(p)].name = Component[p]
    BY <1>2, SlotOf
  <2> QED BY <1>1, <2>1 DEF NamesOK
<1>3. CASE ~Exists(p)
  <2>1. Found(dir, Component[p]) = {}
    BY <1>3, SlotOf
  <2> QED BY <1>1, <2>1 DEF NamesOK, Found
<1> QED BY <1>1, <1>2, <1>3

\* The entry that is written.
NewOne(p, start, len) == [name |-> WriteName(p), start |-> start, size |-> len]

LEMMA NewOneIs ==
  ASSUME dir \in [Slots -> Entries], NEW p \in Paths, Proceeds(p),
         NEW start \in {0} \union Clusters, NEW len \in Nat
  PROVE  LET e == NewOne(p, start, len) IN
         /\ e \in Entries /\ e.name = WriteName(p) /\ e.start = start /\ e.size = len
         /\ e # EndMark /\ e # Deleted
         /\ WriteName(p) \in ShortNames
         /\ Updated(p, start, len) = [dir EXCEPT ![WriteSlot(p)] = e]
<1> DEFINE e == NewOne(p, start, len)
<1>1. WriteName(p) \in ShortNames /\ e \in Entries
  BY EntryType DEF NewOne
<1>2. e.name = WriteName(p) /\ e.start = start /\ e.size = len
  BY DEF NewOne
<1>3. Updated(p, start, len) = [dir EXCEPT ![WriteSlot(p)] = e]
  BY DEF Updated, NewOne
<1> HIDE DEF e
<1>4. e # EndMark /\ e # Deleted
  BY <1>1, <1>2, NoMark
<1> QED BY <1>1, <1>2, <1>3, <1>4 DEF e

\* The entry is written for a chain g has.
LEMMA EntryWritten ==
  ASSUME SInv, VolumeOK(fat, dir), NEW p \in Paths, Proceeds(p),
         NEW g \in Table, Ascending(g), NEW start \in {0} \union Clusters, NEW len \in Nat,
         Rechained(fat, g, OldChain(fat, dir, WriteSlot(p)), Chain(g, start)),
         Cardinality(Chain(g, start)) = Owned(len)
  PROVE  VolumeOK(g, Updated(p, start, len))
<1> DEFINE e == NewOne(p, start, len)
           k == WriteSlot(p)
<1>1. dir \in [Slots -> Entries] /\ fat \in Table /\ Ascending(fat)
  BY DEF SInv, TypeOK, Table
<1>2. e.start = start /\ e.size = len /\ e \notin {EndMark, Deleted}
      /\ Updated(p, start, len) = [dir EXCEPT ![k] = e]
  BY <1>1, NewOneIs
<1>3. k \in Slots
  BY <1>1, SlotOf DEF Writable
<1> HIDE DEF e
<1>4. Rechained(fat, g, OldChain(fat, dir, k), Chain(g, e.start))
  BY <1>2
<1>5. IF e \in {EndMark, Deleted} THEN Chain(g, e.start) = {} ELSE Cardinality(Chain(g, e.start)) = Owned(e.size)
  BY <1>2
<1> HIDE DEF k
<1>6. VolumeOK(g, [dir EXCEPT ![k] = e])
  BY <1>1, <1>3, <1>4, <1>5, VolumeStep
<1> QED BY <1>2, <1>6

\* Nothing is left of the old chain.
LEMMA EmptyChain ==
  ASSUME SInv, NEW p \in Paths, Proceeds(p)
  PROVE  /\ Freed(p) \in Table /\ Ascending(Freed(p)) /\ Chain(Freed(p), 0) = {}
         /\ Rechained(fat, Freed(p), OldChain(fat, dir, WriteSlot(p)), Chain(Freed(p), 0))
         /\ Cardinality(Chain(Freed(p), 0)) = Owned(0)
<1> DEFINE g == Freed(p)
           old == OldChain(fat, dir, WriteSlot(p))
<1>1. g \in Table /\ Ascending(g)
  BY FreedAscends DEF SInv, TypeOK, IInv, Table
<1>2. \A c \in Clusters : g[c] = IF c \in old THEN 0 ELSE fat[c]
  BY FreedIs
<1>3. Chain(g, 0) = {}
  BY <1>1, NoChain
<1>4. old \in SUBSET Clusters
  BY ChainIs DEF OldChain, ChainIn, SInv
<1> HIDE DEF g, old
<1>5. Rechained(fat, g, old, {})
  BY <1>2, <1>4 DEF Rechained
<1>6. Cardinality(Chain(g, 0)) = Owned(0)
  <2>1. Cardinality({}) = 0
    BY FS_EmptySet
  <2> QED BY <1>3, <2>1 DEF Owned
<1> QED BY <1>1, <1>3, <1>5, <1>6 DEF old, g

\* The new chain is made of clusters that were free or in the old one.
LEMMA NewChain ==
  ASSUME SInv, NEW p \in Paths, NEW b \in Contents, WriteSucceeds(p, b)
  PROVE  LET T == FirstFree(Freed(p), need(Len(b)))
             g == Linked(Freed(p), T)
         IN  /\ T \in SUBSET Clusters /\ Cardinality(T) = need(Len(b)) /\ Least(T) \in Clusters
             /\ g \in Table /\ Ascending(g) /\ Chain(g, Least(T)) = T
             /\ Rechained(fat, g, OldChain(fat, dir, WriteSlot(p)), T)
<1> DEFINE f == Freed(p)
           T == FirstFree(f, need(Len(b)))
           g == Linked(f, T)
           old == OldChain(fat, dir, WriteSlot(p))
<1>1. /\ T \in SUBSET FreeIn(f) /\ T \in SUBSET Clusters /\ T # {}
      /\ Cardinality(T) = need(Len(b)) /\ Least(T) \in Clusters
  BY Allocated DEF WriteSucceeds, Enough
<1>2. f \in Table /\ Ascending(f)
  BY FreedAscends DEF SInv, TypeOK, IInv, Table
<1>3. \A c \in Clusters : f[c] = IF c \in old THEN 0 ELSE fat[c]
  BY FreedIs DEF WriteSucceeds
<1>4. old \in SUBSET Clusters
  BY ChainIs DEF OldChain, ChainIn, SInv
<1> HIDE DEF f, T, old
<1>5. g \in Table /\ Ascending(g)
  BY <1>1, <1>2, LinkedAscends
<1>6. Chain(g, Least(T)) = T
  BY <1>1, <1>5, LinkedChain
<1>7. \A c \in Clusters : g[c] = IF c \in T THEN NextIn(T, c) ELSE f[c]
  BY DEF Linked
<1>8. \A c \in T : NextIn(T, c) # 0
  <2>1. EOC # 0 /\ 0 \notin Clusters
    BY Sizes, ClusterNumbers DEF EOC
  <2> QED BY <1>1, <2>1, NextAscends
<1>9. \A c \in T : f[c] = 0
  BY <1>1 DEF FreeIn
<1> HIDE DEF g
<1>10. Rechained(fat, g, old, T)
  BY <1>1, <1>3, <1>4, <1>7, <1>8, <1>9 DEF Rechained
<1> QED BY <1>1, <1>5, <1>6, <1>10 DEF f, T, g, old

LEMMA EmptyWritten ==
  ASSUME SInv, VolumeOK(fat, dir), NEW p \in Paths, Proceeds(p)
  PROVE  VolumeOK(Freed(p), Updated(p, 0, 0))
  BY EmptyChain, EntryWritten

LEMMA OwnsNeed ==
  ASSUME NEW b \in Contents, b # <<>>
  PROVE  Owned(Len(b)) = need(Len(b)) /\ Len(b) \in Nat /\ Len(b) > 0
<1>1. b \in Seq(Bytes) /\ Len(b) \in Nat
  BY ContentsLength
<1>2. Len(b) > 0
  BY <1>1
<1> QED BY <1>1, <1>2 DEF Owned

LEMMA ContentsWritten ==
  ASSUME SInv, VolumeOK(fat, dir), NEW p \in Paths, NEW b \in Contents,
         WriteSucceeds(p, b)
  PROVE  VolumeOK(fat', dir')
<1> DEFINE T == FirstFree(Freed(p), need(Len(b)))
           g == Linked(Freed(p), T)
<1>1. Proceeds(p) /\ fat' = g /\ dir' = Updated(p, Least(T), Len(b)) /\ b # <<>>
  BY DEF WriteSucceeds
<1>2. /\ Cardinality(T) = need(Len(b)) /\ Least(T) \in Clusters
      /\ g \in Table /\ Ascending(g) /\ Chain(g, Least(T)) = T
      /\ Rechained(fat, g, OldChain(fat, dir, WriteSlot(p)), T)
  BY NewChain
<1>3. Len(b) \in Nat /\ Owned(Len(b)) = need(Len(b))
  BY <1>1, OwnsNeed
<1> HIDE DEF g, T
<1>4. VolumeOK(g, Updated(p, Least(T), Len(b)))
  BY <1>1, <1>2, <1>3, EntryWritten
<1> QED BY <1>1, <1>4

\* A file that is created has no clusters.
LEMMA CreatedIs ==
  ASSUME NEW p \in Paths, create_file(p), ~Exists(p)
  PROVE  Proceeds(p) /\ fat' = Freed(p) /\ Freed(p) = fat /\ dir' = Updated(p, 0, 0)
         /\ data' = data /\ damaged' = damaged /\ recreated' = recreated
<1>1. HasSlot /\ fat' = fat /\ dir' = [dir EXCEPT ![Least(FreeSlots(dir))] = NewEntry(Whole[p])]
      /\ data' = data /\ damaged' = damaged /\ recreated' = recreated
  BY DEF create_file
<1>2. Proceeds(p) /\ Freed(p) = fat /\ WriteSlot(p) = Least(FreeSlots(dir)) /\ WriteName(p) = Whole[p]
  BY <1>1 DEF Proceeds, Freed, WriteSlot, WriteName
<1>3. dir' = Updated(p, 0, 0)
  BY <1>1, <1>2 DEF Updated, NewEntry
<1> QED BY <1>1, <1>2, <1>3

\* One that exists loses its chain and its entry.
LEMMA RecreatedIs ==
  ASSUME NEW p \in Paths, create_file(p), Exists(p)
  PROVE  Proceeds(p) /\ fat' = Freed(p) /\ dir' = [dir EXCEPT ![WriteSlot(p)] = EndMark]
         /\ data' = data /\ damaged' = damaged /\ recreated'
  BY DEF create_file, Proceeds, Freed, WriteSlot

LEMMA Created ==
  ASSUME SInv, VolumeOK(fat, dir), NEW p \in Paths, create_file(p)
  PROVE  VolumeOK(fat', dir')
<1>1. CASE ~Exists(p)
  BY <1>1, CreatedIs, EmptyWritten
<1>2. CASE Exists(p)
  <2> DEFINE g == Freed(p)
             k == WriteSlot(p)
  <2>1. Proceeds(p) /\ fat' = g /\ dir' = [dir EXCEPT ![k] = EndMark]
    BY <1>2, RecreatedIs
  <2>2. /\ g \in Table /\ Ascending(g) /\ Chain(g, 0) = {}
        /\ Rechained(fat, g, OldChain(fat, dir, k), Chain(g, 0))
    BY <2>1, EmptyChain
  <2>3. dir \in [Slots -> Entries] /\ fat \in Table /\ Ascending(fat)
    BY DEF SInv, TypeOK, Table
  <2>4. k \in Slots
    BY <2>1, <2>3, SlotOf DEF Writable
  <2> HIDE DEF g, k
  <2>5. PICK e : e = EndMark
    OBVIOUS
  <2>6. e.start = 0 /\ e \in {EndMark, Deleted}
    BY <2>5 DEF EndMark
  <2>7. /\ Rechained(fat, g, OldChain(fat, dir, k), Chain(g, e.start))
        /\ IF e \in {EndMark, Deleted} THEN Chain(g, e.start) = {}
           ELSE Cardinality(Chain(g, e.start)) = Owned(e.size)
    BY <2>2, <2>6
  <2>8. VolumeOK(g, [dir EXCEPT ![k] = e])
    BY <2>2, <2>3, <2>4, <2>7, VolumeStep
  <2> QED BY <2>1, <2>5, <2>8
<1> QED BY <1>1, <1>2

LEMMA SInvNext ==
  ASSUME SInv, [Next]_vars
  PROVE  SInv'
<1>1. TypeOK' /\ Ascending(fat')
  BY NextTypes DEF SInv
<1>2. damaged' \/ VolumeOK(fat', dir')
  <2>1. damaged => damaged'
    BY DEF Next, create_file, write_file, WriteEmpty, WriteSucceeds, WriteAllocFails,
           WriteDataFails, Unnoticed, vars
  <2>2. CASE damaged
    BY <2>1, <2>2
  <2>3. CASE VolumeOK(fat, dir)
    <3>1. ASSUME NEW p \in Paths, NEW b \in Contents, write_file(p, b)
          PROVE  damaged' \/ VolumeOK(fat', dir')
      <4>1. CASE WriteEmpty(p)
        BY <2>3, <4>1, EmptyWritten DEF WriteEmpty
      <4>2. CASE WriteSucceeds(p, b)
        BY <2>3, <4>2, ContentsWritten
      <4>3. CASE WriteAllocFails(p, b)
        BY <2>3, <4>3 DEF WriteAllocFails
      <4>4. CASE WriteDataFails(p, b)
        BY <4>4 DEF WriteDataFails
      <4> QED BY <3>1, <4>1, <4>2, <4>3, <4>4 DEF write_file
    <3>2. ASSUME NEW p \in Paths, Unnoticed(p) PROVE damaged'
      BY <3>2 DEF Unnoticed
    <3>3. CASE UNCHANGED vars
      BY <2>3, <3>3 DEF vars
    <3> QED BY <2>3, <3>1, <3>2, <3>3, Created DEF Next
  <2> QED BY <2>2, <2>3 DEF SInv
<1>3. VolumeOK(fat, dir)' = VolumeOK(fat', dir')
  BY DEF VolumeOK, Entered, ChainIn
<1> QED BY <1>1, <1>2, <1>3 DEF SInv, Ascending

\* The names: RelativePaths is needed here.
LEMMA NamesWritten ==
  ASSUME RelativePaths, dir \in [Slots -> Entries], NamesOK(dir), NEW p \in Paths, Proceeds(p),
         NEW start \in {0} \union Clusters, NEW len \in Nat
  PROVE  NamesOK(Updated(p, start, len))
<1> DEFINE e == NewOne(p, start, len)
           k == WriteSlot(p)
<1>1. e.name = WriteName(p) /\ e # EndMark /\ e # Deleted /\ Updated(p, start, len) = [dir EXCEPT ![k] = e]
  BY NewOneIs
<1>2. \A i \in Entered(dir) : i # k => dir[i].name # e.name
  BY <1>1, NameOnce
<1>3. Writable(dir, k)
  BY SlotOf
<1> HIDE DEF e, k
<1>4. NamesOK([dir EXCEPT ![k] = e])
  BY <1>1, <1>2, <1>3, NamesStep
<1> QED BY <1>1, <1>4

LEMMA NInvNext ==
  ASSUME RelativePaths, SInv, NInv, [Next]_vars
  PROVE  NInv'
<1>0. damaged => damaged'
  BY DEF Next, create_file, write_file, WriteEmpty, WriteSucceeds, WriteAllocFails,
         WriteDataFails, Unnoticed, vars
<1>1. recreated => recreated'
  <2>1. \A p \in Paths : create_file(p) => (recreated => recreated')
    BY DEF create_file
  <2>2. \A p \in Paths : \A b \in Contents : write_file(p, b) => (recreated' = recreated)
    BY DEF write_file, WriteEmpty, WriteSucceeds, WriteAllocFails, WriteDataFails
  <2>3. \A p \in Paths : Unnoticed(p) => (recreated' = recreated)
    BY DEF Unnoticed
  <2> QED BY <2>1, <2>2, <2>3, Zenon DEF Next, vars
<1>2. CASE damaged \/ recreated
  BY <1>0, <1>1, <1>2 DEF NInv
<1>3. CASE NamesOK(dir)
  <2>1. SUFFICES damaged' \/ recreated' \/ NamesOK(dir')
    BY DEF NInv, NamesOK, Entered, Seen
  <2>2. dir \in [Slots -> Entries]
    BY DEF SInv, TypeOK
  <2>3. ASSUME NEW p \in Paths, NEW b \in Contents, write_file(p, b)
        PROVE  damaged' \/ NamesOK(dir')
    <3>1. CASE WriteEmpty(p)
      BY <1>3, <2>2, <3>1, NamesWritten DEF WriteEmpty
    <3>2. CASE WriteSucceeds(p, b)
      <4> DEFINE T == FirstFree(Freed(p), need(Len(b)))
      <4>1. Proceeds(p) /\ dir' = Updated(p, Least(T), Len(b))
        BY <3>2 DEF WriteSucceeds
      <4>2. Least(T) \in Clusters
        BY <3>2, Allocated DEF WriteSucceeds, Enough
      <4> HIDE DEF T
      <4> QED BY <1>3, <2>2, <4>1, <4>2, ContentsLength, NamesWritten
    <3>3. CASE WriteAllocFails(p, b)
      BY <1>3, <3>3 DEF WriteAllocFails
    <3>4. CASE WriteDataFails(p, b)
      BY <3>4 DEF WriteDataFails
    <3> QED BY <2>3, <3>1, <3>2, <3>3, <3>4 DEF write_file
  <2>4. ASSUME NEW p \in Paths, create_file(p) PROVE recreated' \/ NamesOK(dir')
    <3>1. CASE Exists(p)
      BY <2>4, <3>1, RecreatedIs
    <3>2. CASE ~Exists(p)
      BY <1>3, <2>2, <2>4, <3>2, CreatedIs, NamesWritten
    <3> QED BY <3>1, <3>2
  <2>5. ASSUME NEW p \in Paths, Unnoticed(p) PROVE damaged'
    BY <2>5 DEF Unnoticed
  <2>6. CASE UNCHANGED vars
    BY <1>3, <2>6 DEF vars
  <2> QED BY <2>3, <2>4, <2>5, <2>6 DEF Next
<1> QED BY <1>2, <1>3 DEF NInv

\* A volume that has just been formatted has no files and no chains.
LEMMA SInvInit == Init => SInv /\ NInv
<1> SUFFICES ASSUME Init PROVE SInv /\ NInv
  OBVIOUS
<1>1. fat \in Table /\ Ascending(fat)
  BY InitAscending DEF IInv
<1>2. dir \in [Slots -> {EndMark, Deleted}]
  BY FatAssumption DEF Init
<1>3. TypeOK
  BY <1>1, <1>2, MarksAreEntries, BlankType DEF Init, TypeOK, Table, FileData
<1>4. Entered(dir) = {}
  BY <1>2 DEF Entered
<1>5. FreeIn(fat) = Clusters
  BY DEF Init, FreeIn
<1>6. VolumeOK(fat, dir) /\ NamesOK(dir)
  BY <1>4, <1>5 DEF VolumeOK, NamesOK
<1> QED BY <1>1, <1>3, <1>6 DEF SInv, NInv

LEMMA SInvSound ==
  ASSUME SInv, NInv
  PROVE  Sound
<1>1. \A i : ChainOf(i) = ChainIn(fat, dir, i)
  BY DEF ChainOf, ChainIn
<1>2. CASE damaged
  BY <1>2 DEF SInv, Sound
<1>3. CASE VolumeOK(fat, dir) /\ ~damaged
  <2>1. ASSUME NEW i \in Entered(dir)
        PROVE  LET n == ClustersFor(dir[i].size) IN
               IF n < CountMod THEN Cardinality(ChainOf(i)) = n
               ELSE Cardinality(ChainOf(i)) \in 1..(CountMod - 1)
    <3>1. dir[i].size \in Nat
      BY DEF SInv, TypeOK, Entered, Entries
    <3>2. Cardinality(ChainOf(i)) = Owned(dir[i].size)
      BY <1>1, <1>3 DEF VolumeOK
    <3> QED BY <3>1, <3>2, OwnedIs
  <2>2. /\ \A i, j \in Entered(dir) : i # j => ChainOf(i) \intersect ChainOf(j) = {}
        /\ UNION {ChainOf(i) : i \in Entered(dir)} = Clusters \ FreeIn(fat)
    BY <1>1, <1>3 DEF VolumeOK
  <2>3. \/ recreated
        \/ /\ Entered(dir) \subseteq Seen(dir)
           /\ \A i, j \in Entered(dir) : dir[i].name = dir[j].name => i = j
    BY <1>3 DEF NInv, NamesOK
  <2> QED BY <2>1, <2>2, <2>3 DEF SInv, Sound
<1> QED BY <1>2, <1>3 DEF SInv

\* The entries of the directory hold clusters of the volume or none, whatever
\* has failed and whatever the paths are.
THEOREM Fat16Types == Spec => []TypeOK
<1> DEFINE TInv == TypeOK /\ Ascending(fat)
<1>1. Init => TInv
  BY SInvInit DEF SInv
<1>2. TInv /\ [Next]_vars => TInv'
  BY NextTypes DEF Ascending
<1> QED BY <1>1, <1>2, PTL DEF Spec

\* On a volume of any size, after any number of calls of fat16_create_file and
\* fat16_write_file none of which failed half way: every file, hidden behind an
\* end mark or not, owns as many clusters as its size needs, up to what a
\* uint16_t can count, no two files share one, and no cluster is lost.  As long
\* as fat16_create_file was not called for a file that exists, and provided that
\* no path begins with a slash, none is hidden and no name is entered twice.
THEOREM VolumeStaysSound == RelativePaths => (Spec => []Sound)
<1> SUFFICES ASSUME RelativePaths PROVE Spec => []Sound
  OBVIOUS
<1>1. SInv /\ NInv /\ [Next]_vars => SInv' /\ NInv'
  BY SInvNext, NInvNext
<1>2. SInv /\ NInv => Sound
  BY SInvSound
<1> QED BY <1>1, <1>2, SInvInit, PTL DEF Spec

-----------------------------------------------------------------------------
(* What is read.                                                           *)

\* The k-th cluster of a chain.
NthOf(C, k) == CHOOSE c \in C : Cardinality(Upto(C, c)) = k

LEMMA NthIs ==
  ASSUME NEW C \in SUBSET Clusters, NEW k \in Nat, 1 <= k, k <= Cardinality(C)
  PROVE  NthOf(C, k) \in C /\ Cardinality(Upto(C, NthOf(C, k))) = k
<1>1. Cardinality(C) \in Nat /\ k - 1 \in Nat /\ k - 1 <= Cardinality(C)
  BY Finite
<1>2. Cardinality(Lowest(C, k)) = k /\ Cardinality(Lowest(C, k - 1)) = k - 1
  BY <1>1, LowestCount
<1>3. Lowest(C, k - 1) \subseteq Lowest(C, k) /\ Lowest(C, k) \subseteq C
  BY <1>1, Ranks DEF Lowest
<1>4. Lowest(C, k - 1) # Lowest(C, k)
  BY <1>2
<1>5. PICK c \in Lowest(C, k) : c \notin Lowest(C, k - 1)
  BY <1>3, <1>4
<1>6. c \in C /\ Cardinality(Upto(C, c)) = k
  BY <1>1, <1>5, Ranks DEF Lowest
<1> QED BY <1>6 DEF NthOf

\* The cluster and the place in it of the i-th byte of a file.
Quotient(i) == (i - 1) \div ClusterBytes
Remainder(i) == (i - 1) % ClusterBytes

LEMMA Place ==
  ASSUME NEW i \in Nat, i >= 1
  PROVE  /\ Quotient(i) \in Nat /\ Remainder(i) \in 0..(ClusterBytes - 1)
         /\ i = Quotient(i) * ClusterBytes + Remainder(i) + 1
         /\ \A n \in Nat : i <= n * ClusterBytes => Quotient(i) + 1 <= n
<1> DEFINE B == ClusterBytes
           q == Quotient(i)
           r == Remainder(i)
<1>1. B \in Nat \ {0} /\ i - 1 \in Nat
  BY Sizes
<1>2. q \in Nat /\ r \in 0..(B - 1) /\ i - 1 = q * B + r
  BY <1>1 DEF Quotient, Remainder
<1> HIDE DEF q, r, B
<1>3. ASSUME NEW n \in Nat, i <= n * B, ~(q + 1 <= n) PROVE FALSE
  <2>1. PICK d \in Nat : q = n + d
    <3>1. q - n \in Nat /\ q = n + (q - n)
      BY <1>2, <1>3
    <3> QED BY <3>1
  <2>2. q * B = n * B + d * B /\ n * B \in Nat /\ d * B \in Nat
    BY <1>1, <2>1
  <2> QED BY <1>1, <1>2, <1>3, <2>2
<1>4. i = q * B + r + 1
  <2>1. q * B \in Nat
    BY <1>1, <1>2
  <2> QED BY <1>2, <2>1
<1> QED BY <1>2, <1>3, <1>4 DEF q, r, B

\* The clusters a file needs hold it, and one less would not.
LEMMA ClustersHold ==
  ASSUME NEW l \in Nat, NEW n \in Nat
  PROVE  ClustersFor(l) <= n <=> l <= n * ClusterBytes
<1> DEFINE B == ClusterBytes
           x == l + B - 1
           q == x \div B
           r == x % B
<1>1. B \in Nat \ {0}
  BY Sizes
<1>2. x \in Nat
  BY <1>1
<1>3. q \in Nat /\ r \in 0..(B - 1) /\ x = q * B + r
  <2> HIDE DEF x
  <2> QED BY <1>1, <1>2
<1>4. ClustersFor(l) = q
  BY DEF ClustersFor
<1> HIDE DEF q, r
<1>5. ASSUME q <= n PROVE l <= n * B
  <2>1. PICK d \in Nat : n = q + d
    <3>1. n - q \in Nat /\ n = q + (n - q)
      BY <1>3, <1>5
    <3> QED BY <3>1
  <2>2. n * B = q * B + d * B /\ q * B \in Nat /\ d * B \in Nat
    BY <1>1, <1>3, <2>1
  <2> HIDE DEF B
  <2> QED BY <1>1, <1>3, <2>2
<1>6. ASSUME q > n PROVE l > n * B
  <2>1. PICK d \in Nat : q = n + 1 + d
    <3>1. q - n - 1 \in Nat /\ q = n + 1 + (q - n - 1)
      BY <1>3, <1>6
    <3> QED BY <3>1
  <2>2. q * B = n * B + B + d * B /\ n * B \in Nat /\ d * B \in Nat
    BY <1>1, <2>1
  <2> HIDE DEF B
  <2> QED BY <1>1, <1>3, <2>2
<1>7. n * B \in Nat
  BY <1>1
<1> HIDE DEF B
<1> QED BY <1>3, <1>4, <1>5, <1>6, <1>7 DEF B

\* What fat16_read_file makes of an entry, its chain and the clusters.
GotOf(e, C) ==
  IF e.size <= Cardinality(C) * ClusterBytes THEN e.size ELSE Cardinality(C) * ClusterBytes
ByteAt(C, m, i) == m[NthOf(C, Quotient(i) + 1)][Remainder(i) + 1]
ReadOf(e, C, m) ==
  IF e.size = 0 THEN Reads(<<>>)
  ELSE IF e.start < 2 THEN Fails("error")
  ELSE Reads([i \in 1..GotOf(e, C) |-> ByteAt(C, m, i)])

LEMMA ReadIs ==
  ASSUME NEW f, NEW m, NEW e
  PROVE  read_entry(f, m, e) = ReadOf(e, Chain(f, e.start), m)
  BY DEF read_entry, ReadOf, GotOf, ByteAt, NthOf, Quotient, Remainder

LEMMA GotIs ==
  ASSUME NEW e \in Entries, NEW C \in SUBSET Clusters
  PROVE  GotOf(e, C) \in Nat /\ GotOf(e, C) <= Cardinality(C) * ClusterBytes
<1>1. Cardinality(C) \in Nat /\ ClusterBytes \in Nat /\ e.size \in Nat
  BY Finite, Sizes DEF Entries
<1>2. Cardinality(C) * ClusterBytes \in Nat
  BY <1>1
<1> QED BY <1>1, <1>2 DEF GotOf

\* Only the clusters of the chain matter.
LEMMA ReadsChainOnly ==
  ASSUME NEW e \in Entries, NEW C \in SUBSET Clusters, NEW m, NEW m2,
         \A c \in C : m2[c] = m[c]
  PROVE  ReadOf(e, C, m2) = ReadOf(e, C, m)
<1>1. ASSUME NEW i \in 1..GotOf(e, C) PROVE ByteAt(C, m2, i) = ByteAt(C, m, i)
  <2> DEFINE n == Cardinality(C)
             q == Quotient(i)
  <2>1. i \in Nat /\ i >= 1 /\ i <= n * ClusterBytes
    <3>1. GotOf(e, C) \in Nat /\ n \in Nat /\ n * ClusterBytes \in Nat
      BY GotIs, Finite, Sizes
    <3> QED BY <3>1, GotIs
  <2>2. q \in Nat /\ q + 1 <= n
    BY <2>1, Place, Finite
  <2>3. NthOf(C, q + 1) \in C
    <3> HIDE DEF q, n
    <3>1. q + 1 \in Nat /\ 1 <= q + 1
      BY <2>2
    <3> QED BY <2>2, <3>1, NthIs DEF n
  <2> QED BY <2>3 DEF ByteAt
<1>2. [i \in 1..GotOf(e, C) |-> ByteAt(C, m2, i)] = [i \in 1..GotOf(e, C) |-> ByteAt(C, m, i)]
  BY <1>1
<1> QED BY <1>2 DEF ReadOf

\* What has been written is read, as far as there are clusters for it.
LEMMA ReadsWritten ==
  ASSUME NEW e \in Entries, NEW T \in SUBSET Clusters, NEW m, NEW b \in Seq(Bytes), b # <<>>,
         Cardinality(T) = need(Len(b)), e.size = Len(b), e.start \in Clusters
  PROVE  /\ ReadOf(e, T, Written(m, T, b)) = Reads([i \in 1..GotOf(e, T) |-> b[i]])
         /\ GotOf(e, T) = IF Len(b) <= need(Len(b)) * ClusterBytes THEN Len(b)
                          ELSE need(Len(b)) * ClusterBytes
<1> DEFINE B == ClusterBytes
           w == Written(m, T, b)
           G == GotOf(e, T)
<1>1. /\ Len(b) \in Nat /\ Len(b) # 0 /\ need(Len(b)) \in Nat
      /\ need(Len(b)) * B \in Nat /\ B \in Nat
  <2>1. Len(b) \in Nat /\ Len(b) > 0 /\ B \in Nat
    BY Sizes
  <2>2. need(Len(b)) \in Nat
    BY <2>1, NeedNat
  <2> QED BY <2>1, <2>2
<1>2. G = IF Len(b) <= need(Len(b)) * B THEN Len(b) ELSE need(Len(b)) * B
  BY DEF GotOf
<1> HIDE DEF G
<1>3. ASSUME NEW i \in 1..G PROVE ByteAt(T, w, i) = b[i]
  <2> DEFINE q == Quotient(i)
             r == Remainder(i)
             c == NthOf(T, q + 1)
  <2>1. i \in Nat /\ i >= 1 /\ i <= need(Len(b)) * B /\ i <= Len(b)
    <3>1. PICK L \in Nat, X \in Nat : L = Len(b) /\ X = need(Len(b)) * B
      BY <1>1
    <3>2. G = IF L <= X THEN L ELSE X
      BY <1>2, <3>1
    <3>3. i \in Nat /\ i >= 1 /\ i <= X /\ i <= L
      BY <3>2
    <3> QED BY <3>1, <3>3
  <2>2. q \in Nat /\ r \in 0..(B - 1) /\ i = q * B + r + 1 /\ q + 1 <= need(Len(b))
    BY <1>1, <2>1, Place
  <2>3. c \in T /\ Cardinality(Upto(T, c)) = q + 1
    <3> HIDE DEF q
    <3>1. q + 1 \in Nat /\ 1 <= q + 1
      BY <2>2
    <3> QED BY <2>2, <3>1, NthIs
  <2>4. w[c] = Piece(b, q + 1)
    <3> HIDE DEF c, q
    <3> QED BY <2>3 DEF Written
  <2>5. Piece(b, q + 1)[r + 1] = b[i]
    <3> DEFINE at == ((q + 1) - 1) * B + (r + 1)
    <3> HIDE DEF q, r
    <3>1. B \in Nat \ {0} /\ r + 1 \in 1..B
      BY <2>2, Sizes
    <3>2. Piece(b, q + 1)[r + 1] = IF at <= Len(b) THEN b[at] ELSE Zero
      BY <3>1 DEF Piece
    <3>3. at = i
      <4>1. (q + 1) - 1 = q
        BY <2>2
      <4>2. at = q * B + (r + 1) /\ q * B \in Nat
        BY <2>2, <3>1, <4>1
      <4> HIDE DEF B, at
      <4> QED BY <2>2, <4>2
    <3> HIDE DEF at
    <3> QED BY <2>1, <3>2, <3>3
  <2> QED BY <2>4, <2>5 DEF ByteAt
<1>4. [i \in 1..G |-> ByteAt(T, w, i)] = [i \in 1..G |-> b[i]]
  BY <1>3
<1>5. ~(e.start < 2)
  BY ClusterNumbers DEF Clusters
<1>6. ReadOf(e, T, w) = Reads([i \in 1..G |-> ByteAt(T, w, i)])
  BY <1>1, <1>5 DEF ReadOf, G
<1>7. ReadOf(e, T, w) = Reads([i \in 1..G |-> b[i]])
  BY <1>4, <1>6
<1> QED BY <1>2, <1>7 DEF G, w

\* This is all of it up to the limit of the store, and a beginning beyond it.
LEMMA KeptIs ==
  ASSUME NEW e \in Entries, NEW T \in SUBSET Clusters, NEW m, NEW b \in Seq(Bytes), b # <<>>,
         Cardinality(T) = need(Len(b)), e.size = Len(b), e.start \in Clusters
  PROVE  ReadOf(e, T, Written(m, T, b)) \in Store!Kept(b)
<1> DEFINE B == ClusterBytes
           G == GotOf(e, T)
           Limit == (CountMod - 1) * B
           g == [i \in 1..G |-> b[i]]
<1>1. ReadOf(e, T, Written(m, T, b)) = Reads(g) /\ Reads(g) = Store!File(g)
  <2>1. ReadOf(e, T, Written(m, T, b)) = Reads(g)
    BY ReadsWritten
  <2> QED BY <2>1 DEF Reads, Store!File
<1>2. G = IF Len(b) <= need(Len(b)) * B THEN Len(b) ELSE need(Len(b)) * B
  BY ReadsWritten
<1>3. PICK l \in Nat, n \in Nat, c \in Nat, M \in Nat :
        l = Len(b) /\ n = need(l) /\ c = ClustersFor(l) /\ M = CountMod - 1
  <2>1. Len(b) \in Nat /\ Len(b) > 0 /\ CountMod - 1 \in Nat
    BY Sizes
  <2>2. need(Len(b)) \in Nat /\ ClustersFor(Len(b)) \in Nat
    BY <2>1, NeedNat, ClustersNat
  <2> QED BY <2>1, <2>2
<1>4. /\ l > 0 /\ n >= 1 /\ n <= M /\ (c <= M => n = c)
      /\ B \in Nat /\ B >= 1 /\ n * B \in Nat /\ M * B \in Nat
  <2>1. l > 0 /\ CountMod \in Nat /\ B \in Nat /\ B >= 1
    BY <1>3, Sizes
  <2>2. n \in 1..(CountMod - 1) /\ (c < CountMod => n = c)
    BY <1>3, <2>1, NeedNat
  <2> HIDE DEF B
  <2> QED BY <1>3, <2>1, <2>2
<1>5. (c <= M <=> l <= M * B) /\ (c <= n <=> l <= n * B)
  BY <1>3, ClustersHold
<1>6. n * B <= M * B /\ 1 <= n * B
  <2>1. PICK d \in Nat : M = n + d
    <3>1. M - n \in Nat /\ M = n + (M - n)
      BY <1>4
    <3> QED BY <3>1
  <2>2. M * B = n * B + d * B /\ d * B \in Nat
    BY <1>4, <2>1
  <2>3. PICK x \in Nat : n = x + 1
    <3>1. n - 1 \in Nat /\ n = (n - 1) + 1
      BY <1>4
    <3> QED BY <3>1
  <2>4. n * B = x * B + B /\ x * B \in Nat
    BY <1>4, <2>3
  <2> HIDE DEF B
  <2> QED BY <1>4, <2>2, <2>4
<1>7. Limit = M * B /\ G = IF l <= n * B THEN l ELSE n * B
  BY <1>2, <1>3
<1> HIDE DEF B, G, Limit
<1>8. CASE l <= Limit
  <2>1. G = l
    BY <1>4, <1>5, <1>7, <1>8
  <2>2. g = b
    BY <1>3, <2>1
  <2>3. Store!Kept(b) = {Store!File(b)}
    BY <1>3, <1>8 DEF Store!Kept, Limit, B
  <2> QED BY <1>1, <2>2, <2>3
<1>9. CASE ~(l <= Limit)
  <2>1. G \in 1..(l - 1) /\ G \in Nat
    <3>1. PICK X \in Nat, Y \in Nat : X = n * B /\ Y = M * B
      BY <1>4
    <3>2. ~(l <= X) /\ X >= 1
      BY <1>6, <1>7, <1>9, <3>1
    <3> QED BY <1>7, <3>1, <3>2
  <2>2. g = SubSeq(b, 1, G)
    BY <1>3, <2>1
  <2>3. Store!Kept(b) = {Store!File(SubSeq(b, 1, k)) : k \in 1..(Len(b) - 1)}
    BY <1>3, <1>9 DEF Store!Kept, Limit, B
  <2> HIDE DEF g
  <2> QED BY <1>1, <1>3, <2>1, <2>2, <2>3
<1> QED BY <1>8, <1>9

-----------------------------------------------------------------------------
(* The driver implements FileStore.                                        *)

\* What the volume holds under a name, in sight or not.
Held(f, d, m, n) ==
  {read_entry(f, m, d[i]) : i \in {j \in Entered(d) : d[j].name = n}}

\* A name that is found is that of a file.
LEMMA FoundIs ==
  ASSUME NEW d \in [Slots -> Entries], NEW n \in ShortNames
  PROVE  /\ \A i : i \in Found(d, n) <=> i \in Seen(d) /\ i \in Entered(d) /\ d[i].name = n
         /\ Found(d, n) \in SUBSET Nat
         /\ Found(d, n) # {} =>
              /\ Least(Found(d, n)) \in Found(d, n)
              /\ \A y \in Found(d, n) : Least(Found(d, n)) <= y
<1>1. \A i \in Found(d, n) : i \in Slots /\ d[i] # Deleted /\ d[i] # EndMark
  BY NoMark, SeenIs DEF Found
<1>2. \A i : i \in Found(d, n) <=> i \in Seen(d) /\ i \in Entered(d) /\ d[i].name = n
  BY <1>1 DEF Found, Entered
<1>3. Found(d, n) \in SUBSET Nat
  BY <1>1, SlotNumbers
<1> QED BY <1>2, <1>3, LeastIn

\* m2 differs from m in the clusters C only.
FilledIn(C, m, m2) == \A c \in Clusters : c \notin C => m2[c] = m[c]

\* An entry of a sound volume is replaced, and its chain, and the clusters of
\* the new chain are filled.
EntryStep(f, g, d, k, e, d2, m, m2) ==
  /\ f \in Table /\ Ascending(f) /\ g \in Table /\ Ascending(g)
  /\ d \in [Slots -> Entries] /\ VolumeOK(f, d) /\ k \in Slots
  /\ e \in Entries /\ d2 = [d EXCEPT ![k] = e]
  /\ Rechained(f, g, OldChain(f, d, k), Chain(g, e.start))
  /\ FilledIn(Chain(g, e.start), m, m2)

\* Every other entry, hidden or not, reads as before.
LEMMA EntryReads ==
  ASSUME NEW f, NEW g, NEW d, NEW k, NEW e, NEW d2, NEW m, NEW m2,
         EntryStep(f, g, d, k, e, d2, m, m2), NEW i \in Entered(d), i # k
  PROVE  read_entry(g, m2, d[i]) = read_entry(f, m, d[i])
<1> DEFINE old == OldChain(f, d, k)
           new == Chain(g, e.start)
<1>0. /\ f \in Table /\ Ascending(f) /\ g \in Table /\ Ascending(g)
      /\ d \in [Slots -> Entries] /\ VolumeOK(f, d)
      /\ Rechained(f, g, old, new) /\ FilledIn(new, m, m2)
  BY DEF EntryStep
<1>1. d[i] \in Entries
  BY <1>0 DEF Entered
<1>2. ChainIn(f, d, i) \in SUBSET Clusters
  BY <1>0, ChainIs DEF ChainIn
<1>3. ASSUME NEW c \in ChainIn(f, d, i) PROVE c \notin new /\ g[c] = f[c]
  <2>1. c \notin old
    BY <1>0, <1>3 DEF OldChain, VolumeOK
  <2>2. c \in Clusters /\ f[c] # 0
    <3>1. c \in Clusters \ FreeIn(f)
      BY <1>0, <1>3 DEF VolumeOK
    <3> QED BY <3>1 DEF FreeIn
  <2> HIDE DEF old, new
  <2> QED BY <1>0, <2>1, <2>2 DEF Rechained
<1>4. Chain(g, d[i].start) = ChainIn(f, d, i)
  BY <1>0, <1>3, SameChain DEF ChainIn
<1>5. \A c \in ChainIn(f, d, i) : m2[c] = m[c]
  BY <1>0, <1>2, <1>3 DEF FilledIn
<1>6. ReadOf(d[i], ChainIn(f, d, i), m2) = ReadOf(d[i], ChainIn(f, d, i), m)
  BY <1>1, <1>2, <1>5, ReadsChainOnly
<1>7. read_entry(g, m2, d[i]) = ReadOf(d[i], ChainIn(f, d, i), m2)
  BY <1>4, ReadIs
<1>8. read_entry(f, m, d[i]) = ReadOf(d[i], ChainIn(f, d, i), m)
  BY ReadIs DEF ChainIn
<1> QED BY <1>6, <1>7, <1>8

\* The other entries are those there were.
LEMMA OtherEntries ==
  ASSUME NEW f, NEW g, NEW d, NEW k, NEW e, NEW d2, NEW m, NEW m2,
         EntryStep(f, g, d, k, e, d2, m, m2), NEW i, i # k
  PROVE  /\ i \in Entered(d2) <=> i \in Entered(d)
         /\ i \in Slots => d2[i] = d[i]
         /\ i \in Entered(d) => read_entry(g, m2, d2[i]) = read_entry(f, m, d[i])
<1>1. d \in [Slots -> Entries] /\ k \in Slots /\ d2 = [d EXCEPT ![k] = e]
  BY DEF EntryStep
<1>2. (i \in Entered(d2) <=> i \in Entered(d)) /\ (i \in Slots => d2[i] = d[i])
  BY <1>1, EnteredIs
<1>3. i \in Entered(d) => i \in Slots
  BY DEF Entered
<1> QED BY <1>2, <1>3, EntryReads

LEMMA StepTypes ==
  ASSUME NEW f, NEW g, NEW d, NEW k, NEW e, NEW d2, NEW m, NEW m2,
         EntryStep(f, g, d, k, e, d2, m, m2)
  PROVE  /\ d \in [Slots -> Entries] /\ d2 \in [Slots -> Entries] /\ k \in Slots /\ d2[k] = e
         /\ d2 = [d EXCEPT ![k] = e]
<1>1. d \in [Slots -> Entries] /\ k \in Slots /\ d2 = [d EXCEPT ![k] = e] /\ e \in Entries
  BY DEF EntryStep
<1> QED BY <1>1

\* What is held under a name that the step is not about.
LEMMA OthersHeld ==
  ASSUME NEW f, NEW g, NEW d, NEW k, NEW e, NEW d2, NEW m, NEW m2,
         EntryStep(f, g, d, k, e, d2, m, m2), NEW n, n # e.name,
         k \in Entered(d) => d[k].name # n
  PROVE  Held(g, d2, m2, n) = Held(f, d, m, n)
<1> DEFINE I == {j \in Entered(d) : d[j].name = n}
           J == {j \in Entered(d2) : d2[j].name = n}
<1>1. d2[k] = e
  BY StepTypes
<1>2. \A i : i # k => /\ i \in Entered(d2) <=> i \in Entered(d)
                      /\ i \in Slots => d2[i] = d[i]
                      /\ i \in Entered(d) => read_entry(g, m2, d2[i]) = read_entry(f, m, d[i])
  BY OtherEntries
<1>3. Entered(d) \subseteq Slots /\ Entered(d2) \subseteq Slots
  BY DEF Entered
<1>4. k \notin I /\ k \notin J
  BY <1>1
<1>5. \A i : i \in I <=> i \in J
  BY <1>2, <1>3, <1>4
<1>6. \A i \in I : read_entry(g, m2, d2[i]) = read_entry(f, m, d[i])
  BY <1>2, <1>4
<1> HIDE DEF I, J
<1>7. {read_entry(g, m2, d2[i]) : i \in J} = {read_entry(f, m, d[i]) : i \in I}
  BY <1>5, <1>6
<1> QED BY <1>7 DEF Held, I, J

\* And under the one it is about.
LEMMA OneHeld ==
  ASSUME NEW f, NEW g, NEW d, NEW k, NEW e, NEW d2, NEW m, NEW m2,
         EntryStep(f, g, d, k, e, d2, m, m2), NEW n
  PROVE  /\ Held(g, d2, m2, n) \subseteq Held(f, d, m, n) \union {read_entry(g, m2, e)}
         /\ e \in {EndMark, Deleted} => Held(g, d2, m2, n) \subseteq Held(f, d, m, n)
         /\ e \notin {EndMark, Deleted} /\ e.name = n => read_entry(g, m2, e) \in Held(g, d2, m2, n)
<1>1. d \in [Slots -> Entries] /\ k \in Slots /\ d2[k] = e /\ d2 = [d EXCEPT ![k] = e]
  BY StepTypes
<1>2. \A i : i # k => /\ i \in Entered(d2) <=> i \in Entered(d)
                      /\ i \in Slots => d2[i] = d[i]
                      /\ i \in Entered(d) => read_entry(g, m2, d2[i]) = read_entry(f, m, d[i])
  BY OtherEntries
<1>3. k \in Entered(d2) <=> e \notin {EndMark, Deleted}
  BY <1>1 DEF Entered
<1>4. ASSUME NEW x \in Held(g, d2, m2, n)
      PROVE  x \in Held(f, d, m, n) \/ (x = read_entry(g, m2, e) /\ e \notin {EndMark, Deleted})
  <2>1. PICK i \in Entered(d2) : d2[i].name = n /\ x = read_entry(g, m2, d2[i])
    BY <1>4 DEF Held
  <2>2. CASE i = k
    BY <1>1, <1>3, <2>1, <2>2
  <2>3. CASE i # k
    <3>1. i \in Entered(d) /\ d2[i] = d[i] /\ x = read_entry(f, m, d[i])
      BY <1>2, <2>1, <2>3 DEF Entered
    <3>2. d[i].name = n
      BY <2>1, <3>1
    <3> QED BY <3>1, <3>2 DEF Held
  <2> QED BY <2>2, <2>3
<1>5. ASSUME e \notin {EndMark, Deleted}, e.name = n PROVE read_entry(g, m2, e) \in Held(g, d2, m2, n)
  BY <1>1, <1>3, <1>5 DEF Held
<1> QED BY <1>4, <1>5

\* A file is entered: the other names read as before, unless the new entry
\* takes the place of an end mark that has hidden them.
LEMMA OthersRead ==
  ASSUME NEW f, NEW g, NEW d, NEW k, NEW e, NEW d2, NEW m, NEW m2,
         EntryStep(f, g, d, k, e, d2, m, m2), Writable(d, k), e # EndMark,
         NEW n \in ShortNames, n # e.name, k \in Entered(d) => d[k].name # n
  PROVE  \/ read_file(g, d2, m2, n) = read_file(f, d, m, n)
         \/ /\ ~NamesOK(d) /\ read_file(f, d, m, n) = Fails("missing")
            /\ read_file(g, d2, m2, n) \in Held(f, d, m, n)
<1> DEFINE F == Found(d, n)
           F2 == Found(d2, n)
<1>1. d \in [Slots -> Entries] /\ d2 \in [Slots -> Entries] /\ k \in Slots /\ d2[k] = e
      /\ d2 = [d EXCEPT ![k] = e]
  BY StepTypes
<1>2. \A i : i # k => /\ i \in Entered(d2) <=> i \in Entered(d)
                      /\ i \in Slots => d2[i] = d[i]
                      /\ i \in Entered(d) => read_entry(g, m2, d2[i]) = read_entry(f, m, d[i])
  BY OtherEntries
<1>3. Seen(d) \subseteq Seen(d2) /\ Seen(d) \subseteq Slots /\ Seen(d2) \subseteq Slots
  <2>1. Seen(d) \subseteq Seen(d2)
    BY <1>1, Filed
  <2> QED BY <2>1 DEF Seen
<1>4. /\ \A i : i \in F <=> i \in Seen(d) /\ i \in Entered(d) /\ d[i].name = n
      /\ F \in SUBSET Nat
      /\ F # {} => Least(F) \in F /\ \A y \in F : Least(F) <= y
  BY <1>1, FoundIs
<1>5. /\ \A i : i \in F2 <=> i \in Seen(d2) /\ i \in Entered(d2) /\ d2[i].name = n
      /\ F2 \in SUBSET Nat
      /\ F2 # {} => Least(F2) \in F2 /\ \A y \in F2 : Least(F2) <= y
  BY <1>1, FoundIs
<1> HIDE DEF F, F2
<1>6. \A i \in F2 : /\ i # k /\ i \in Entered(d) /\ d2[i] = d[i] /\ d[i].name = n
                    /\ i \in Slots /\ (i \in Seen(d) => i \in F)
  BY <1>1, <1>2, <1>3, <1>4, <1>5
<1>7. F \subseteq F2
  BY <1>2, <1>3, <1>4, <1>5
<1>8. /\ read_file(f, d, m, n) = IF F = {} THEN Fails("missing") ELSE read_entry(f, m, d[Least(F)])
      /\ read_file(g, d2, m2, n) = IF F2 = {} THEN Fails("missing") ELSE read_entry(g, m2, d2[Least(F2)])
  BY DEF read_file, F, F2
<1>9. CASE F2 = {}
  <2>1. F = {}
    BY <1>7, <1>9
  <2> QED BY <1>8, <1>9, <2>1
<1>10. CASE F2 # {}
  <2>1. PICK i \in F2 : i = Least(F2)
    BY <1>5, <1>10
  <2>2. read_file(g, d2, m2, n) = read_entry(f, m, d[i])
    BY <1>2, <1>6, <1>8, <1>10, <2>1
  <2>3. CASE F = {}
    <3>1. i \notin Seen(d) /\ i \in Entered(d)
      BY <1>6, <2>3
    <3>2. ~NamesOK(d)
      BY <3>1 DEF NamesOK
    <3>3. read_entry(f, m, d[i]) \in Held(f, d, m, n)
      BY <1>6 DEF Held
    <3> QED BY <1>8, <2>2, <2>3, <3>2, <3>3
  <2>4. CASE F # {}
    <3>1. PICK l \in F : l = Least(F)
      BY <1>4, <2>4
    <3>2. i \in Nat /\ l \in Nat /\ i <= l /\ \A y \in F : l <= y
      BY <1>4, <1>5, <1>7, <2>1, <2>4, <3>1
    <3>3. i \in Seen(d)
      <4>1. CASE i = l
        BY <1>4, <4>1
      <4>2. CASE i < l
        BY <1>4, <1>6, <4>2, SeenIs
      <4> QED BY <3>2, <4>1, <4>2
    <3>4. i = l
      BY <1>6, <3>2, <3>3
    <3> QED BY <1>8, <2>2, <2>4, <3>1, <3>4
  <2> QED BY <2>3, <2>4
<1> QED BY <1>9, <1>10

\* The file that is entered is the first of its name.
LEMMA OneRead ==
  ASSUME NEW f, NEW g, NEW d, NEW k, NEW e, NEW d2, NEW m, NEW m2,
         EntryStep(f, g, d, k, e, d2, m, m2), Writable(d, k), e # EndMark, e # Deleted,
         NEW n \in ShortNames, n = e.name, \A i \in Found(d, n) : k <= i
  PROVE  read_file(g, d2, m2, n) = read_entry(g, m2, e)
<1> DEFINE F == Found(d, n)
           F2 == Found(d2, n)
<1>1. d \in [Slots -> Entries] /\ d2 \in [Slots -> Entries] /\ k \in Slots /\ d2[k] = e
      /\ d2 = [d EXCEPT ![k] = e]
  BY StepTypes
<1>2. \A i : i # k => /\ i \in Entered(d2) <=> i \in Entered(d)
                      /\ i \in Slots => d2[i] = d[i]
  BY OtherEntries
<1>3. k \in Seen(d2) /\ k \in Entered(d2) /\ Seen(d2) \subseteq Slots
  <2>1. k \in Seen(d2)
    BY <1>1, Filed
  <2>2. k \in Entered(d2) /\ Seen(d2) \subseteq Slots
    BY <1>1 DEF Entered, Seen
  <2> QED BY <2>1, <2>2
<1>4. /\ \A i : i \in F <=> i \in Seen(d) /\ i \in Entered(d) /\ d[i].name = n
      /\ \A i \in F : k <= i
  BY <1>1, FoundIs
<1>5. /\ \A i : i \in F2 <=> i \in Seen(d2) /\ i \in Entered(d2) /\ d2[i].name = n
      /\ F2 \in SUBSET Nat
      /\ F2 # {} => Least(F2) \in F2 /\ \A y \in F2 : Least(F2) <= y
  BY <1>1, FoundIs
<1>6. read_file(g, d2, m2, n) = IF F2 = {} THEN Fails("missing") ELSE read_entry(g, m2, d2[Least(F2)])
  BY DEF read_file
<1> HIDE DEF F, F2
<1>7. k \in F2
  BY <1>1, <1>3, <1>5
<1>8. PICK i \in F2 : i = Least(F2)
  BY <1>5, <1>7
<1>9. i \in Nat /\ k \in Nat /\ i <= k /\ i \in Slots
  BY <1>3, <1>5, <1>7, <1>8
<1>10. i = k
  <2> SUFFICES ASSUME i < k PROVE FALSE
    BY <1>9
  <2>1. i \in Seen(d)
    BY <1>9, SeenIs DEF Writable
  <2>2. i # k
    BY <1>9
  <2>3. i \in Entered(d) /\ d2[i] = d[i] /\ d2[i].name = n
    BY <1>2, <1>5, <1>8, <1>9, <2>2
  <2>4. i \in F
    BY <1>4, <2>1, <2>3
  <2> QED BY <1>4, <1>9, <2>4
<1> QED BY <1>1, <1>6, <1>7, <1>8, <1>10

\* An end mark is written over the first entry of a name: the name is missing,
\* and others are as before or missing too.
LEMMA MarkReads ==
  ASSUME NEW f, NEW g, NEW d, NEW k, NEW e, NEW d2, NEW m, NEW m2,
         EntryStep(f, g, d, k, e, d2, m, m2), e = EndMark, k \in Seen(d),
         NEW n \in ShortNames
  PROVE  /\ (\A i \in Found(d, n) : k <= i) => read_file(g, d2, m2, n) = Fails("missing")
         /\ (k \in Entered(d) => d[k].name # n) =>
              read_file(g, d2, m2, n) \in {read_file(f, d, m, n), Fails("missing")}
<1> DEFINE F == Found(d, n)
           F2 == Found(d2, n)
<1>1. d \in [Slots -> Entries] /\ d2 \in [Slots -> Entries] /\ k \in Slots /\ d2[k] = e
      /\ d2 = [d EXCEPT ![k] = e]
  BY StepTypes
<1>2. \A i : i # k => /\ i \in Entered(d2) <=> i \in Entered(d)
                      /\ i \in Slots => d2[i] = d[i]
                      /\ i \in Entered(d) => read_entry(g, m2, d2[i]) = read_entry(f, m, d[i])
  BY OtherEntries
<1>3. /\ Seen(d2) \subseteq Slots /\ k \notin Seen(d2) /\ Seen(d) \subseteq Slots
      /\ \A i \in Seen(d2) : \A j \in Slots : j < i => j \in Seen(d2)
  BY <1>1, SeenIs
<1>4. \A i \in Slots : i \in Nat
  BY SlotNumbers
<1>5. \A i \in Seen(d2) : i < k /\ i \in Seen(d)
  <2> SUFFICES ASSUME NEW i \in Seen(d2) PROVE i < k /\ i \in Seen(d)
    OBVIOUS
  <2>1. i \in Nat /\ k \in Nat /\ i # k /\ ~(k < i) /\ i \in Slots
    BY <1>1, <1>3, <1>4
  <2>2. i < k
    BY <2>1
  <2> QED BY <2>1, <2>2, SeenIs
<1>6. /\ \A i : i \in F <=> i \in Seen(d) /\ i \in Entered(d) /\ d[i].name = n
      /\ F \in SUBSET Nat
      /\ F # {} => Least(F) \in F /\ \A y \in F : Least(F) <= y
  BY <1>1, FoundIs
<1>7. /\ \A i : i \in F2 <=> i \in Seen(d2) /\ i \in Entered(d2) /\ d2[i].name = n
      /\ F2 \in SUBSET Nat
      /\ F2 # {} => Least(F2) \in F2 /\ \A y \in F2 : Least(F2) <= y
  BY <1>1, FoundIs
<1>8. /\ read_file(f, d, m, n) = IF F = {} THEN Fails("missing") ELSE read_entry(f, m, d[Least(F)])
      /\ read_file(g, d2, m2, n) = IF F2 = {} THEN Fails("missing") ELSE read_entry(g, m2, d2[Least(F2)])
  BY DEF read_file
<1>9. ASSUME \A i \in F : k <= i PROVE F2 = {}
  <2> HIDE DEF F, F2
  <2> SUFFICES ASSUME NEW i \in F2 PROVE FALSE
    OBVIOUS
  <2>1. i < k /\ i \in Seen(d) /\ i # k /\ i \in Slots /\ k \in Nat /\ i \in Nat
    BY <1>1, <1>3, <1>4, <1>5, <1>7
  <2>2. i \in F
    BY <1>2, <1>6, <1>7, <2>1
  <2> QED BY <1>9, <2>1, <2>2
<1> HIDE DEF F, F2
<1>10. \A i \in F2 : i \in F /\ d2[i] = d[i] /\ i # k /\ i \in Seen(d2)
  <2> SUFFICES ASSUME NEW i \in F2 PROVE i \in F /\ d2[i] = d[i] /\ i # k /\ i \in Seen(d2)
    OBVIOUS
  <2>1. i \in Seen(d2) /\ i \in Seen(d) /\ i # k /\ i \in Slots
    BY <1>3, <1>5, <1>7
  <2> QED BY <1>2, <1>6, <1>7, <2>1
<1>11. ASSUME k \in Entered(d) => d[k].name # n, F2 # {}
       PROVE  read_file(g, d2, m2, n) = read_file(f, d, m, n)
  <2>1. PICK i \in F2 : i = Least(F2)
    BY <1>7, <1>11
  <2>2. F # {}
    BY <1>10
  <2>3. PICK l \in F : l = Least(F)
    BY <1>6, <2>2
  <2>4. l \in Nat /\ i \in Nat /\ l <= i /\ l \in Slots /\ l # k /\ i \in Seen(d2) /\ i \in Slots
    BY <1>3, <1>6, <1>7, <1>10, <1>11, <2>2, <2>3
  <2>5. l \in Seen(d2)
    BY <1>3, <2>4
  <2>6. l \in F2
    BY <1>2, <1>6, <1>7, <2>4, <2>5
  <2>7. i = l
    BY <1>7, <1>11, <2>1, <2>4, <2>6
  <2>8. read_entry(g, m2, d2[i]) = read_entry(f, m, d[i])
    BY <1>2, <1>6, <1>10
  <2> QED BY <1>8, <1>11, <2>1, <2>2, <2>3, <2>7, <2>8
<1>12. F2 = {} => read_file(g, d2, m2, n) = Fails("missing")
  BY <1>8
<1> QED BY <1>9, <1>11, <1>12 DEF F

\* While the volume is not damaged, the files are what is read.
LEMMA FilesAre ==
  ASSUME ~damaged
  PROVE  /\ Files = [n \in ShortNames |-> read_file(fat, dir, data, n)]
         /\ Stored = [n \in ShortNames |-> Held(fat, dir, data, n)]
  BY DEF Files, Stored, Held

LEMMA FilesAfter ==
  ASSUME ~damaged'
  PROVE  /\ Files' = [n \in ShortNames |-> read_file(fat', dir', data', n)]
         /\ Stored' = [n \in ShortNames |-> Held(fat', dir', data', n)]
  BY DEF Files, Stored, Held, read_file, read_entry, Found, Seen, Entered

\* An entry is written and nothing is damaged: the step the store takes.
LEMMA StoreStep ==
  ASSUME RelativePaths, SInv, NInv, VolumeOK(fat, dir), ~damaged, ~damaged',
         NEW p \in Paths, Proceeds(p), recreated' = recreated,
         NEW g \in Table, Ascending(g), NEW start \in {0} \union Clusters, NEW len \in Nat,
         Rechained(fat, g, OldChain(fat, dir, WriteSlot(p)), Chain(g, start)),
         FilledIn(Chain(g, start), data, data'),
         fat' = g, dir' = Updated(p, start, len),
         NEW S, read_entry(g, data', NewOne(p, start, len)) \in S
  PROVE  Store!Becomes(Component[p], S)
<1> DEFINE e == NewOne(p, start, len)
           k == WriteSlot(p)
           x == Component[p]
<1>1. dir \in [Slots -> Entries] /\ fat \in Table /\ Ascending(fat)
  BY DEF SInv, TypeOK, Table
<1>2. /\ e \in Entries /\ e.name = WriteName(p) /\ e.start = start
      /\ e # EndMark /\ e # Deleted /\ Updated(p, start, len) = [dir EXCEPT ![k] = e]
  BY <1>1, NewOneIs
<1>3. WriteName(p) = x /\ x \in ShortNames
  BY FatAssumption DEF WriteName, RelativePaths
<1>4. /\ Writable(dir, k) /\ k \in Slots
      /\ \A i \in Found(dir, x) : k <= i
      /\ k \in Entered(dir) => dir[k].name = x
  BY <1>1, SlotOf DEF Writable
<1>5. read_entry(g, data', e) \in S
  OBVIOUS
<1> HIDE DEF e, k
<1>6. PICK d2, m2 : d2 = dir' /\ m2 = data'
  OBVIOUS
<1>7. EntryStep(fat, g, dir, k, e, d2, data, m2)
  BY <1>1, <1>2, <1>4, <1>6 DEF EntryStep, k
<1> HIDE DEF x
<1>8. read_file(g, d2, m2, x) = read_entry(g, m2, e)
  BY <1>2, <1>3, <1>4, <1>7, OneRead
<1>9. /\ Held(g, d2, m2, x) \subseteq Held(fat, dir, data, x) \union {read_entry(g, m2, e)}
      /\ read_entry(g, m2, e) \in Held(g, d2, m2, x)
  BY <1>2, <1>3, <1>7, OneHeld
<1>10. ASSUME NEW n \in ShortNames, n # x
       PROVE  /\ Held(g, d2, m2, n) = Held(fat, dir, data, n)
              /\ \/ read_file(g, d2, m2, n) = read_file(fat, dir, data, n)
                 \/ /\ ~NamesOK(dir) /\ read_file(fat, dir, data, n) = Fails("missing")
                    /\ read_file(g, d2, m2, n) \in Held(fat, dir, data, n)
  BY <1>2, <1>3, <1>4, <1>7, <1>10, OthersHeld, OthersRead
<1>11. ~NamesOK(dir) => recreated
  BY DEF NInv
<1>12. /\ Files = [n \in ShortNames |-> read_file(fat, dir, data, n)]
       /\ Stored = [n \in ShortNames |-> Held(fat, dir, data, n)]
  BY FilesAre
<1>13. /\ Files' = [n \in ShortNames |-> read_file(g, d2, m2, n)]
       /\ Stored' = [n \in ShortNames |-> Held(g, d2, m2, n)]
  BY <1>6, FilesAfter
<1>14. Files'[x] \in S /\ Files'[x] \in Stored'[x] /\ Stored'[x] \subseteq Stored[x] \union S
  BY <1>3, <1>5, <1>6, <1>8, <1>9, <1>12, <1>13
<1>15. ASSUME NEW n \in ShortNames \ {x} PROVE Store!Stays(n)
  <2>1. Stored'[n] = Stored[n]
    BY <1>10, <1>12, <1>13
  <2>2. Files'[n] = Files[n] \/ (recreated /\ Files[n] = Store!Missing /\ Files'[n] \in Stored[n])
    BY <1>10, <1>11, <1>12, <1>13 DEF Fails, Store!Missing
  <2> QED BY <2>1, <2>2 DEF Store!Stays
<1> QED BY <1>14, <1>15 DEF Store!Becomes, x

LEMMA EmptyInStore ==
  ASSUME RelativePaths, SInv, NInv, ~damaged, NEW p \in Paths, Proceeds(p),
         fat' = Freed(p), dir' = Updated(p, 0, 0),
         data' = data, damaged' = damaged, recreated' = recreated
  PROVE  Store!Becomes(Component[p], {Store!File(<<>>)})
<1> DEFINE g == Freed(p)
<1>1. /\ g \in Table /\ Ascending(g)
      /\ Rechained(fat, g, OldChain(fat, dir, WriteSlot(p)), Chain(g, 0))
  BY EmptyChain
<1>2. fat' = g /\ VolumeOK(fat, dir)
  BY DEF SInv
<1>3. FilledIn(Chain(g, 0), data, data')
  BY DEF FilledIn
<1>4. read_entry(g, data', NewOne(p, 0, 0)) \in {Store!File(<<>>)}
  <2>1. NewOne(p, 0, 0).size = 0
    BY DEF NewOne
  <2> QED BY <2>1 DEF read_entry, Reads, Store!File
<1> HIDE DEF g
<1>5. PICK S : S = {Store!File(<<>>)}
  OBVIOUS
<1>6. Store!Becomes(Component[p], S)
  BY <1>1, <1>2, <1>3, <1>4, <1>5, StoreStep
<1> QED BY <1>5, <1>6

LEMMA ContentsInStore ==
  ASSUME RelativePaths, SInv, NInv, ~damaged, NEW p \in Paths, NEW b \in Contents,
         WriteSucceeds(p, b)
  PROVE  Store!Becomes(Component[p], Store!Kept(b))
<1> DEFINE T == FirstFree(Freed(p), need(Len(b)))
           g == Linked(Freed(p), T)
           w == Written(data, T, b)
           e == NewOne(p, Least(T), Len(b))
<1>1. /\ Proceeds(p) /\ b # <<>> /\ fat' = g /\ dir' = Updated(p, Least(T), Len(b))
      /\ data' = w /\ ~damaged' /\ recreated' = recreated
  BY DEF WriteSucceeds, Follow
<1>2. /\ T \in SUBSET Clusters /\ Cardinality(T) = need(Len(b)) /\ Least(T) \in Clusters
      /\ g \in Table /\ Ascending(g) /\ Chain(g, Least(T)) = T
      /\ Rechained(fat, g, OldChain(fat, dir, WriteSlot(p)), T)
  BY NewChain
<1> HIDE DEF T
<1>3. FilledIn(T, data, w)
  BY DEF FilledIn, Written
<1> HIDE DEF g, w
<1>4. b \in Seq(Bytes) /\ Len(b) \in Nat
  BY ContentsLength
<1>5. dir \in [Slots -> Entries] /\ VolumeOK(fat, dir)
  BY DEF SInv, TypeOK
<1>6. e \in Entries /\ e.size = Len(b) /\ e.start = Least(T)
  <2>1. PICK start \in {0} \union Clusters, len \in Nat : start = Least(T) /\ len = Len(b)
    BY <1>2, <1>4
  <2>2. LET x == NewOne(p, start, len) IN x \in Entries /\ x.size = len /\ x.start = start
    BY <1>1, <1>5, NewOneIs
  <2> QED BY <2>1, <2>2
<1> HIDE DEF e
<1>7. ReadOf(e, T, w) \in Store!Kept(b)
  BY <1>1, <1>2, <1>4, <1>6, KeptIs DEF w
<1>8. read_entry(g, w, e) = ReadOf(e, T, w)
  BY <1>2, <1>6, ReadIs
<1>9. read_entry(g, data', NewOne(p, Least(T), Len(b))) \in Store!Kept(b)
  BY <1>1, <1>7, <1>8 DEF e
<1>10. PICK S : S = Store!Kept(b)
  OBVIOUS
<1>11. Store!Becomes(Component[p], S)
  BY <1>1, <1>2, <1>3, <1>4, <1>5, <1>9, <1>10, StoreStep
<1> QED BY <1>10, <1>11

\* fat16_create_file for a file that exists.
LEMMA RecreateInStore ==
  ASSUME SInv, ~damaged, NEW p \in Paths, create_file(p), Exists(p)
  PROVE  Store!Recreate(Component[p])
<1> DEFINE g == Freed(p)
           k == WriteSlot(p)
           x == Component[p]
<1>1. /\ Proceeds(p) /\ fat' = g /\ dir' = [dir EXCEPT ![k] = EndMark]
      /\ data' = data /\ ~damaged'
  BY RecreatedIs
<1>2. recreated' = TRUE
  BY DEF create_file
<1>3. /\ g \in Table /\ Ascending(g) /\ Chain(g, 0) = {}
      /\ Rechained(fat, g, OldChain(fat, dir, k), Chain(g, 0))
  BY <1>1, EmptyChain
<1>4. dir \in [Slots -> Entries] /\ fat \in Table /\ Ascending(fat) /\ VolumeOK(fat, dir)
  BY DEF SInv, TypeOK, Table
<1>5. /\ k \in Slots /\ k \in Seen(dir) /\ k \in Entered(dir) /\ dir[k].name = x
      /\ \A i \in Found(dir, x) : k <= i
  BY <1>1, <1>4, SlotOf DEF Writable
<1>6. x \in ShortNames
  BY FatAssumption
<1>7. PICK e, d2, m2 : e = EndMark /\ d2 = dir' /\ m2 = data'
  OBVIOUS
<1>8. e \in Entries /\ e.start = 0 /\ e.name = "end" /\ e \in {EndMark, Deleted}
  BY <1>7, MarksAreEntries DEF EndMark
<1>9. FilledIn(Chain(g, 0), data, m2)
  BY <1>1, <1>7 DEF FilledIn
<1> HIDE DEF g, k
<1>10. EntryStep(fat, g, dir, k, e, d2, data, m2)
  BY <1>1, <1>3, <1>4, <1>5, <1>7, <1>8, <1>9 DEF EntryStep
<1> HIDE DEF x
<1>11. read_file(g, d2, m2, x) = Fails("missing")
  BY <1>5, <1>6, <1>7, <1>10, MarkReads
<1>12. Held(g, d2, m2, x) \subseteq Held(fat, dir, data, x)
  BY <1>8, <1>10, OneHeld
<1>13. ASSUME NEW n \in ShortNames, n # x
       PROVE  /\ Held(g, d2, m2, n) = Held(fat, dir, data, n)
              /\ read_file(g, d2, m2, n) \in {read_file(fat, dir, data, n), Fails("missing")}
  <2>1. n # e.name
    BY <1>8, FatAssumption
  <2>2. Held(g, d2, m2, n) = Held(fat, dir, data, n)
    BY <1>5, <1>10, <1>13, <2>1, OthersHeld
  <2>3. read_file(g, d2, m2, n) \in {read_file(fat, dir, data, n), Fails("missing")}
    BY <1>5, <1>7, <1>10, <1>13, MarkReads
  <2> QED BY <2>2, <2>3
<1>14. read_file(fat, dir, data, x) \in Held(fat, dir, data, x)
  <2>1. Found(dir, x) # {}
    BY DEF Exists, x
  <2>2. Least(Found(dir, x)) \in Entered(dir) /\ dir[Least(Found(dir, x))].name = x
    BY <1>4, <1>6, <2>1, FoundIs
  <2> QED BY <2>1, <2>2 DEF read_file, Held
<1>15. /\ Files = [n \in ShortNames |-> read_file(fat, dir, data, n)]
       /\ Stored = [n \in ShortNames |-> Held(fat, dir, data, n)]
  BY FilesAre
<1>16. /\ Files' = [n \in ShortNames |-> read_file(g, d2, m2, n)]
       /\ Stored' = [n \in ShortNames |-> Held(g, d2, m2, n)]
  BY <1>1, <1>7, FilesAfter
<1>17. /\ Files[x] \in Stored[x] /\ Files'[x] = Store!Missing /\ Stored'[x] \subseteq Stored[x]
  BY <1>6, <1>11, <1>12, <1>14, <1>15, <1>16 DEF Fails, Store!Missing
<1>18. \A n \in ShortNames \ {x} : Files'[n] \in {Files[n], Store!Missing} /\ Stored'[n] = Stored[n]
  BY <1>13, <1>15, <1>16 DEF Fails, Store!Missing
<1> QED BY <1>2, <1>17, <1>18 DEF Store!Recreate, x

\* What is read is never unknown.
LEMMA NotUnknown ==
  ASSUME ~damaged, NEW n \in ShortNames
  PROVE  Files[n] # Store!Unknown /\ (Found(dir, n) = {} => Files[n] = Store!Missing)
<1>1. Files[n] = read_file(fat, dir, data, n)
  BY FilesAre
<1>2. read_file(fat, dir, data, n) # Fails("unknown")
  BY DEF read_file, read_entry, Reads, Fails
<1>3. Found(dir, n) = {} => read_file(fat, dir, data, n) = Fails("missing")
  BY DEF read_file
<1> QED BY <1>1, <1>2, <1>3 DEF Fails, Store!Unknown, Store!Missing

LEMMA StepInStore ==
  ASSUME RelativePaths, SInv, NInv, [Next]_vars
  PROVE  [Store!Next]_<<Files, Stored, recreated>>
<1>0. TypeOK'
  BY NextTypes DEF SInv
<1>1. damaged => damaged'
  BY DEF Next, create_file, write_file, WriteEmpty, WriteSucceeds, WriteAllocFails,
         WriteDataFails, Unnoticed, vars
<1>2. CASE damaged'
  <2>1. Files' = [n \in ShortNames |-> Store!Unknown]
    BY <1>2 DEF Files, Fails, Store!Unknown
  <2>2. Stored' = [n \in ShortNames |-> {}]
    BY <1>2 DEF Stored
  <2>3. recreated' \in BOOLEAN
    BY <1>0 DEF TypeOK
  <2>4. Store!FailsHalfWay
    BY <2>1, <2>2, <2>3 DEF Store!FailsHalfWay
  <2> QED BY <2>4 DEF Store!Next
<1>3. CASE ~damaged'
  <2>1. ~damaged
    BY <1>1, <1>3
  <2>2. ASSUME fat' = fat, dir' = dir, data' = data PROVE Files' = Files /\ Stored' = Stored
    <3>1. /\ Files = [n \in ShortNames |-> read_file(fat, dir, data, n)]
          /\ Stored = [n \in ShortNames |-> Held(fat, dir, data, n)]
      BY <2>1, FilesAre
    <3>2. /\ Files' = [n \in ShortNames |-> read_file(fat', dir', data', n)]
          /\ Stored' = [n \in ShortNames |-> Held(fat', dir', data', n)]
      BY <1>3, FilesAfter
    <3> QED BY <2>2, <3>1, <3>2
  <2>3. \A p \in Paths : Component[p] \in ShortNames
    BY FatAssumption
  <2>4. ASSUME NEW p \in Paths, NEW b \in Contents, write_file(p, b)
        PROVE  [Store!Next]_<<Files, Stored, recreated>>
    <3>1. CASE b = <<>> /\ WriteEmpty(p)
      <4>1. Store!Becomes(Component[p], {Store!File(<<>>)})
        BY <2>1, <3>1, EmptyInStore DEF WriteEmpty
      <4>2. Store!Kept(b) = {Store!File(<<>>)}
        <5>1. (CountMod - 1) * ClusterBytes \in Nat
          BY Sizes
        <5>2. Len(b) = 0
          BY <3>1
        <5> QED BY <3>1, <5>1, <5>2 DEF Store!Kept
      <4>3. Store!Write(Component[p], b)
        BY <2>1, <2>3, <4>1, <4>2, NotUnknown DEF Store!Write
      <4> QED BY <2>3, <4>3 DEF Store!Next
    <3>2. CASE WriteSucceeds(p, b)
      <4>1. Store!Becomes(Component[p], Store!Kept(b))
        BY <2>1, <3>2, ContentsInStore
      <4>2. Store!Write(Component[p], b)
        BY <2>1, <2>3, <4>1, NotUnknown DEF Store!Write
      <4> QED BY <2>3, <4>2 DEF Store!Next
    <3>3. CASE WriteAllocFails(p, b)
      <4>1. fat' = fat /\ dir' = dir /\ data' = data /\ recreated' = recreated
        BY <1>3, <3>3 DEF WriteAllocFails, Follow
      <4> QED BY <2>2, <4>1
    <3>4. CASE WriteDataFails(p, b)
      BY <1>3, <3>4 DEF WriteDataFails
    <3> QED BY <2>4, <3>1, <3>2, <3>3, <3>4 DEF write_file
  <2>5. ASSUME NEW p \in Paths, create_file(p)
        PROVE  [Store!Next]_<<Files, Stored, recreated>>
    <3>1. CASE Exists(p)
      <4>1. Store!Recreate(Component[p])
        BY <2>1, <2>5, <3>1, RecreateInStore
      <4> QED BY <2>3, <4>1 DEF Store!Next
    <3>2. CASE ~Exists(p)
      <4>1. Store!Becomes(Component[p], {Store!File(<<>>)})
        BY <2>1, <2>5, <3>2, CreatedIs, EmptyInStore
      <4>2. Files[Component[p]] = Store!Missing
        BY <2>1, <2>3, <3>2, NotUnknown DEF Exists
      <4>3. Store!Create(Component[p])
        BY <4>1, <4>2 DEF Store!Create
      <4> QED BY <2>3, <4>3 DEF Store!Next
    <3> QED BY <3>1, <3>2
  <2>6. ASSUME NEW p \in Paths PROVE ~Unnoticed(p)
    BY <1>3 DEF Unnoticed
  <2>7. CASE UNCHANGED vars
    BY <2>2, <2>7 DEF vars
  <2> QED BY <2>4, <2>5, <2>6, <2>7 DEF Next
<1> QED BY <1>2, <1>3

LEMMA InitInStore == Init => Store!Init
<1> SUFFICES ASSUME Init PROVE Store!Init
  OBVIOUS
<1>1. dir \in [Slots -> {EndMark, Deleted}] /\ ~damaged /\ recreated = FALSE
  BY FatAssumption DEF Init
<1>2. Entered(dir) = {}
  BY <1>1 DEF Entered
<1>3. ASSUME NEW n \in ShortNames
      PROVE  Files[n] = Store!Missing /\ Stored[n] = {}
  <2>1. \A e \in {EndMark, Deleted} : e.name # n
    BY FatAssumption DEF EndMark, Deleted
  <2>2. Found(dir, n) = {}
    BY <1>1, <2>1 DEF Found, Seen
  <2>3. Stored[n] = {}
    BY <1>2 DEF Stored
  <2> QED BY <1>1, <2>2, <2>3, NotUnknown
<1>4. Files = [n \in ShortNames |-> Store!Missing]
  BY <1>3 DEF Files
<1>5. Stored = [n \in ShortNames |-> {}]
  BY <1>3 DEF Stored
<1> QED BY <1>1, <1>4, <1>5 DEF Store!Init

\* The driver implements the store of whole files, on any volume and for any
\* contents: after fat16_write_file, fat16_read_file returns the bytes that were
\* written, or a beginning of them if they take more clusters than a uint16_t
\* can count, and every other file reads as before.  fat16_create_file for a
\* file that exists hides files, and what was hidden comes back unchanged.  All
\* this until a call fails half way; provided that no path begins with a slash.
THEOREM Fat16ImplementsStore == RelativePaths => (Spec => StoreSpec)
<1> SUFFICES ASSUME RelativePaths PROVE Spec => StoreSpec
  OBVIOUS
<1>1. SInv /\ NInv /\ [Next]_vars => SInv' /\ NInv'
  BY SInvNext, NInvNext
<1>2. SInv /\ NInv /\ [Next]_vars => [Store!Next]_<<Files, Stored, recreated>>
  BY StepInStore
<1> QED BY <1>1, <1>2, SInvInit, InitInStore, PTL DEF Spec, StoreSpec, Store!Spec

=============================================================================
