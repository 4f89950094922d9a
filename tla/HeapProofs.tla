----------------------------- MODULE HeapProofs -----------------------------
(***************************************************************************)
(* Proofs about Heap, for sizes that do not wrap and any number of callers *)
(* of which no two grow the heap at once: blocks tile the heap, free       *)
(* neighbours are merged, and a block has room for what was asked for.     *)
(* The lemmas are about the heap as a list s of free blocks, a set L of    *)
(* blocks in use and the end of the heap.                                  *)
(***************************************************************************)
EXTENDS Heap, SequenceTheorems, WellFoundedInduction, TLAPS

-----------------------------------------------------------------------------
(* Induction and recursion up to a number.                                 *)

\* A set of natural numbers has a least element.
LEMMA LeastIn ==
  ASSUME NEW S \in SUBSET Nat, S # {}
  PROVE  \E x \in S : \A y \in S : x <= y
<1> DEFINE R == {ss \in Nat \X Nat : ss[1] < ss[2]}
<1>1. IsWellFoundedOn(R, Nat)
  BY NatLessThanWellFounded, Zenon DEF OpToRel
<1>2. PICK x \in S : \A y \in S : ~(<<y, x>> \in R)
  <2> HIDE DEF R
  <2> QED BY <1>1, WFMin
<1>3. \A y \in S : ~(y < x)
  BY <1>2
<1> QED BY <1>3

\* What holds of 0, and of i + 1 if it holds of i, holds up to n.
LEMMA UpToInduction ==
  ASSUME NEW n \in Nat, NEW S, 0 \in S,
         \A i \in 0..(n - 1) : i \in S => i + 1 \in S
  PROVE  \A i \in 0..n : i \in S
<1> DEFINE D == {i \in 0..n : i \notin S}
<1> SUFFICES ASSUME D # {} PROVE FALSE
  OBVIOUS
<1>1. D \in SUBSET Nat
  OBVIOUS
<1>2. PICK m \in D : \A y \in D : m <= y
  <2> HIDE DEF D
  <2> QED BY <1>1, LeastIn
<1>3. m \in 1..n /\ m \notin S
  BY <1>2
<1>4. m - 1 \in 0..(n - 1) /\ (m - 1) + 1 = m
  BY <1>3
<1>5. m - 1 \in S
  BY <1>2, <1>4
<1> QED BY <1>3, <1>4, <1>5

\* The functions that start with v0 and go on with g, up to n.
Recursions(n, V, v0, g) ==
  {f \in [0..n -> V] : f[0] = v0 /\ \A i \in 1..n : f[i] = g[<<f[i - 1], i>>]}

\* A function can be defined by recursion from 0 to n.
LEMMA Recursion ==
  ASSUME NEW n \in Nat, NEW V, NEW v0 \in V, NEW g \in [V \X (1..n) -> V]
  PROVE  Recursions(n, V, v0, g) # {}
<1> DEFINE Ok(m, f) == f[0] = v0 /\ \A i \in 1..m : f[i] = g[<<f[i - 1], i>>]
           S == {m \in 0..n : \E f \in [0..m -> V] : Ok(m, f)}
<1>1. 0 \in S
  <2>1. [i \in 0..0 |-> v0] \in [0..0 -> V] /\ Ok(0, [i \in 0..0 |-> v0])
    OBVIOUS
  <2>2. \E f \in [0..0 -> V] : Ok(0, f)
    <3> HIDE DEF Ok
    <3> QED BY <2>1, Zenon
  <2> QED BY <2>2
<1>2. ASSUME NEW m \in 0..(n - 1), m \in S PROVE m + 1 \in S
  <2>1. PICK f \in [0..m -> V] : Ok(m, f)
    BY <1>2
  <2> DEFINE h == [i \in 0..(m + 1) |-> IF i <= m THEN f[i] ELSE g[<<f[m], m + 1>>]]
  <2>2. f[m] \in V /\ m + 1 \in 1..n /\ m \in 0..m
    OBVIOUS
  <2>3. g[<<f[m], m + 1>>] \in V
    BY <2>2
  <2>4. h \in [0..(m + 1) -> V]
    BY <2>3
  <2>5. ASSUME NEW i \in 1..(m + 1) PROVE h[i] = g[<<h[i - 1], i>>]
    <3>1. CASE i = m + 1
      BY <2>2, <3>1
    <3>2. CASE i # m + 1
      <4>1. i \in 1..m /\ i - 1 \in 0..m
        BY <3>2
      <4> QED BY <2>1, <4>1
    <3> QED BY <3>1, <3>2
  <2>6. h[0] = v0
    BY <2>1
  <2>7. Ok(m + 1, h)
    BY <2>5, <2>6
  <2>8. \E k \in [0..(m + 1) -> V] : Ok(m + 1, k)
    <3> HIDE DEF Ok, h
    <3> QED BY <2>4, <2>7, Zenon
  <2> QED BY <2>2, <2>8
<1>3. \A m \in 0..n : m \in S
  <2> HIDE DEF S
  <2> QED BY <1>1, <1>2, UpToInduction
<1>4. n \in S
  BY <1>3
<1> QED BY <1>4 DEF Recursions

-----------------------------------------------------------------------------
(* Blocks, lists and what a heap is.                                       *)

BlockRec == [addr : Nat, size : Nat]
Aligned(n) == n % ALIGN = 0
Apart(b, d) == End(b) <= d.addr \/ End(d) <= b.addr
Holds(b, a) == b.addr <= a /\ a < End(b)

\* The blocks of a list are in order of address, with something in between.
Spread(s) == \A i, j \in 1..Len(s) : i < j => End(s[i]) < s[j].addr

\* The blocks of the set X lie inside of the heap, apart from those of L.  One
\* that is empty lies at the end.
Fit(X, L, end) ==
  /\ X \subseteq BlockRec
  /\ \A x \in X : /\ Aligned(x.addr) /\ HeapStart <= x.addr /\ End(x) <= end
                  /\ x.size = 0 => x.addr = end
                  /\ \A d \in L : Apart(x, d)

\* The blocks in use.
InUse(L, end) ==
  /\ L \subseteq BlockRec
  /\ \A d \in L : /\ Aligned(d.addr) /\ HeapStart <= d.addr /\ End(d) <= end
                  /\ d.size # 0
                  /\ \A e \in L : d # e => Apart(d, e)

Covered(X, end) ==
  \A a \in HeapStart..(end - 1) : \E x \in X : Holds(x, a)

HeapOK(s, L, end) ==
  /\ s \in Seq(BlockRec) /\ end \in Nat /\ Aligned(end) /\ HeapStart <= end
  /\ Spread(s)
  /\ InUse(L, end)
  /\ Fit(Range(s), L, end)
  /\ Covered(Range(s) \union L, end)

\* Every byte of a block of X is in a block of Y.
Keeps(X, Y) == \A a \in Nat : (\E x \in X : Holds(x, a)) => \E y \in Y : Holds(y, a)

\* No block of the set X is empty.
Filled(X) == \A x \in X : x.size # 0

\* The blocks of a list are those at its places.
LEMMA RangeOf ==
  ASSUME NEW S, NEW s \in Seq(S)
  PROVE  Range(s) = {s[i] : i \in 1..Len(s)}
  BY DEF Range

\* The address, the size and the end of a block are numbers.
LEMMA Fields ==
  ASSUME NEW b \in BlockRec
  PROVE  b.addr \in Nat /\ b.size \in Nat /\ End(b) \in Nat /\ End(b) = b.addr + b.size
  BY DEF BlockRec, End

\* A part of a sequence.
LEMMA Part ==
  ASSUME NEW S, NEW s \in Seq(S), NEW m \in 1..(Len(s) + 1), NEW n \in (m - 1)..Len(s)
  PROVE  /\ SubSeq(s, m, n) \in Seq(S) /\ Len(SubSeq(s, m, n)) = n - m + 1
         /\ \A i \in 1..(n - m + 1) : SubSeq(s, m, n)[i] = s[m + i - 1]
<1>1. m \in Int /\ n \in Int /\ n - m + 1 \in Nat /\ \A i \in m..n : s[i] \in S
  OBVIOUS
<1>2. Len(SubSeq(s, m, n)) = IF m <= n THEN n - m + 1 ELSE 0
  BY <1>1, SubSeqProperties
<1> QED BY <1>1, <1>2, SubSeqProperties

\* Blocks are determined by their address and their size.
LEMMA BlockFields ==
  ASSUME NEW a \in Nat, NEW n \in Nat
  PROVE  /\ Block(a, n) \in BlockRec
         /\ Block(a, n).addr = a /\ Block(a, n).size = n /\ End(Block(a, n)) = a + n
  BY DEF Block, BlockRec, End

-----------------------------------------------------------------------------
(* Join.                                                                   *)

\* The block that l and b become when they touch.
Both(l, b) == Block(l.addr, l.size + b.size)

\* Two blocks that touch, merged into one.
LEMMA BothFields ==
  ASSUME NEW l \in BlockRec, NEW b \in BlockRec, End(l) = b.addr
  PROVE  /\ Both(l, b) \in BlockRec /\ Both(l, b).addr = l.addr
         /\ Both(l, b).size = l.size + b.size /\ End(Both(l, b)) = End(b)
<1>1. l.addr \in Nat /\ l.size + b.size \in Nat /\ l.addr + (l.size + b.size) = End(b)
  BY Fields
<1> QED BY <1>1, BlockFields DEF Both

\* Y is X with b added, or merged with the block of X that it touches.
Joined(X, b, Y) ==
  \/ Y = X \union {b}
  \/ \E l \in X : End(l) = b.addr /\ Y = (X \ {l}) \union {Both(l, b)}

\* A block at or behind the end of the last one is appended or merged with it.
LEMMA JoinList ==
  ASSUME NEW s \in Seq(BlockRec), Spread(s), NEW b \in BlockRec,
         s # <<>> => End(Last(s)) <= b.addr
  PROVE  /\ Join(s, b) \in Seq(BlockRec) /\ Join(s, b) # <<>>
         /\ Spread(Join(s, b)) /\ End(Last(Join(s, b))) = End(b)
         /\ Joined(Range(s), b, Range(Join(s, b)))
<1> DEFINE r == Join(s, b)
           n == Len(s)
<1>1. n \in Nat /\ \A i \in 1..n : s[i] \in BlockRec
  OBVIOUS
<1>2. Range(s) = {s[i] : i \in 1..n}
  BY RangeOf
<1>3. CASE s # <<>> /\ End(Last(s)) = b.addr
  <2> DEFINE l == s[n]
             m == Both(l, b)
  <2>1. n \in 1..n /\ l \in BlockRec /\ End(l) = b.addr
    BY <1>1, <1>3 DEF Last
  <2>2. /\ m \in BlockRec /\ m.addr = l.addr /\ End(m) = End(b)
    BY <2>1, BothFields
  <2> HIDE DEF m
  <2>3. r = Append(Front(s), m)
    BY <1>3 DEF Join, Last, m, Both
  <2>4. /\ Front(s) \in Seq(BlockRec) /\ Len(Front(s)) = n - 1
        /\ \A i \in 1..(n - 1) : Front(s)[i] = s[i]
    <3>1. /\ SubSeq(s, 1, n - 1) \in Seq(BlockRec) /\ Len(SubSeq(s, 1, n - 1)) = (n - 1) - 1 + 1
          /\ \A i \in 1..((n - 1) - 1 + 1) : SubSeq(s, 1, n - 1)[i] = s[1 + i - 1]
      <4>1. 1 \in 1..(Len(s) + 1) /\ n - 1 \in (1 - 1)..Len(s)
        BY <1>1, <2>1
      <4> HIDE DEF n
      <4> QED BY <4>1, Part
    <3>2. \A i \in 1..(n - 1) : SubSeq(s, 1, n - 1)[i] = s[i]
      <4> SUFFICES ASSUME NEW i \in 1..(n - 1) PROVE SubSeq(s, 1, n - 1)[i] = s[i]
        OBVIOUS
      <4>1. i \in 1..((n - 1) - 1 + 1) /\ 1 + i - 1 = i
        BY <1>1
      <4> QED BY <3>1, <4>1
    <3> QED BY <1>1, <3>1, <3>2 DEF Front
  <2> HIDE DEF r
  <2>5. /\ r \in Seq(BlockRec) /\ Len(r) = n /\ r[n] = m
        /\ \A i \in 1..(n - 1) : r[i] = s[i]
    BY <2>1, <2>2, <2>3, <2>4
  <2>6. Spread(r)
    <3> SUFFICES ASSUME NEW i \in 1..n, NEW j \in 1..n, i < j PROVE End(r[i]) < r[j].addr
      BY <2>5 DEF Spread
    <3>1. i \in 1..(n - 1) /\ r[i] = s[i] /\ r[j].addr = s[j].addr
      BY <2>1, <2>2, <2>5
    <3> QED BY <3>1 DEF Spread
  <2>7. l \in Range(s)
    BY <1>2, <2>1
  <2>8. \A i \in 1..(n - 1) : s[i] # l
    <3> SUFFICES ASSUME NEW i \in 1..(n - 1) PROVE s[i] # l
      OBVIOUS
    <3>1. i \in 1..n /\ End(s[i]) < l.addr
      BY <2>1 DEF Spread
    <3>2. s[i].addr <= End(s[i])
      BY <1>1, <3>1, Fields
    <3> QED BY <1>1, <2>1, <3>1, <3>2, Fields
  <2>9. Range(r) = {r[i] : i \in 1..n}
    BY <2>5, RangeOf
  <2>10. Range(r) = (Range(s) \ {l}) \union {m}
    <3>1. ASSUME NEW x \in Range(r) PROVE x \in (Range(s) \ {l}) \union {m}
      BY <1>2, <2>5, <2>8, <2>9
    <3>2. ASSUME NEW x \in Range(s) \ {l} PROVE x \in Range(r)
      BY <1>1, <1>2, <2>5, <2>9
    <3>3. m \in Range(r)
      BY <2>1, <2>5, <2>9
    <3> QED BY <3>1, <3>2, <3>3
  <2>11. r # <<>> /\ Last(r) = m
    BY <2>1, <2>5 DEF Last
  <2> QED BY <2>1, <2>2, <2>5, <2>6, <2>7, <2>10, <2>11 DEF r, m, Joined
<1>4. CASE ~(s # <<>> /\ End(Last(s)) = b.addr)
  <2>1. r = Append(s, b)
    BY <1>4 DEF Join
  <2> HIDE DEF r
  <2>2. /\ r \in Seq(BlockRec) /\ Len(r) = n + 1 /\ r[n + 1] = b
        /\ \A i \in 1..n : r[i] = s[i]
    BY <2>1
  <2>3. \A i \in 1..n : End(s[i]) < b.addr
    <3> SUFFICES ASSUME NEW i \in 1..n PROVE End(s[i]) < b.addr
      OBVIOUS
    <3>1. s # <<>> /\ n \in 1..n /\ End(s[n]) < b.addr
      BY <1>1, <1>4 DEF Last, BlockRec, End
    <3>2. i < n => End(s[i]) < s[n].addr
      BY <3>1 DEF Spread
    <3> QED BY <1>1, <3>1, <3>2 DEF BlockRec, End
  <2>4. Spread(r)
    <3> SUFFICES ASSUME NEW i \in 1..(n + 1), NEW j \in 1..(n + 1), i < j
                 PROVE End(r[i]) < r[j].addr
      BY <2>2 DEF Spread
    <3>1. i \in 1..n /\ r[i] = s[i]
      BY <2>2
    <3>2. CASE j = n + 1
      BY <2>2, <2>3, <3>1, <3>2
    <3>3. CASE j # n + 1
      <4>1. j \in 1..n /\ r[j] = s[j]
        BY <2>2, <3>3
      <4> QED BY <3>1, <4>1 DEF Spread
    <3> QED BY <3>2, <3>3
  <2>5. Range(r) = Range(s) \union {b}
    <3>1. Range(r) = {r[i] : i \in 1..(n + 1)}
      BY <2>2, RangeOf
    <3> QED BY <1>2, <2>2, <3>1
  <2> QED BY <2>2, <2>4, <2>5 DEF r, Last, Joined
<1> QED BY <1>3, <1>4

\* Join makes a list of blocks from one.
LEMMA JoinType ==
  ASSUME NEW s \in Seq(BlockRec), NEW b \in BlockRec
  PROVE  Join(s, b) \in Seq(BlockRec)
<1>1. CASE s # <<>> /\ End(Last(s)) = b.addr
  <2>1. Len(s) \in 1..Len(s) /\ Last(s) \in BlockRec
    BY <1>1 DEF Last
  <2>2. 1 \in 1..(Len(s) + 1) /\ Len(s) - 1 \in (1 - 1)..Len(s)
    BY <2>1
  <2>3. Front(s) \in Seq(BlockRec)
    BY <2>2, Part DEF Front
  <2>4. Both(Last(s), b) \in BlockRec
    BY <1>1, <2>1, BothFields
  <2>5. Join(s, b) = Append(Front(s), Both(Last(s), b))
    BY <1>1 DEF Join, Both
  <2> QED BY <2>3, <2>4, <2>5
<1>2. CASE ~(s # <<>> /\ End(Last(s)) = b.addr)
  <2>1. Join(s, b) = Append(s, b)
    BY <1>2 DEF Join
  <2> QED BY <2>1
<1> QED BY <1>1, <1>2

\* Merging two blocks that touch keeps them apart from blocks in use, none of
\* which is empty, and loses no byte.
LEMMA JoinFit ==
  ASSUME NEW L, NEW end \in Nat, InUse(L, end),
         NEW X, Fit(X, L, end), NEW b \in BlockRec, Fit({b}, L, end),
         NEW Y, Joined(X, b, Y)
  PROVE  /\ Fit(Y, L, end)
         /\ Filled(X \union {b}) => Filled(Y)
         /\ Keeps(X \union {b}, Y)
<1>1. CASE Y = X \union {b}
  <2>1. Fit(Y, L, end)
    BY <1>1 DEF Fit
  <2> QED BY <1>1, <2>1 DEF Keeps
<1>2. ASSUME NEW l \in X, End(l) = b.addr, Y = (X \ {l}) \union {Both(l, b)}
      PROVE  /\ Fit(Y, L, end)
             /\ Filled(X \union {b}) => Filled(Y)
             /\ Keeps(X \union {b}, Y)
  <2> DEFINE m == Both(l, b)
  <2>1. l \in BlockRec
    BY <1>2 DEF Fit
  <2>2. m \in BlockRec /\ m.addr = l.addr /\ m.size = l.size + b.size /\ End(m) = End(b)
    BY <1>2, <2>1, BothFields
  <2> HIDE DEF m
  <2>3. /\ l.addr \in Nat /\ l.size \in Nat /\ End(l) = l.addr + l.size
        /\ b.addr \in Nat /\ b.size \in Nat /\ End(b) = b.addr + b.size
    BY <2>1, Fields
  <2>4. Aligned(m.addr) /\ HeapStart <= m.addr /\ End(m) <= end
    BY <1>2, <2>2 DEF Fit
  <2>5. m.size = 0 => m.addr = end
    <3>1. l.size = 0 => l.addr = end
      BY <1>2 DEF Fit
    <3> QED BY <2>2, <2>3, <3>1
  <2>6. ASSUME NEW d \in L PROVE Apart(m, d)
    <3>1. Apart(l, d) /\ Apart(b, d) /\ d \in BlockRec /\ d.size # 0
      BY <1>2 DEF Fit, InUse
    <3>2. d.addr \in Nat /\ d.size \in Nat /\ End(d) = d.addr + d.size
      BY <3>1, Fields
    <3> QED BY <1>2, <2>2, <2>3, <3>1, <3>2 DEF Apart
  <2>7. Fit(Y, L, end)
    <3>1. Y = (X \ {l}) \union {m}
      BY <1>2 DEF m
    <3> QED BY <2>2, <2>4, <2>5, <2>6, <3>1 DEF Fit
  <2>8. ASSUME NEW a \in Nat, NEW x \in X \union {b}, Holds(x, a)
        PROVE  \E y \in Y : Holds(y, a)
    <3>1. CASE x \in X \ {l}
      BY <1>2, <2>8, <3>1
    <3>2. CASE x \in {l, b}
      <4>1. x.addr <= a /\ a < End(x) /\ End(l) = b.addr
        BY <1>2, <2>8 DEF Holds
      <4>2. m.addr <= a /\ a < End(m)
        BY <2>2, <2>3, <3>2, <4>1
      <4>3. m \in Y
        BY <1>2 DEF m
      <4> QED BY <4>2, <4>3 DEF Holds
    <3> QED BY <3>1, <3>2
  <2>9. Filled(X \union {b}) => Filled(Y)
    <3> SUFFICES ASSUME Filled(X \union {b}) PROVE Filled(Y)
      OBVIOUS
    <3>1. b.size # 0
      BY DEF Filled
    <3>2. m.size # 0
      BY <2>2, <2>3, <3>1
    <3> QED BY <1>2, <3>2 DEF Filled, m
  <2> QED BY <2>7, <2>8, <2>9 DEF Keeps
<1> QED BY <1>1, <1>2 DEF Joined

-----------------------------------------------------------------------------
(* The merging of kfree.                                                   *)

\* The walk along the list.
LEMMA CoalescedWalk ==
  ASSUME NEW s \in Seq(BlockRec)
  PROVE  \E f \in [0..Len(s) -> Seq(BlockRec)] :
           /\ f[0] = <<>> /\ \A i \in 1..Len(s) : f[i] = Join(f[i - 1], s[i])
           /\ Coalesced(s) = f[Len(s)]
<1> DEFINE n == Len(s)
           V == Seq(BlockRec)
           Eq(h) == h = [i \in 0..n |-> IF i = 0 THEN <<>> ELSE Join(h[i - 1], s[i])]
           g == [v \in V \X (1..n) |-> Join(v[1], s[v[2]])]
           u == CHOOSE h : Eq(h)
<1>1. n \in Nat /\ <<>> \in V /\ \A i \in 1..n : s[i] \in BlockRec
  OBVIOUS
<1>2. g \in [V \X (1..n) -> V]
  <2> SUFFICES ASSUME NEW v \in V \X (1..n) PROVE Join(v[1], s[v[2]]) \in V
    OBVIOUS
  <2>1. v[1] \in V /\ s[v[2]] \in BlockRec
    BY <1>1
  <2> QED BY <2>1, JoinType
<1>3. PICK f \in [0..n -> V] : f[0] = <<>> /\ \A i \in 1..n : f[i] = g[<<f[i - 1], i>>]
  <2>1. Recursions(n, V, <<>>, g) # {}
    <3> HIDE DEF n, V, g
    <3> QED BY <1>1, <1>2, Recursion
  <2> HIDE DEF n, V, g
  <2> QED BY <2>1 DEF Recursions
<1>4. \A i \in 1..n : f[i] = Join(f[i - 1], s[i])
  <2> SUFFICES ASSUME NEW i \in 1..n PROVE f[i] = Join(f[i - 1], s[i])
    OBVIOUS
  <2>1. f[i - 1] \in V
    BY <1>1
  <2> QED BY <1>3, <2>1
<1>5. Eq(f)
  <2>1. ASSUME NEW i \in 0..n PROVE f[i] = IF i = 0 THEN <<>> ELSE Join(f[i - 1], s[i])
    BY <1>3, <1>4
  <2> HIDE DEF V
  <2> QED BY <1>3, <2>1
<1>6. Eq(u)
  <2> HIDE DEF Eq
  <2> QED BY <1>5, Zenon
<1>7. u[0] = <<>> /\ \A i \in 1..n : u[i] = Join(u[i - 1], s[i])
  <2>1. \A i \in 0..n : u[i] = IF i = 0 THEN <<>> ELSE Join(u[i - 1], s[i])
    <3> HIDE DEF u
    <3> QED BY <1>6
  <2> HIDE DEF u
  <2> QED BY <1>1, <2>1
<1>8. DOMAIN u = 0..n /\ u = [i \in 0..n |-> u[i]]
  <2> HIDE DEF u
  <2> QED BY <1>6
<1>9. \A i \in 0..n : u[i] \in V
  <2> DEFINE S == {i \in 0..n : u[i] \in V}
  <2> HIDE DEF u, V
  <2>1. 0 \in S
    BY <1>1, <1>7
  <2>2. ASSUME NEW i \in 0..(n - 1), i \in S PROVE i + 1 \in S
    <3>1. i + 1 \in 1..n /\ (i + 1) - 1 = i
      BY <1>1
    <3>2. u[i + 1] = Join(u[i], s[i + 1])
      BY <1>7, <3>1
    <3>3. u[i + 1] \in V
      BY <1>1, <2>2, <3>1, <3>2, JoinType DEF V
    <3> QED BY <3>1, <3>3
  <2>3. \A i \in 0..n : i \in S
    <3> HIDE DEF S
    <3> QED BY <1>1, <2>1, <2>2, UpToInduction
  <2> QED BY <2>3
<1>10. u \in [0..n -> V]
  <2> HIDE DEF u, V
  <2> QED BY <1>8, <1>9
<1>11. Coalesced(s) = u[n]
  BY DEF Coalesced
<1> HIDE DEF u
<1> QED BY <1>7, <1>10, <1>11

\* The blocks of a list are in order of address.
Ordered(t) == \A i, j \in 1..Len(t) : i < j => End(t[i]) <= t[j].addr

\* Merging along a list in order of address.
LEMMA CoalescedOK ==
  ASSUME NEW L, NEW end \in Nat, InUse(L, end),
         NEW t \in Seq(BlockRec), Ordered(t), Fit(Range(t), L, end)
  PROVE  /\ Coalesced(t) \in Seq(BlockRec) /\ Spread(Coalesced(t))
         /\ Fit(Range(Coalesced(t)), L, end)
         /\ Filled(Range(t)) => Filled(Range(Coalesced(t)))
         /\ Keeps(Range(t), Range(Coalesced(t)))
<1> DEFINE n == Len(t)
<1>1. PICK f \in [0..n -> Seq(BlockRec)] :
        /\ f[0] = <<>> /\ \A i \in 1..n : f[i] = Join(f[i - 1], t[i])
        /\ Coalesced(t) = f[n]
  BY CoalescedWalk
<1>2. n \in Nat /\ \A i \in 1..n : t[i] \in BlockRec
  OBVIOUS
<1>3. Range(t) = {t[i] : i \in 1..n}
  BY RangeOf
<1> HIDE DEF n
<1> DEFINE Up(i) == {t[j] : j \in 1..i}
           W(i) == /\ Spread(f[i]) /\ Fit(Range(f[i]), L, end) /\ Keeps(Up(i), Range(f[i]))
                   /\ Filled(Range(t)) => Filled(Range(f[i]))
                   /\ f[i] # <<>> => i > 0 /\ End(Last(f[i])) = End(t[i])
           S == {i \in 0..n : W(i)}
<1>4. 0 \in S
  <2>1. 0 \in 0..n /\ Range(f[0]) = {} /\ Len(f[0]) = 0
    BY <1>1, <1>2 DEF Range
  <2>2. Up(0) = {}
    OBVIOUS
  <2> QED BY <1>1, <2>1, <2>2 DEF Spread, Fit, Filled, Keeps
<1>5. ASSUME NEW i \in 0..(n - 1), i \in S PROVE i + 1 \in S
  <2> DEFINE b == t[i + 1]
             s == f[i]
             r == f[i + 1]
  <2>1. i \in Nat /\ i \in 0..n /\ i + 1 \in 1..n /\ i + 1 \in 0..n /\ (i + 1) - 1 = i
    BY <1>2
  <2>2. b \in BlockRec /\ s \in Seq(BlockRec) /\ r = Join(s, b)
    BY <1>1, <1>2, <2>1
  <2>3. /\ Spread(s) /\ Fit(Range(s), L, end) /\ Keeps(Up(i), Range(s))
        /\ Filled(Range(t)) => Filled(Range(s))
    BY <1>5
  <2>4. s # <<>> => End(Last(s)) <= b.addr
    <3> SUFFICES ASSUME s # <<>> PROVE End(Last(s)) <= b.addr
      OBVIOUS
    <3>1. i > 0 /\ End(Last(s)) = End(t[i])
      BY <1>5
    <3>2. i \in 1..n /\ i < i + 1
      BY <2>1, <3>1
    <3> QED BY <2>1, <3>1, <3>2 DEF Ordered, n
  <2>5. Fit({b}, L, end)
    BY <1>3, <2>1 DEF Fit
  <2> HIDE DEF b, s, r
  <2>6. /\ r \in Seq(BlockRec) /\ r # <<>> /\ Spread(r) /\ End(Last(r)) = End(b)
        /\ Joined(Range(s), b, Range(r))
    BY <2>2, <2>3, <2>4, JoinList
  <2>7. /\ Fit(Range(r), L, end)
        /\ Filled(Range(s) \union {b}) => Filled(Range(r))
        /\ Keeps(Range(s) \union {b}, Range(r))
    BY <2>2, <2>3, <2>5, <2>6, JoinFit
  <2>8. Keeps(Up(i + 1), Range(r))
    <3>1. ASSUME NEW x \in Up(i + 1) PROVE x \in Up(i) \/ x = b
      <4>1. PICK j \in 1..(i + 1) : x = t[j]
        BY <3>1
      <4>2. j \in 1..i \/ j = i + 1
        BY <2>1
      <4> QED BY <4>1, <4>2 DEF b
    <3> HIDE DEF Up
    <3> QED BY <2>3, <2>7, <3>1 DEF Keeps
  <2>9. Filled(Range(t)) => Filled(Range(r))
    <3>1. b \in Range(t)
      BY <1>3, <2>1 DEF b
    <3> QED BY <2>3, <2>7, <3>1 DEF Filled
  <2>10. W(i + 1)
    BY <2>1, <2>6, <2>7, <2>8, <2>9 DEF r, b
  <2> QED BY <2>1, <2>10
<1>6. \A i \in 0..n : i \in S
  <2> HIDE DEF S
  <2> QED BY <1>2, <1>4, <1>5, UpToInduction
<1>7. n \in S
  <2> HIDE DEF S
  <2>1. n \in 0..n
    BY <1>2
  <2> QED BY <1>6, <2>1
<1>8. Up(n) = Range(t)
  BY <1>3
<1> QED BY <1>1, <1>7, <1>8

-----------------------------------------------------------------------------
(* Insertion by address.                                                   *)

\* The walk that looks for an address ends.
LEMMA PlaceIs ==
  ASSUME NEW s \in Seq(BlockRec), NEW a \in Nat
  PROVE  /\ Place(s, a) \in 0..Len(s)
         /\ \A i \in 1..Place(s, a) : s[i].addr < a
         /\ Place(s, a) < Len(s) => s[Place(s, a) + 1].addr >= a
<1> DEFINE n == Len(s)
           D == {k \in 0..n : k < n => s[k + 1].addr >= a}
           Is(k) == /\ \A i \in 1..k : s[i].addr < a
                    /\ k < n => s[k + 1].addr >= a
<1>1. n \in Nat /\ \A i \in 1..n : s[i] \in BlockRec
  OBVIOUS
<1>2. D \in SUBSET Nat /\ D # {}
  BY <1>1
<1>3. PICK k \in D : \A y \in D : k <= y
  <2> HIDE DEF D
  <2> QED BY <1>2, LeastIn
<1>4. ASSUME NEW i \in 1..k PROVE s[i].addr < a
  <2>1. k \in 0..n /\ i - 1 \in 0..n /\ i - 1 < n /\ (i - 1) + 1 = i /\ ~(k <= i - 1)
    BY <1>1, <1>3
  <2>2. i - 1 \notin D
    BY <1>3, <2>1
  <2>3. ~(s[i].addr >= a)
    BY <2>1, <2>2
  <2>4. s[i].addr \in Nat
    BY <1>1, <2>1, Fields
  <2> QED BY <2>3, <2>4
<1>5. k \in 0..n /\ Is(k)
  BY <1>3, <1>4
<1>6. \E j \in 0..n : Is(j)
  <2> HIDE DEF Is
  <2> QED BY <1>5
<1>7. Place(s, a) = CHOOSE j \in 0..n : Is(j)
  BY DEF Place
<1>8. Place(s, a) \in 0..n /\ Is(Place(s, a))
  <2> HIDE DEF Is
  <2> QED BY <1>6, <1>7
<1> QED BY <1>8

\* A sequence with an element put in behind the k-th, by its parts and by its
\* elements.
Splice(s, k, b) == SubSeq(s, 1, k) \o <<b>> \o SubSeq(s, k + 1, Len(s))
IsSplice(t, s, k, b) ==
  /\ Len(t) = Len(s) + 1 /\ t[k + 1] = b
  /\ \A i \in 1..k : t[i] = s[i]
  /\ \A i \in (k + 2)..(Len(s) + 1) : t[i] = s[i - 1]

\* A block put into a list behind its first k blocks.
LEMMA Spliced ==
  ASSUME NEW S, NEW s \in Seq(S), NEW k \in 0..Len(s), NEW b \in S
  PROVE  Splice(s, k, b) \in Seq(S) /\ IsSplice(Splice(s, k, b), s, k, b)
<1> DEFINE t == Splice(s, k, b)
           n == Len(s)
           p == SubSeq(s, 1, k)
           q == SubSeq(s, k + 1, n)
<1>1. n \in Nat /\ k \in 0..n
  OBVIOUS
<1>2. p \in Seq(S) /\ Len(p) = k /\ \A i \in 1..k : p[i] = s[i]
  <2>1. 1 \in 1..(n + 1) /\ k \in (1 - 1)..n
    BY <1>1
  <2>2. p \in Seq(S) /\ Len(p) = k - 1 + 1 /\ \A i \in 1..(k - 1 + 1) : p[i] = s[1 + i - 1]
    BY <2>1, Part
  <2>3. k - 1 + 1 = k /\ \A i \in 1..k : 1 + i - 1 = i
    OBVIOUS
  <2> QED BY <2>2, <2>3
<1>3. q \in Seq(S) /\ Len(q) = n - k /\ \A i \in 1..(n - k) : q[i] = s[k + i]
  <2>1. k + 1 \in 1..(n + 1) /\ n \in ((k + 1) - 1)..n
    BY <1>1
  <2>2. q \in Seq(S) /\ Len(q) = n - (k + 1) + 1
        /\ \A i \in 1..(n - (k + 1) + 1) : q[i] = s[(k + 1) + i - 1]
    BY <2>1, Part
  <2>3. n - (k + 1) + 1 = n - k /\ \A i \in 1..(n - k) : (k + 1) + i - 1 = k + i
    BY <1>1
  <2> QED BY <2>2, <2>3
<1> HIDE DEF p, q, n, t
<1>4. t = (p \o <<b>>) \o q
  BY DEF p, q, n, t, Splice
<1> DEFINE w == p \o <<b>>
<1>5. w \in Seq(S) /\ Len(w) = k + 1 /\ \A i \in 1..(k + 1) : w[i] = IF i <= k THEN p[i] ELSE b
  <2>1. <<b>> \in Seq(S) /\ Len(<<b>>) = 1 /\ <<b>>[1] = b
    OBVIOUS
  <2>2. /\ w \in Seq(S) /\ Len(w) = Len(p) + Len(<<b>>)
        /\ \A i \in 1..(Len(p) + Len(<<b>>)) :
             w[i] = IF i <= Len(p) THEN p[i] ELSE <<b>>[i - Len(p)]
    BY <1>2, <2>1, ConcatProperties
  <2> HIDE DEF w
  <2> QED BY <1>2, <2>1, <2>2
<1> HIDE DEF w
<1>6. /\ t \in Seq(S) /\ Len(t) = (k + 1) + (n - k)
      /\ \A i \in 1..((k + 1) + (n - k)) : t[i] = IF i <= k + 1 THEN w[i] ELSE q[i - (k + 1)]
  <2>1. /\ w \o q \in Seq(S) /\ Len(w \o q) = Len(w) + Len(q)
        /\ \A i \in 1..(Len(w) + Len(q)) :
             (w \o q)[i] = IF i <= Len(w) THEN w[i] ELSE q[i - Len(w)]
    BY <1>3, <1>5, ConcatProperties
  <2>2. t = w \o q
    BY <1>4 DEF w
  <2> QED BY <1>3, <1>5, <2>1, <2>2
<1>7. (k + 1) + (n - k) = n + 1
  BY <1>1
<1>8. t[k + 1] = b /\ \A i \in 1..k : t[i] = s[i]
  <2>1. k + 1 \in 1..(k + 1) /\ k + 1 \in 1..(n + 1) /\ k + 1 <= k + 1 /\ ~(k + 1 <= k)
    BY <1>1
  <2>2. t[k + 1] = b
    BY <1>5, <1>6, <1>7, <2>1
  <2>3. ASSUME NEW i \in 1..k PROVE t[i] = s[i]
    <3>1. i \in 1..(k + 1) /\ i \in 1..(n + 1) /\ i <= k + 1 /\ i <= k
      BY <1>1
    <3> QED BY <1>2, <1>5, <1>6, <1>7, <3>1
  <2> QED BY <2>2, <2>3
<1>9. ASSUME NEW i \in (k + 2)..(n + 1) PROVE t[i] = s[i - 1]
  <2>1. /\ i - (k + 1) \in 1..(n - k) /\ k + (i - (k + 1)) = i - 1
        /\ i \in 1..(n + 1) /\ ~(i <= k + 1)
    BY <1>1
  <2>2. t[i] = q[i - (k + 1)]
    BY <1>6, <1>7, <2>1
  <2> QED BY <1>3, <2>1, <2>2
<1> QED BY <1>6, <1>7, <1>8, <1>9 DEF n, t, IsSplice

\* A block in use is inserted where it keeps the list in order: a free block at
\* its address would be empty, hence at the end of the heap, where no block in
\* use can be.
LEMMA InsertedOK ==
  ASSUME NEW L, NEW end, NEW s, HeapOK(s, L, end), NEW b \in L
  PROVE  /\ Inserted(s, b) \in Seq(BlockRec) /\ Ordered(Inserted(s, b))
         /\ Range(Inserted(s, b)) = Range(s) \union {b}
<1> DEFINE n == Len(s)
           k == Place(s, b.addr)
           t == Inserted(s, b)
<1>1. s \in Seq(BlockRec) /\ n \in Nat /\ (\A i \in 1..n : s[i] \in BlockRec)
      /\ Range(s) = {s[i] : i \in 1..n}
  BY RangeOf DEF HeapOK
<1>2. /\ b \in BlockRec /\ b.addr \in Nat /\ b.size \in Nat /\ b.size # 0
      /\ End(b) = b.addr + b.size /\ End(b) <= end /\ end \in Nat
  BY Fields DEF HeapOK, InUse
<1>3. /\ k \in 0..n /\ \A i \in 1..k : s[i].addr < b.addr
      /\ k < n => s[k + 1].addr >= b.addr
  BY <1>1, <1>2, PlaceIs
<1>4. /\ t \in Seq(BlockRec) /\ Len(t) = n + 1 /\ t[k + 1] = b
      /\ \A i \in 1..k : t[i] = s[i]
      /\ \A i \in (k + 2)..(n + 1) : t[i] = s[i - 1]
  <2>1. t = Splice(s, k, b)
    BY DEF Inserted, Below, From, Splice
  <2> HIDE DEF t, k
  <2>2. t \in Seq(BlockRec) /\ IsSplice(t, s, k, b)
    BY <1>1, <1>2, <1>3, <2>1, Spliced
  <2> QED BY <2>2 DEF IsSplice
<1> HIDE DEF k, t, n
<1>5. ASSUME NEW i \in 1..n
      PROVE  /\ s[i].addr \in Nat /\ s[i].size \in Nat /\ End(s[i]) = s[i].addr + s[i].size
             /\ s[i].size = 0 => s[i].addr = end
             /\ End(s[i]) <= b.addr \/ End(b) <= s[i].addr
  <2>1. s[i] \in Range(s) /\ s[i] \in BlockRec
    BY <1>1
  <2>2. (s[i].size = 0 => s[i].addr = end) /\ Apart(s[i], b)
    BY <2>1 DEF HeapOK, Fit
  <2> QED BY <2>1, <2>2, Fields DEF Apart
<1>6. \A i, j \in 1..n : i < j => End(s[i]) < s[j].addr
  BY DEF HeapOK, Spread, n
<1>7. ASSUME NEW i \in 1..k PROVE i \in 1..n /\ End(s[i]) <= b.addr
  <2>1. i \in 1..n /\ s[i].addr < b.addr
    BY <1>1, <1>3
  <2> QED BY <1>2, <1>5, <2>1
<1>8. ASSUME NEW i \in (k + 1)..n PROVE i \in 1..n /\ End(b) <= s[i].addr
  <2>1. i \in 1..n /\ k + 1 \in 1..n /\ k < n
    BY <1>1, <1>3
  <2>2. s[k + 1].addr >= b.addr
    BY <1>3, <2>1
  <2>3. i # k + 1 => End(s[k + 1]) < s[i].addr
    BY <1>3, <1>6, <2>1
  <2>4. s[i].addr >= b.addr
    BY <1>2, <1>5, <2>1, <2>2, <2>3
  <2> QED BY <1>2, <1>5, <2>1, <2>4
<1>9. ASSUME NEW i \in 1..(n + 1), NEW j \in 1..(n + 1), i < j
      PROVE  End(t[i]) <= t[j].addr
  <2>1. CASE j <= k
    <3>1. i \in 1..k /\ j \in 1..k /\ i \in 1..n /\ j \in 1..n
      BY <1>1, <1>3, <1>9, <2>1
    <3>2. End(s[i]) < s[j].addr
      BY <1>6, <1>9, <3>1
    <3> QED BY <1>4, <1>5, <3>1, <3>2
  <2>2. CASE j = k + 1
    <3>1. i \in 1..k
      BY <1>3, <1>9, <2>2
    <3> QED BY <1>4, <1>7, <2>2, <3>1
  <2>3. CASE i = k + 1
    <3>1. j \in (k + 2)..(n + 1) /\ j - 1 \in (k + 1)..n
      BY <1>1, <1>3, <1>9, <2>3
    <3> QED BY <1>4, <1>8, <2>3, <3>1
  <2>4. CASE i <= k /\ j > k + 1
    <3>1. i \in 1..k /\ j \in (k + 2)..(n + 1) /\ j - 1 \in 1..n /\ i \in 1..n /\ i < j - 1
      BY <1>1, <1>3, <1>9, <2>4
    <3>2. End(s[i]) < s[j - 1].addr
      BY <1>6, <3>1
    <3> QED BY <1>4, <1>5, <3>1, <3>2
  <2>5. CASE i > k + 1
    <3>1. /\ i \in (k + 2)..(n + 1) /\ j \in (k + 2)..(n + 1)
          /\ i - 1 \in 1..n /\ j - 1 \in 1..n /\ i - 1 < j - 1
      BY <1>1, <1>3, <1>9, <2>5
    <3>2. End(s[i - 1]) < s[j - 1].addr
      BY <1>6, <3>1
    <3> QED BY <1>4, <1>5, <3>1, <3>2
  <2>6. k \in Nat
    BY <1>3, <1>1
  <2> QED BY <2>1, <2>2, <2>3, <2>4, <2>5, <2>6
<1>10. Ordered(t)
  BY <1>4, <1>9 DEF Ordered
<1>11. Range(t) = Range(s) \union {b}
  <2>1. Range(t) = {t[i] : i \in 1..(n + 1)}
    BY <1>4, RangeOf
  <2>2. ASSUME NEW x \in Range(t) PROVE x \in Range(s) \union {b}
    <3>1. PICK i \in 1..(n + 1) : x = t[i]
      BY <2>1, <2>2
    <3>2. CASE i \in 1..k
      <4>1. i \in 1..n /\ t[i] = s[i]
        BY <1>4, <1>7, <3>2
      <4> QED BY <1>1, <3>1, <4>1
    <3>3. CASE i = k + 1
      BY <1>4, <3>1, <3>3
    <3>4. CASE i \in (k + 2)..(n + 1)
      <4>1. i - 1 \in 1..n /\ t[i] = s[i - 1]
        BY <1>1, <1>3, <1>4, <3>4
      <4> QED BY <1>1, <3>1, <4>1
    <3> QED BY <1>1, <1>3, <3>2, <3>3, <3>4
  <2>3. ASSUME NEW x \in Range(s) PROVE x \in Range(t)
    <3>1. PICK i \in 1..n : x = s[i]
      BY <1>1, <2>3
    <3>2. CASE i \in 1..k
      <4>1. i \in 1..(n + 1) /\ t[i] = s[i]
        BY <1>1, <1>4, <3>2
      <4> QED BY <2>1, <3>1, <4>1
    <3>3. CASE i \in (k + 1)..n
      <4>1. /\ i + 1 \in (k + 2)..(n + 1) /\ i + 1 \in 1..(n + 1)
            /\ (i + 1) - 1 = i
        BY <1>1, <1>3, <3>3
      <4>2. t[i + 1] = s[i]
        BY <1>4, <4>1
      <4> QED BY <2>1, <3>1, <4>1, <4>2
    <3> QED BY <1>1, <1>3, <3>2, <3>3
  <2>4. b \in Range(t)
    <3>1. k + 1 \in 1..(n + 1)
      BY <1>1, <1>3
    <3> QED BY <1>4, <2>1, <3>1
  <2> QED BY <2>2, <2>3, <2>4
<1> QED BY <1>4, <1>10, <1>11 DEF t

\* kfree takes a block out of use.
LEMMA KfreeOK ==
  ASSUME NEW L, NEW end, NEW s, HeapOK(s, L, end), NEW b \in L
  PROVE  /\ HeapOK(Coalesced(Inserted(s, b)), L \ {b}, end)
         /\ Filled(Range(s)) => Filled(Range(Coalesced(Inserted(s, b))))
<1> DEFINE t == Inserted(s, b)
           M == L \ {b}
           r == Coalesced(t)
<1>1. t \in Seq(BlockRec) /\ Ordered(t) /\ Range(t) = Range(s) \union {b}
  BY InsertedOK
<1>2. end \in Nat /\ Aligned(end) /\ HeapStart <= end /\ InUse(M, end)
  BY DEF HeapOK, InUse
<1>3. Fit(Range(t), M, end)
  <2>1. Range(s) \subseteq BlockRec /\ b \in BlockRec
    BY DEF HeapOK, Fit, InUse
  <2>2. /\ Aligned(b.addr) /\ HeapStart <= b.addr /\ End(b) <= end
        /\ b.size # 0 /\ \A d \in M : Apart(b, d)
    BY DEF HeapOK, InUse
  <2>3. \A x \in Range(s) : /\ Aligned(x.addr) /\ HeapStart <= x.addr /\ End(x) <= end
                            /\ x.size = 0 => x.addr = end
                            /\ \A d \in M : Apart(x, d)
    BY DEF HeapOK, Fit
  <2> HIDE DEF t, M
  <2> QED BY <1>1, <2>1, <2>2, <2>3 DEF Fit
<1> HIDE DEF t, M
<1>4. /\ r \in Seq(BlockRec) /\ Spread(r) /\ Fit(Range(r), M, end)
      /\ Filled(Range(t)) => Filled(Range(r))
      /\ Keeps(Range(t), Range(r))
  BY <1>1, <1>2, <1>3, CoalescedOK
<1> HIDE DEF r
<1>5. Covered(Range(r) \union M, end)
  <2> SUFFICES ASSUME NEW a \in HeapStart..(end - 1)
               PROVE  \E x \in Range(r) \union M : Holds(x, a)
    BY DEF Covered
  <2>1. a \in Nat
    BY <1>2, HeapAssumption
  <2>2. PICK x \in Range(s) \union L : Holds(x, a)
    BY DEF HeapOK, Covered
  <2>3. x \in Range(t) \/ x \in M
    BY <1>1 DEF M
  <2> QED BY <1>4, <2>1, <2>2, <2>3 DEF Keeps
<1>6. HeapOK(r, M, end)
  BY <1>2, <1>4, <1>5 DEF HeapOK
<1>7. Filled(Range(s)) => Filled(Range(r))
  <2>1. b.size # 0
    BY DEF HeapOK, InUse
  <2> QED BY <1>1, <1>4, <2>1 DEF Filled
<1> QED BY <1>6, <1>7 DEF r, t, M

-----------------------------------------------------------------------------
(* The search of kmalloc.                                                  *)

\* The walk that drops empty blocks.
LEMMA NonEmptyWalk ==
  ASSUME NEW s \in Seq(BlockRec)
  PROVE  \E f \in [0..Len(s) -> Seq(BlockRec)] :
           /\ f[0] = <<>>
           /\ \A i \in 1..Len(s) :
                f[i] = IF s[i].size # 0 THEN Append(f[i - 1], s[i]) ELSE f[i - 1]
           /\ NonEmpty(s) = f[Len(s)]
<1> DEFINE n == Len(s)
           V == Seq(BlockRec)
           Add(v, i) == IF s[i].size # 0 THEN Append(v, s[i]) ELSE v
           Eq(h) == h = [i \in 0..n |-> IF i = 0 THEN <<>> ELSE Add(h[i - 1], i)]
           g == [v \in V \X (1..n) |-> Add(v[1], v[2])]
           u == CHOOSE h : Eq(h)
<1>1. n \in Nat /\ <<>> \in V /\ \A i \in 1..n : s[i] \in BlockRec
  OBVIOUS
<1>2. \A v \in V, i \in 1..n : Add(v, i) \in V
  BY <1>1
<1>3. NonEmpty(s) = u[n]
  BY DEF NonEmpty
<1> HIDE DEF Add
<1>4. g \in [V \X (1..n) -> V]
  <2> HIDE DEF V, n
  <2> SUFFICES ASSUME NEW v \in V \X (1..n) PROVE Add(v[1], v[2]) \in V
    OBVIOUS
  <2> QED BY <1>2
<1>5. PICK f \in [0..n -> V] : f[0] = <<>> /\ \A i \in 1..n : f[i] = g[<<f[i - 1], i>>]
  <2>1. Recursions(n, V, <<>>, g) # {}
    <3> HIDE DEF n, V, g
    <3> QED BY <1>1, <1>4, Recursion
  <2> HIDE DEF n, V, g
  <2> QED BY <2>1 DEF Recursions
<1>6. \A i \in 1..n : f[i] = Add(f[i - 1], i)
  <2> SUFFICES ASSUME NEW i \in 1..n PROVE f[i] = Add(f[i - 1], i)
    OBVIOUS
  <2>1. f[i - 1] \in V
    BY <1>1
  <2> QED BY <1>5, <2>1
<1>7. Eq(f)
  <2>1. ASSUME NEW i \in 0..n PROVE f[i] = IF i = 0 THEN <<>> ELSE Add(f[i - 1], i)
    BY <1>5, <1>6
  <2> HIDE DEF V
  <2> QED BY <1>5, <2>1
<1>8. Eq(u)
  <2> HIDE DEF Eq
  <2> QED BY <1>7, Zenon
<1>9. u[0] = <<>> /\ \A i \in 1..n : u[i] = Add(u[i - 1], i)
  <2>1. \A i \in 0..n : u[i] = IF i = 0 THEN <<>> ELSE Add(u[i - 1], i)
    <3> HIDE DEF u
    <3> QED BY <1>8
  <2> HIDE DEF u
  <2> QED BY <1>1, <2>1
<1>10. DOMAIN u = 0..n /\ u = [i \in 0..n |-> u[i]]
  <2> HIDE DEF u
  <2> QED BY <1>8
<1>11. \A i \in 0..n : u[i] \in V
  <2> DEFINE S == {i \in 0..n : u[i] \in V}
  <2> HIDE DEF u, V
  <2>1. 0 \in S
    BY <1>1, <1>9
  <2>2. ASSUME NEW i \in 0..(n - 1), i \in S PROVE i + 1 \in S
    <3>1. i + 1 \in 1..n /\ (i + 1) - 1 = i
      BY <1>1
    <3>2. u[i + 1] = Add(u[i], i + 1)
      BY <1>9, <3>1
    <3>3. u[i + 1] \in V
      BY <1>2, <2>2, <3>1, <3>2
    <3> QED BY <3>1, <3>3
  <2>3. \A i \in 0..n : i \in S
    <3> HIDE DEF S
    <3> QED BY <1>1, <2>1, <2>2, UpToInduction
  <2> QED BY <2>3
<1>12. u \in [0..n -> V]
  <2> HIDE DEF u, V
  <2> QED BY <1>10, <1>11
<1> HIDE DEF u
<1> QED BY <1>3, <1>9, <1>12 DEF Add

\* A block behind all blocks of a list is appended.
LEMMA AppendBehind ==
  ASSUME NEW s \in Seq(BlockRec), Spread(s), NEW b \in BlockRec,
         \A x \in Range(s) : End(x) < b.addr
  PROVE  /\ Append(s, b) \in Seq(BlockRec) /\ Spread(Append(s, b))
         /\ Range(Append(s, b)) = Range(s) \union {b}
<1> DEFINE n == Len(s)
           r == Append(s, b)
<1>1. n \in Nat /\ Range(s) = {s[i] : i \in 1..n}
  BY RangeOf
<1>2. /\ r \in Seq(BlockRec) /\ Len(r) = n + 1 /\ r[n + 1] = b
      /\ \A i \in 1..n : r[i] = s[i]
  OBVIOUS
<1>3. Range(r) = {r[i] : i \in 1..(n + 1)}
  BY <1>2, RangeOf
<1> HIDE DEF r, n
<1>4. Range(r) = Range(s) \union {b}
  BY <1>1, <1>2, <1>3
<1>5. Spread(r)
  <2> SUFFICES ASSUME NEW i \in 1..(n + 1), NEW j \in 1..(n + 1), i < j
               PROVE  End(r[i]) < r[j].addr
    BY <1>2 DEF Spread
  <2>1. i \in 1..n /\ r[i] = s[i] /\ s[i] \in Range(s)
    BY <1>1, <1>2
  <2>2. CASE j = n + 1
    BY <1>2, <2>1, <2>2
  <2>3. CASE j # n + 1
    <3>1. j \in 1..n /\ r[j] = s[j]
      BY <1>1, <1>2, <2>3
    <3> QED BY <2>1, <3>1 DEF Spread, n
  <2> QED BY <2>2, <2>3
<1> QED BY <1>2, <1>4, <1>5 DEF r

\* The list without its empty blocks.
LEMMA NonEmptyOK ==
  ASSUME NEW s \in Seq(BlockRec), Spread(s)
  PROVE  /\ NonEmpty(s) \in Seq(BlockRec) /\ Spread(NonEmpty(s))
         /\ Range(NonEmpty(s)) = {x \in Range(s) : x.size # 0}
<1> DEFINE n == Len(s)
<1>1. PICK f \in [0..n -> Seq(BlockRec)] :
        /\ f[0] = <<>>
        /\ \A i \in 1..n : f[i] = IF s[i].size # 0 THEN Append(f[i - 1], s[i]) ELSE f[i - 1]
        /\ NonEmpty(s) = f[n]
  BY NonEmptyWalk
<1>2. n \in Nat /\ \A i \in 1..n : s[i] \in BlockRec
  OBVIOUS
<1>3. Range(s) = {s[i] : i \in 1..n}
  BY RangeOf
<1>4. \A i, j \in 1..n : i < j => End(s[i]) < s[j].addr
  BY DEF Spread
<1> HIDE DEF n
<1> DEFINE Up(i) == {s[j] : j \in {k \in 1..i : s[k].size # 0}}
           S == {i \in 0..n : Spread(f[i]) /\ Range(f[i]) = Up(i)}
<1>5. 0 \in S
  <2>1. 0 \in 0..n /\ Range(f[0]) = {} /\ Len(f[0]) = 0
    BY <1>1, <1>2 DEF Range
  <2>2. Up(0) = {}
    OBVIOUS
  <2> QED BY <2>1, <2>2 DEF Spread
<1>6. ASSUME NEW i \in 0..(n - 1), i \in S PROVE i + 1 \in S
  <2>1. /\ i \in Nat /\ i \in 0..n /\ i + 1 \in 1..n /\ i + 1 \in 0..n /\ (i + 1) - 1 = i
        /\ \A j \in 1..i : j \in 1..n /\ j < i + 1
    BY <1>2
  <2>2. f[i] \in Seq(BlockRec) /\ s[i + 1] \in BlockRec
    BY <1>2, <2>1
  <2>3. Spread(f[i]) /\ Range(f[i]) = Up(i)
    BY <1>6
  <2>4. f[i + 1] = IF s[i + 1].size # 0 THEN Append(f[i], s[i + 1]) ELSE f[i]
    BY <1>1, <2>1
  <2>5. CASE s[i + 1].size # 0
    <3>1. \A x \in Range(f[i]) : End(x) < s[i + 1].addr
      BY <1>4, <2>1, <2>3
    <3>2. /\ Spread(Append(f[i], s[i + 1]))
          /\ Range(Append(f[i], s[i + 1])) = Range(f[i]) \union {s[i + 1]}
      BY <2>2, <2>3, <3>1, AppendBehind
    <3>3. Up(i + 1) = Up(i) \union {s[i + 1]}
      BY <2>1, <2>5
    <3> QED BY <2>1, <2>3, <2>4, <2>5, <3>2, <3>3
  <2>6. CASE s[i + 1].size = 0
    <3>1. Up(i + 1) = Up(i)
      BY <2>1, <2>6
    <3> QED BY <2>1, <2>3, <2>4, <2>6, <3>1
  <2> QED BY <2>5, <2>6
<1>7. \A i \in 0..n : i \in S
  <2> HIDE DEF S
  <2> QED BY <1>2, <1>5, <1>6, UpToInduction
<1>8. n \in S /\ f[n] \in Seq(BlockRec)
  <2> HIDE DEF S
  <2>1. n \in 0..n
    BY <1>2
  <2> QED BY <1>7, <2>1
<1>9. Up(n) = {x \in Range(s) : x.size # 0}
  BY <1>3
<1> QED BY <1>1, <1>8, <1>9

\* Two lists, one behind the other.
LEMMA Concat ==
  ASSUME NEW p \in Seq(BlockRec), NEW q \in Seq(BlockRec), Spread(p), Spread(q),
         \A x \in Range(p), y \in Range(q) : End(x) < y.addr
  PROVE  /\ p \o q \in Seq(BlockRec) /\ Spread(p \o q)
         /\ Range(p \o q) = Range(p) \union Range(q)
<1> DEFINE m == Len(p)
           n == Len(q)
           r == p \o q
<1>1. /\ m \in Nat /\ n \in Nat
      /\ Range(p) = {p[i] : i \in 1..m} /\ Range(q) = {q[i] : i \in 1..n}
  BY RangeOf
<1>2. /\ r \in Seq(BlockRec) /\ Len(r) = m + n
      /\ \A i \in 1..(m + n) : r[i] = IF i <= m THEN p[i] ELSE q[i - m]
  BY ConcatProperties
<1>3. Range(r) = {r[i] : i \in 1..(m + n)}
  BY <1>2, RangeOf
<1>4. /\ \A i, j \in 1..m : i < j => End(p[i]) < p[j].addr
      /\ \A i, j \in 1..n : i < j => End(q[i]) < q[j].addr
  BY DEF Spread
<1> HIDE DEF m, n, r
<1>5. \A i \in 1..m : i \in 1..(m + n) /\ i <= m /\ r[i] = p[i]
  BY <1>1, <1>2
<1>6. \A i \in 1..n : i + m \in 1..(m + n) /\ r[i + m] = q[i]
  <2> SUFFICES ASSUME NEW i \in 1..n PROVE i + m \in 1..(m + n) /\ r[i + m] = q[i]
    OBVIOUS
  <2>1. i + m \in 1..(m + n) /\ ~(i + m <= m) /\ (i + m) - m = i
    BY <1>1
  <2> QED BY <1>2, <2>1
<1>7. \A i \in 1..(m + n) : i \in 1..m \/ \E j \in 1..n : i = j + m
  <2> SUFFICES ASSUME NEW i \in 1..(m + n), i \notin 1..m PROVE \E j \in 1..n : i = j + m
    OBVIOUS
  <2>1. i - m \in 1..n /\ i = (i - m) + m
    BY <1>1
  <2> QED BY <2>1
<1>8. Range(r) = Range(p) \union Range(q)
  <2>1. ASSUME NEW x \in Range(r) PROVE x \in Range(p) \union Range(q)
    <3>1. PICK i \in 1..(m + n) : x = r[i]
      BY <1>3
    <3>2. CASE i \in 1..m
      BY <1>1, <1>5, <3>1, <3>2
    <3>3. CASE \E j \in 1..n : i = j + m
      BY <1>1, <1>6, <3>1, <3>3
    <3> QED BY <1>7, <3>2, <3>3
  <2>2. ASSUME NEW x \in Range(p) PROVE x \in Range(r)
    BY <1>1, <1>3, <1>5
  <2>3. ASSUME NEW x \in Range(q) PROVE x \in Range(r)
    <3>1. PICK i \in 1..n : x = q[i]
      BY <1>1
    <3>2. i + m \in 1..(m + n) /\ r[i + m] = x
      BY <1>6, <3>1
    <3> QED BY <1>3, <3>2
  <2> QED BY <2>1, <2>2, <2>3
<1>9. ASSUME NEW i \in 1..(m + n), NEW j \in 1..(m + n), i < j PROVE End(r[i]) < r[j].addr
  <2>1. CASE i \in 1..m /\ j \in 1..m
    BY <1>4, <1>5, <1>9, <2>1
  <2>2. CASE i \in 1..m /\ \E h \in 1..n : j = h + m
    <3>1. PICK h \in 1..n : j = h + m
      BY <2>2
    <3>2. r[i] = p[i] /\ p[i] \in Range(p) /\ r[j] = q[h] /\ q[h] \in Range(q)
      BY <1>1, <1>5, <1>6, <2>2, <3>1
    <3> QED BY <3>2
  <2>3. CASE (\E g \in 1..n : i = g + m) /\ j \in 1..m
    BY <1>1, <1>9, <2>3
  <2>4. CASE (\E g \in 1..n : i = g + m) /\ \E h \in 1..n : j = h + m
    <3>1. PICK g \in 1..n : i = g + m
      BY <2>4
    <3>2. PICK h \in 1..n : j = h + m
      BY <2>4
    <3>3. r[i] = q[g] /\ r[j] = q[h] /\ g < h
      BY <1>1, <1>6, <1>9, <3>1, <3>2
    <3> QED BY <1>4, <3>3
  <2> QED BY <1>7, <2>1, <2>2, <2>3, <2>4
<1>10. Spread(r)
  BY <1>2, <1>9 DEF Spread
<1> QED BY <1>2, <1>8, <1>10 DEF r

\* A part of a list.
LEMMA Cut ==
  ASSUME NEW s \in Seq(BlockRec), Spread(s),
         NEW m \in 1..(Len(s) + 1), NEW n \in (m - 1)..Len(s)
  PROVE  /\ SubSeq(s, m, n) \in Seq(BlockRec) /\ Spread(SubSeq(s, m, n))
         /\ Range(SubSeq(s, m, n)) = {s[i] : i \in m..n}
<1> DEFINE r == SubSeq(s, m, n)
           k == n - m + 1
<1>1. Len(s) \in Nat /\ k \in Nat /\ m \in Nat /\ n \in Int /\ n <= Len(s) /\ m >= 1
  OBVIOUS
<1>2. r \in Seq(BlockRec) /\ Len(r) = k /\ \A i \in 1..k : r[i] = s[m + i - 1]
  BY Part
<1>3. Range(r) = {r[i] : i \in 1..k}
  BY <1>2, RangeOf
<1> HIDE DEF r
<1>4. \A i \in 1..k : m + i - 1 \in m..n /\ m + i - 1 \in 1..Len(s)
  BY <1>1
<1>5. \A i \in m..n : i - m + 1 \in 1..k /\ m + (i - m + 1) - 1 = i
  BY <1>1
<1>6. Range(r) = {s[i] : i \in m..n}
  <2>1. ASSUME NEW x \in Range(r) PROVE x \in {s[i] : i \in m..n}
    BY <1>2, <1>3, <1>4
  <2>2. ASSUME NEW i \in m..n PROVE s[i] \in Range(r)
    <3>1. i - m + 1 \in 1..k /\ r[i - m + 1] = s[i]
      BY <1>2, <1>5
    <3> QED BY <1>3, <3>1
  <2> QED BY <2>1, <2>2
<1>7. Spread(r)
  <2> SUFFICES ASSUME NEW i \in 1..k, NEW j \in 1..k, i < j PROVE End(r[i]) < r[j].addr
    BY <1>2 DEF Spread
  <2>1. /\ r[i] = s[m + i - 1] /\ r[j] = s[m + j - 1] /\ m + i - 1 \in 1..Len(s)
        /\ m + j - 1 \in 1..Len(s) /\ m + i - 1 < m + j - 1
    BY <1>1, <1>2, <1>4
  <2> QED BY <2>1 DEF Spread
<1> QED BY <1>2, <1>6, <1>7 DEF r

\* A search that succeeds finds a block that is large enough.
LEMMA FirstFitIs ==
  ASSUME NEW s \in Seq(BlockRec), NEW total \in Nat, FirstFit(s, total) # 0
  PROVE  /\ FirstFit(s, total) \in 1..Len(s)
         /\ s[FirstFit(s, total)].size # 0 /\ s[FirstFit(s, total)].size >= total
<1> DEFINE fits == {i \in 1..Len(s) : s[i].size # 0 /\ s[i].size >= total}
<1>1. fits # {} /\ FirstFit(s, total) = CHOOSE i \in fits : \A j \in fits : i <= j
  BY DEF FirstFit
<1>2. fits \in SUBSET Nat
  OBVIOUS
<1>3. \E i \in fits : \A j \in fits : i <= j
  <2> HIDE DEF fits
  <2> QED BY <1>1, <1>2, LeastIn
<1>4. FirstFit(s, total) \in fits
  <2> HIDE DEF fits
  <2> QED BY <1>1, <1>3
<1> QED BY <1>4

\* The sum of aligned numbers is aligned.
LEMMA AlignedSum ==
  ASSUME NEW a \in Nat, NEW n \in Nat, Aligned(a), Aligned(n)
  PROVE  Aligned(a + n)
  BY DEF Aligned, ALIGN

\* What is left of block b when a block is taken from it.
Rest(b, total) ==
  IF Splits(b, total) THEN <<Block(b.addr + total, b.size - total)>> ELSE <<>>

\* The block that is taken and what is left of it make up the free block.
LEMMA TakenOK ==
  ASSUME NEW c \in BlockRec, Aligned(c.addr), c.size # 0,
         NEW total \in Nat, total # 0, Aligned(total), c.size >= total
  PROVE  /\ Taken(c, total) \in BlockRec /\ Taken(c, total).addr = c.addr
         /\ Taken(c, total).size >= total /\ Taken(c, total).size # 0
         /\ End(Taken(c, total)) <= End(c)
         /\ Rest(c, total) \in Seq(BlockRec) /\ Spread(Rest(c, total))
         /\ \A x \in Range(Rest(c, total)) :
              /\ x \in BlockRec /\ Aligned(x.addr) /\ x.size # 0
              /\ c.addr <= x.addr /\ End(x) <= End(c) /\ End(Taken(c, total)) <= x.addr
         /\ \A a \in Nat : Holds(c, a) =>
              \E x \in Range(Rest(c, total)) \union {Taken(c, total)} : Holds(x, a)
<1> DEFINE b == Taken(c, total)
           r == Rest(c, total)
<1>1. c.addr \in Nat /\ c.size \in Nat /\ End(c) = c.addr + c.size
  BY Fields
<1>2. CASE Splits(c, total)
  <2> DEFINE x == Block(c.addr + total, c.size - total)
  <2>1. c.size >= total + 32
    BY <1>2 DEF Splits, HeaderSize, ALIGN
  <2>2. c.addr + total \in Nat /\ c.size - total \in Nat
    BY <1>1, <2>1
  <2>3. /\ x \in BlockRec /\ x.addr = c.addr + total /\ x.size = c.size - total
        /\ End(x) = (c.addr + total) + (c.size - total)
    BY <2>2, BlockFields
  <2>4. b \in BlockRec /\ b.addr = c.addr /\ b.size = total /\ End(b) = c.addr + total
    <3>1. b = Block(c.addr, total)
      BY <1>2 DEF Taken
    <3> HIDE DEF b
    <3> QED BY <1>1, <3>1, BlockFields
  <2>5. r = <<x>>
    BY <1>2 DEF Rest
  <2>6. Aligned(x.addr)
    BY <1>1, <2>3, AlignedSum
  <2> HIDE DEF x, b, r
  <2>7. r \in Seq(BlockRec) /\ Len(r) = 1 /\ Range(r) = {x}
    <3>1. r \in Seq(BlockRec) /\ Len(r) = 1 /\ r[1] = x
      BY <2>3, <2>5
    <3> QED BY <3>1, RangeOf
  <2>8. Spread(r)
    BY <2>7 DEF Spread
  <2>9. ASSUME NEW a \in Nat, Holds(c, a) PROVE Holds(b, a) \/ Holds(x, a)
    BY <1>1, <2>1, <2>3, <2>4, <2>9 DEF Holds
  <2>10. /\ x \in BlockRec /\ x.size # 0 /\ c.addr <= x.addr /\ End(x) <= End(c)
         /\ End(b) <= x.addr /\ End(b) <= End(c) /\ b.size >= total /\ b.size # 0
    BY <1>1, <2>1, <2>3, <2>4
  <2> QED BY <2>4, <2>6, <2>7, <2>8, <2>9, <2>10 DEF b, r
<1>3. CASE ~Splits(c, total)
  <2>1. b = c /\ r = <<>>
    BY <1>3 DEF Taken, Rest
  <2>2. r \in Seq(BlockRec) /\ Len(r) = 0 /\ Range(r) = {}
    BY <2>1 DEF Range
  <2> HIDE DEF b, r
  <2>3. Spread(r)
    BY <2>2 DEF Spread
  <2>4. End(c) <= End(c)
    BY <1>1
  <2> QED BY <2>1, <2>2, <2>3, <2>4 DEF b, r
<1> QED BY <1>2, <1>3

\* kmalloc takes a block from the list.
LEMMA AllocOK ==
  ASSUME NEW L, NEW end, NEW s, HeapOK(s, L, end),
         NEW total \in Nat, total # 0, Aligned(total),
         NEW i \in 1..Len(s), s[i].size # 0, s[i].size >= total
  PROVE  /\ HeapOK(WithoutFit(s, i, total), L \union {Taken(s[i], total)}, end)
         /\ Filled(Range(s)) => Filled(Range(WithoutFit(s, i, total)))
         /\ Taken(s[i], total).size >= total
         /\ \A d \in L : Apart(Taken(s[i], total), d)
<1> DEFINE n == Len(s)
           c == s[i]
           b == Taken(c, total)
           r == Rest(c, total)
           p == NonEmpty(SubSeq(s, 1, i - 1))
           q == SubSeq(s, i + 1, n)
           t == WithoutFit(s, i, total)
           M == L \union {b}
<1>1. /\ s \in Seq(BlockRec) /\ n \in Nat /\ Range(s) = {s[j] : j \in 1..n}
      /\ Spread(s) /\ end \in Nat /\ Aligned(end) /\ HeapStart <= end /\ i \in 1..n
  BY RangeOf DEF HeapOK
<1>2. c \in Range(s) /\ c \in BlockRec
  BY <1>1
<1>3. /\ Aligned(c.addr) /\ HeapStart <= c.addr /\ End(c) <= end
      /\ \A d \in L : Apart(c, d)
  BY <1>2 DEF HeapOK, Fit
<1>4. /\ b \in BlockRec /\ b.addr = c.addr /\ b.size >= total /\ b.size # 0
      /\ End(b) <= End(c) /\ r \in Seq(BlockRec) /\ Spread(r)
      /\ \A x \in Range(r) :
           /\ x \in BlockRec /\ Aligned(x.addr) /\ x.size # 0
           /\ c.addr <= x.addr /\ End(x) <= End(c) /\ End(b) <= x.addr
      /\ \A a \in Nat : Holds(c, a) => \E x \in Range(r) \union {b} : Holds(x, a)
  <2> HIDE DEF c
  <2> QED BY <1>2, <1>3, TakenOK DEF c
<1>5. t = (p \o r) \o q
  BY DEF WithoutFit, Rest
<1>6. /\ p \in Seq(BlockRec) /\ Spread(p)
      /\ Range(p) = {x \in {s[j] : j \in 1..(i - 1)} : x.size # 0}
  <2>1. 1 \in 1..(Len(s) + 1) /\ i - 1 \in (1 - 1)..Len(s)
    BY <1>1
  <2>2. /\ SubSeq(s, 1, i - 1) \in Seq(BlockRec) /\ Spread(SubSeq(s, 1, i - 1))
        /\ Range(SubSeq(s, 1, i - 1)) = {s[j] : j \in 1..(i - 1)}
    BY <1>1, <2>1, Cut
  <2> QED BY <2>2, NonEmptyOK
<1>7. q \in Seq(BlockRec) /\ Spread(q) /\ Range(q) = {s[j] : j \in (i + 1)..n}
  <2>1. i + 1 \in 1..(Len(s) + 1) /\ n \in ((i + 1) - 1)..Len(s)
    BY <1>1
  <2> QED BY <1>1, <2>1, Cut
<1>8. \A j, k \in 1..n : j < k => End(s[j]) < s[k].addr
  BY <1>1 DEF Spread
<1> HIDE DEF n, c, b, r, p, q, t, M
<1>9. /\ c.addr \in Nat /\ c.size \in Nat /\ End(c) = c.addr + c.size
      /\ b.addr \in Nat /\ b.size \in Nat /\ End(b) = b.addr + b.size
  BY <1>2, <1>4, Fields
<1>10. ASSUME NEW x \in Range(p) PROVE x \in Range(s) /\ End(x) < c.addr
  <2>1. PICK j \in 1..(i - 1) : x = s[j]
    BY <1>6
  <2>2. j \in 1..n /\ i \in 1..n /\ j < i
    BY <1>1
  <2> QED BY <1>1, <1>8, <2>1, <2>2 DEF c
<1>11. ASSUME NEW x \in Range(q) PROVE x \in Range(s) /\ End(c) < x.addr
  <2>1. PICK j \in (i + 1)..n : x = s[j]
    BY <1>7
  <2>2. j \in 1..n /\ i \in 1..n /\ i < j
    BY <1>1
  <2> QED BY <1>1, <1>8, <2>1, <2>2 DEF c
<1>12. Range(s) \subseteq BlockRec
  BY DEF HeapOK, Fit
<1>13. t \in Seq(BlockRec) /\ Spread(t) /\ Range(t) = Range(p) \union Range(r) \union Range(q)
  <2>1. \A x \in Range(p), y \in Range(r) : End(x) < y.addr
    <3> SUFFICES ASSUME NEW x \in Range(p), NEW y \in Range(r) PROVE End(x) < y.addr
      OBVIOUS
    <3>1. End(x) \in Nat /\ y.addr \in Nat /\ End(x) < c.addr /\ c.addr <= y.addr
      BY <1>4, <1>10, <1>12, Fields
    <3> QED BY <1>9, <3>1
  <2>2. /\ p \o r \in Seq(BlockRec) /\ Spread(p \o r)
        /\ Range(p \o r) = Range(p) \union Range(r)
    BY <1>4, <1>6, <2>1, Concat
  <2>3. \A x \in Range(p) \union Range(r), y \in Range(q) : End(x) < y.addr
    <3> SUFFICES ASSUME NEW x \in Range(p) \union Range(r), NEW y \in Range(q)
                 PROVE  End(x) < y.addr
      OBVIOUS
    <3>1. End(x) \in Nat /\ y.addr \in Nat /\ End(c) < y.addr
      BY <1>4, <1>10, <1>11, <1>12, Fields
    <3>2. End(x) <= End(c)
      <4>1. x \in Range(r) => End(x) <= End(c)
        BY <1>4
      <4>2. x \in Range(p) => End(x) < c.addr
        BY <1>10
      <4> QED BY <1>9, <3>1, <4>1, <4>2
    <3> QED BY <1>9, <3>1, <3>2
  <2>4. /\ (p \o r) \o q \in Seq(BlockRec) /\ Spread((p \o r) \o q)
        /\ Range((p \o r) \o q) = Range(p \o r) \union Range(q)
    <3> DEFINE w == p \o r
    <3>1. w \in Seq(BlockRec) /\ Spread(w) /\ \A x \in Range(w), y \in Range(q) : End(x) < y.addr
      BY <2>2, <2>3
    <3> HIDE DEF w
    <3>2. /\ w \o q \in Seq(BlockRec) /\ Spread(w \o q)
          /\ Range(w \o q) = Range(w) \union Range(q)
      BY <1>7, <3>1, Concat
    <3> QED BY <3>2 DEF w
  <2> QED BY <1>5, <2>2, <2>4
<1>14. ASSUME NEW d \in L PROVE Apart(b, d) /\ d \in BlockRec
  <2>1. d \in BlockRec /\ d.size # 0 /\ Apart(c, d)
    BY <1>3 DEF HeapOK, InUse
  <2>2. d.addr \in Nat /\ d.size \in Nat /\ End(d) = d.addr + d.size
    BY <2>1, Fields
  <2> QED BY <1>4, <1>9, <2>1, <2>2 DEF Apart
<1>15. InUse(M, end)
  <2>1. \A d \in L : /\ d \in BlockRec /\ Aligned(d.addr) /\ HeapStart <= d.addr
                     /\ End(d) <= end /\ d.size # 0 /\ \A e \in L : d # e => Apart(d, e)
    BY DEF HeapOK, InUse
  <2>2. Aligned(b.addr) /\ HeapStart <= b.addr /\ End(b) <= end
    BY <1>1, <1>3, <1>4, <1>9
  <2>3. \A d \in L : Apart(d, b)
    BY <1>14 DEF Apart
  <2> QED BY <1>4, <1>14, <2>1, <2>2, <2>3 DEF InUse, M
<1>16. ASSUME NEW x \in Range(p) \union Range(q)
       PROVE  /\ x \in BlockRec /\ Aligned(x.addr) /\ HeapStart <= x.addr /\ End(x) <= end
              /\ x.size = 0 => x.addr = end
              /\ \A d \in M : Apart(x, d)
  <2>1. x \in Range(s)
    BY <1>10, <1>11
  <2>2. /\ x \in BlockRec /\ Aligned(x.addr) /\ HeapStart <= x.addr /\ End(x) <= end
        /\ x.size = 0 => x.addr = end
        /\ \A d \in L : Apart(x, d)
    BY <2>1 DEF HeapOK, Fit
  <2>3. End(x) \in Nat /\ x.addr \in Nat
    BY <2>2, Fields
  <2>4. End(x) < c.addr \/ End(c) < x.addr
    BY <1>10, <1>11
  <2>5. Apart(x, b)
    BY <1>4, <1>9, <2>3, <2>4 DEF Apart
  <2> QED BY <2>2, <2>5 DEF M
<1>17. ASSUME NEW x \in Range(r)
       PROVE  /\ x \in BlockRec /\ Aligned(x.addr) /\ HeapStart <= x.addr /\ End(x) <= end
              /\ x.size # 0
              /\ \A d \in M : Apart(x, d)
  <2>1. /\ x \in BlockRec /\ Aligned(x.addr) /\ x.size # 0
        /\ c.addr <= x.addr /\ End(x) <= End(c) /\ End(b) <= x.addr
    BY <1>4
  <2>2. x.addr \in Nat /\ x.size \in Nat /\ End(x) = x.addr + x.size
    BY <2>1, Fields
  <2>3. HeapStart <= x.addr /\ End(x) <= end
    BY <1>1, <1>3, <1>9, <2>1, <2>2, HeapAssumption
  <2>4. ASSUME NEW d \in L PROVE Apart(x, d)
    <3>1. d \in BlockRec /\ d.size # 0 /\ Apart(c, d)
      BY <1>3 DEF HeapOK, InUse
    <3>2. d.addr \in Nat /\ d.size \in Nat /\ End(d) = d.addr + d.size
      BY <3>1, Fields
    <3> QED BY <1>9, <2>1, <2>2, <3>1, <3>2 DEF Apart
  <2>5. Apart(x, b)
    BY <2>1 DEF Apart
  <2> QED BY <2>1, <2>3, <2>4, <2>5 DEF M
<1>18. Fit(Range(t), M, end)
  BY <1>13, <1>16, <1>17 DEF Fit
<1>19. Covered(Range(t) \union M, end)
  <2> SUFFICES ASSUME NEW a \in HeapStart..(end - 1)
               PROVE  \E x \in Range(t) \union M : Holds(x, a)
    BY DEF Covered
  <2>1. a \in Nat
    BY <1>1, HeapAssumption
  <2>2. PICK x \in Range(s) \union L : Holds(x, a)
    BY DEF HeapOK, Covered
  <2>3. CASE x \in L
    BY <2>2, <2>3 DEF M
  <2>4. CASE x = c
    BY <1>4, <1>13, <2>1, <2>2, <2>4 DEF M
  <2>5. CASE x \in Range(s) /\ x # c
    <3>1. PICK j \in 1..n : x = s[j]
      BY <1>1, <2>5
    <3>2. x.size # 0
      <4>1. x.addr \in Nat /\ x.size \in Nat /\ End(x) = x.addr + x.size
        BY <1>12, <2>5, Fields
      <4> QED BY <2>1, <2>2, <4>1 DEF Holds
    <3>3. j # i
      BY <2>5, <3>1 DEF c
    <3>4. j \in 1..(i - 1) \/ j \in (i + 1)..n
      BY <1>1, <3>3
    <3>5. x \in Range(p) \union Range(q)
      BY <1>6, <1>7, <3>1, <3>2, <3>4
    <3> QED BY <1>13, <2>2, <3>5
  <2> QED BY <2>3, <2>4, <2>5
<1>20. HeapOK(t, M, end)
  BY <1>1, <1>13, <1>15, <1>18, <1>19 DEF HeapOK
<1>21. Filled(Range(s)) => Filled(Range(t))
  BY <1>10, <1>11, <1>13, <1>17 DEF Filled
<1> QED BY <1>4, <1>14, <1>20, <1>21 DEF t, M, b, c

\* A search that fails drops the empty blocks.
LEMMA DropOK ==
  ASSUME NEW L, NEW end, NEW s, HeapOK(s, L, end)
  PROVE  HeapOK(NonEmpty(s), L, end) /\ Filled(Range(NonEmpty(s)))
<1> DEFINE r == NonEmpty(s)
<1>1. /\ s \in Seq(BlockRec) /\ Spread(s) /\ InUse(L, end)
      /\ end \in Nat /\ Aligned(end) /\ HeapStart <= end
  BY DEF HeapOK
<1>2. r \in Seq(BlockRec) /\ Spread(r) /\ Range(r) = {x \in Range(s) : x.size # 0}
  BY <1>1, NonEmptyOK
<1> HIDE DEF r
<1>3. Fit(Range(r), L, end)
  BY <1>2 DEF HeapOK, Fit
<1>4. Covered(Range(r) \union L, end)
  <2> SUFFICES ASSUME NEW a \in HeapStart..(end - 1)
               PROVE  \E x \in Range(r) \union L : Holds(x, a)
    BY DEF Covered
  <2>1. a \in Nat
    BY <1>1, HeapAssumption
  <2>2. PICK x \in Range(s) \union L : Holds(x, a)
    BY DEF HeapOK, Covered
  <2>3. CASE x \in L
    BY <2>2, <2>3
  <2>4. CASE x \in Range(s)
    <3>1. x \in BlockRec
      BY <2>4 DEF HeapOK, Fit
    <3>2. x.addr \in Nat /\ x.size \in Nat /\ End(x) = x.addr + x.size
      BY <3>1, Fields
    <3>3. x.size # 0
      BY <2>1, <2>2, <3>2 DEF Holds
    <3> QED BY <1>2, <2>2, <2>4, <3>3
  <2> QED BY <2>3, <2>4
<1>5. HeapOK(r, L, end)
  BY <1>1, <1>2, <1>3, <1>4 DEF HeapOK
<1> QED BY <1>2, <1>5 DEF r, Filled

-----------------------------------------------------------------------------
(* Growth.                                                                 *)

\* heap_expand adds a block, possibly an empty one, at the end of the heap.
LEMMA GrowOK ==
  ASSUME NEW L, NEW end, NEW s, HeapOK(s, L, end), Filled(Range(s)),
         NEW n \in Nat, Aligned(n)
  PROVE  HeapOK(Extended(s, Block(end, n)), L, end + n)
<1> DEFINE b == Block(end, n)
           k == Len(s)
           r == Join(s, b)
           last == end + n
<1>1. /\ s \in Seq(BlockRec) /\ k \in Nat /\ Range(s) = {s[j] : j \in 1..k}
      /\ Spread(s) /\ end \in Nat /\ Aligned(end) /\ InUse(L, end)
      /\ Fit(Range(s), L, end)
  BY RangeOf DEF HeapOK
<1>2. b \in BlockRec /\ b.addr = end /\ b.size = n /\ End(b) = last
  BY <1>1, BlockFields
<1>3. last \in Nat /\ last >= end /\ Aligned(last) /\ HeapStart <= end /\ HeapStart <= last
  <2>1. last \in Nat /\ last >= end
    BY <1>1
  <2>2. Aligned(last)
    BY <1>1, AlignedSum
  <2>3. HeapStart \in Nat
    BY HeapAssumption
  <2>4. HeapStart <= end
    BY <1>1 DEF HeapOK
  <2>5. HeapStart <= last
    BY <1>1, <2>1, <2>3, <2>4
  <2> QED BY <2>1, <2>2, <2>4, <2>5
<1>4. ASSUME NEW x \in Range(s) PROVE x.addr < end /\ End(x) <= end
  <2>1. x \in BlockRec /\ x.size # 0 /\ End(x) <= end
    BY <1>1 DEF Fit, Filled
  <2>2. x.addr \in Nat /\ x.size \in Nat /\ End(x) = x.addr + x.size
    BY <2>1, Fields
  <2> QED BY <1>1, <2>1, <2>2
<1>5. Place(s, b.addr) = k
  <2>1. /\ Place(s, end) \in 0..k
        /\ Place(s, end) < k => s[Place(s, end) + 1].addr >= end
    BY <1>1, PlaceIs
  <2>2. ASSUME Place(s, end) < k PROVE FALSE
    <3>1. Place(s, end) + 1 \in 1..k
      BY <1>1, <2>1, <2>2
    <3>2. s[Place(s, end) + 1] \in Range(s)
      BY <1>1, <3>1
    <3>3. s[Place(s, end) + 1].addr < end /\ s[Place(s, end) + 1].addr \in Nat
      BY <1>1, <1>4, <3>1, <3>2, Fields
    <3> QED BY <1>1, <2>1, <2>2, <3>3
  <2> QED BY <1>1, <1>2, <2>1, <2>2
<1>6. Extended(s, b) = r
  <2>1. Below(s, b.addr) = s
    BY <1>1, <1>5, SubSeqFull DEF Below
  <2>2. From(s, b.addr) = <<>>
    <3>1. k + 1 \in 1..(Len(s) + 1) /\ k \in ((k + 1) - 1)..Len(s) /\ k - (k + 1) + 1 = 0
      BY <1>1
    <3>2. SubSeq(s, k + 1, k) \in Seq(BlockRec) /\ Len(SubSeq(s, k + 1, k)) = k - (k + 1) + 1
      BY <1>1, <3>1, Part
    <3>3. SubSeq(s, k + 1, k) = <<>>
      BY <3>1, <3>2
    <3> QED BY <1>5, <3>3 DEF From
  <2> QED BY <2>1, <2>2 DEF Extended
<1> HIDE DEF b, k, last
<1>7. s # <<>> => End(Last(s)) <= b.addr
  <2> SUFFICES ASSUME s # <<>> PROVE End(Last(s)) <= b.addr
    OBVIOUS
  <2>1. Last(s) \in Range(s)
    BY <1>1 DEF Last, k
  <2> QED BY <1>2, <1>4, <2>1
<1>8. r \in Seq(BlockRec) /\ Spread(r) /\ Joined(Range(s), b, Range(r))
  BY <1>1, <1>2, <1>7, JoinList
<1> HIDE DEF r
<1>9. ASSUME NEW d \in L
      PROVE  /\ d \in BlockRec /\ Aligned(d.addr) /\ HeapStart <= d.addr /\ End(d) <= end
             /\ d.size # 0 /\ End(d) \in Nat
  BY <1>1, Fields DEF InUse
<1>10. InUse(L, last)
  <2>1. \A d \in L : End(d) <= last
    BY <1>1, <1>3, <1>9
  <2> QED BY <1>1, <2>1 DEF InUse
<1>11. Fit(Range(s), L, last)
  <2>1. \A x \in Range(s) : End(x) <= last /\ x.size # 0
    <3> SUFFICES ASSUME NEW x \in Range(s) PROVE End(x) <= last /\ x.size # 0
      OBVIOUS
    <3>1. End(x) \in Nat
      BY <1>1, Fields DEF Fit
    <3> QED BY <1>1, <1>3, <1>4, <3>1 DEF Filled
  <2> QED BY <1>1, <2>1 DEF Fit
<1>12. Fit({b}, L, last)
  <2>1. Aligned(b.addr) /\ HeapStart <= b.addr /\ End(b) <= last
    BY <1>1, <1>2, <1>3
  <2>2. b.size = 0 => b.addr = last
    BY <1>1, <1>2 DEF last
  <2>3. \A d \in L : Apart(b, d)
    BY <1>2, <1>9 DEF Apart
  <2> QED BY <1>2, <2>1, <2>2, <2>3 DEF Fit
<1>13. /\ Fit(Range(r), L, last)
       /\ Keeps(Range(s) \union {b}, Range(r))
  BY <1>2, <1>3, <1>8, <1>10, <1>11, <1>12, JoinFit
<1>14. Covered(Range(r) \union L, last)
  <2> SUFFICES ASSUME NEW a \in HeapStart..(last - 1)
               PROVE  \E x \in Range(r) \union L : Holds(x, a)
    BY DEF Covered
  <2>1. a \in Nat
    BY <1>3, HeapAssumption
  <2>2. CASE a < end
    <3>1. a \in HeapStart..(end - 1)
      BY <1>1, <1>3, <2>2
    <3>2. PICK x \in Range(s) \union L : Holds(x, a)
      BY <3>1 DEF HeapOK, Covered
    <3> QED BY <1>13, <2>1, <3>2 DEF Keeps
  <2>3. CASE ~(a < end)
    <3>1. Holds(b, a)
      BY <1>1, <1>2, <1>3, <2>1, <2>3 DEF Holds
    <3> QED BY <1>13, <2>1, <3>1 DEF Keeps
  <2> QED BY <2>2, <2>3
<1>15. HeapOK(r, L, last)
  BY <1>3, <1>8, <1>10, <1>13, <1>14 DEF HeapOK
<1> QED BY <1>6, <1>15 DEF b, last

-----------------------------------------------------------------------------
(* Sizes.                                                                  *)

\* No size asked for comes close to the range of uint32_t.
NoWrap == \A size \in Sizes : size + 2 * ALIGN + CanarySize + HeaderSize <= WordMod

\* A number below the modulus is its own remainder.
LEMMA RemainderLow ==
  ASSUME NEW c \in Nat \ {0}, NEW a \in 0..(c - 1)
  PROVE  a % c = a
  BY SMT

\* align_up finds the next multiple of ALIGN.
LEMMA AlignUp ==
  ASSUME NEW n \in Nat, n + 8 <= WordMod
  PROVE  /\ align_up(n) \in Nat /\ Aligned(align_up(n))
         /\ n <= align_up(n) /\ align_up(n) <= n + 7
<1>1. WordMod \in Nat \ {0} /\ n + 7 \in 0..(WordMod - 1)
  BY HeapAssumption
<1>2. (n + 7) % WordMod = n + 7
  BY <1>1, RemainderLow
<1>3. align_up(n) = ((n + 7) \div 8) * 8
  <2>1. n + ALIGN - 1 = n + 7
    BY DEF ALIGN
  <2> QED BY <1>2, <2>1 DEF align_up, ALIGN
<1> DEFINE q == (n + 7) \div 8
<1>4. q \in Nat /\ n <= q * 8 /\ q * 8 <= n + 7
  OBVIOUS
<1> HIDE DEF q
<1>5. (q * 8) % 8 = 0
  BY <1>4
<1> QED BY <1>3, <1>4, <1>5 DEF Aligned, ALIGN, q

\* What kmalloc looks for is a multiple of ALIGN with room for the header, the
\* request and the canary.
LEMMA TotalSize ==
  ASSUME NoWrap, NEW size \in Sizes
  PROVE  /\ total_size(size) \in Nat /\ total_size(size) # 0 /\ Aligned(total_size(size))
         /\ wanted_with_canary(size) \in Nat
         /\ size <= wanted_with_canary(size) - CanarySize
         /\ HeaderSize + (wanted_with_canary(size) - CanarySize) + CanarySize <= total_size(size)
<1> DEFINE a == align_up(size)
           w == wanted_with_canary(size)
<1>1. size \in Nat /\ size + 36 <= WordMod /\ WordMod \in Nat \ {0}
  BY HeapAssumption DEF NoWrap, ALIGN, CanarySize, HeaderSize
<1>2. a \in Nat /\ size <= a /\ a <= size + 7
  BY <1>1, AlignUp
<1> HIDE DEF a
<1>3. a + 4 \in 0..(WordMod - 1) /\ (a + 4) + 8 <= WordMod
  BY <1>1, <1>2
<1>4. (a + 4) % WordMod = a + 4
  BY <1>1, <1>3, RemainderLow
<1>5. w = align_up(a + 4)
  BY <1>4 DEF wanted_with_canary, CanarySize, a
<1> HIDE DEF w
<1>6. w \in Nat /\ Aligned(w) /\ a + 4 <= w /\ w <= (a + 4) + 7
  BY <1>2, <1>3, <1>5, AlignUp
<1>7. w + 16 \in 0..(WordMod - 1)
  BY <1>1, <1>2, <1>6
<1>8. (w + 16) % WordMod = w + 16
  BY <1>1, <1>7, RemainderLow
<1>9. total_size(size) = w + 16
  BY <1>8 DEF total_size, HeaderSize, w
<1>10. Aligned(w + 16)
  BY <1>6 DEF Aligned, ALIGN
<1> QED BY <1>1, <1>2, <1>6, <1>9, <1>10 DEF CanarySize, HeaderSize, w

\* The heap grows by whole pages, even when the computation wraps.
LEMMA ExpandSize ==
  ASSUME NEW size, total_size(size) \in Nat
  PROVE  expand_size(size) \in Nat /\ Aligned(expand_size(size))
<1> DEFINE n == IF total_size(size) < MinExpand THEN MinExpand ELSE total_size(size)
           m == (n + PageSize - 1) % WordMod
           k == m \div PageSize
           q == PageSize \div 8
<1>1. /\ PageSize \in Nat \ {0} /\ PageSize % 8 = 0
      /\ WordMod \in Nat \ {0} /\ MinExpand \in Nat
  BY HeapAssumption DEF ALIGN
<1>2. n + PageSize - 1 \in Nat
  BY <1>1
<1>3. m \in Nat
  <2> HIDE DEF n
  <2> QED BY <1>1, <1>2
<1>4. k \in Nat
  <2> HIDE DEF m
  <2> QED BY <1>1, <1>3
<1>5. q \in Nat /\ PageSize = 8 * q
  BY <1>1
<1>6. expand_size(size) = k * PageSize
  BY DEF expand_size
<1> HIDE DEF k, q
<1> DEFINE y == k * q
<1>7. y \in Nat /\ k * PageSize = 8 * y
  BY <1>4, <1>5
<1> HIDE DEF y
<1>8. (8 * y) % 8 = 0 /\ 8 * y \in Nat
  BY <1>7
<1> QED BY <1>6, <1>7, <1>8 DEF Aligned, ALIGN

-----------------------------------------------------------------------------
(* The inductive invariant.                                                *)

\* No two callers grow the heap at once.  heap_expand reads heap_end_addr before
\* it takes the lock, so that two of them may add the same addresses.
Grows(c) == call[c].at \in {"expand", "insert"}
OneGrows == \A c, d \in Callers : Grows(c) /\ Grows(d) => c = d

InUseBlocks == {p.block : p \in live}

\* No two live blocks are the same, and each has room for its request.
LiveOK ==
  /\ \A p, q \in live : p.block = q.block => p = q
  /\ RoomForRequest

\* Until the heap has grown after a search that failed, no free block is empty
\* and heap_end_addr is what heap_expand has read.
CallRec == [at : {"idle", "enter", "search", "expand", "insert"},
            size : Nat, retry_count : 0..4, base : Nat]
CallOK ==
  /\ call \in [Callers -> CallRec]
  /\ \A c \in Callers :
       /\ call[c].at # "idle" => call[c].size \in Sizes
       /\ call[c].at \in {"search", "expand", "insert"} => call[c].retry_count <= 3
       /\ Grows(c) => Filled(Range(free_list))
       /\ call[c].at = "insert" => call[c].base = heap_end_addr

HeapInv ==
  /\ HeapOK(free_list, InUseBlocks, heap_end_addr)
  /\ LiveOK
  /\ CallOK

\* The fields of a caller's place in kmalloc.
LEMMA CallFields ==
  ASSUME NEW at \in {"idle", "enter", "search", "expand", "insert"}, NEW size \in Nat,
         NEW retry_count \in 0..4, NEW base \in Nat
  PROVE  /\ Call(at, size, retry_count, base) \in CallRec
         /\ Call(at, size, retry_count, base).at = at
         /\ Call(at, size, retry_count, base).size = size
         /\ Call(at, size, retry_count, base).retry_count = retry_count
         /\ Call(at, size, retry_count, base).base = base
  BY DEF Call, CallRec

\* Caller c goes on to v.  What the others have found out stays true.
LEMMA CallStep ==
  ASSUME CallOK, NEW c \in Callers, NEW v \in CallRec,
         call' = [call EXCEPT ![c] = v],
         v.at # "idle" => v.size \in Sizes,
         v.at \in {"search", "expand", "insert"} => v.retry_count <= 3,
         v.at \in {"expand", "insert"} => Filled(Range(free_list')),
         v.at = "insert" => v.base = heap_end_addr',
         \A d \in Callers \ {c} : Grows(d) => /\ Filled(Range(free_list'))
                                              /\ heap_end_addr' = heap_end_addr
  PROVE  CallOK'
<1>1. /\ call' \in [Callers -> CallRec] /\ call'[c] = v
      /\ \A d \in Callers \ {c} : call'[d] = call[d]
  BY DEF CallOK
<1>2. ASSUME NEW d \in Callers
      PROVE  /\ call'[d].at # "idle" => call'[d].size \in Sizes
             /\ call'[d].at \in {"search", "expand", "insert"} => call'[d].retry_count <= 3
             /\ call'[d].at \in {"expand", "insert"} => Filled(Range(free_list'))
             /\ call'[d].at = "insert" => call'[d].base = heap_end_addr'
  <2>1. CASE d = c
    BY <1>1, <2>1
  <2>2. CASE d # c
    BY <1>1, <2>2 DEF CallOK, Grows
  <2> QED BY <2>1, <2>2
<1> QED BY <1>1, <1>2 DEF CallOK, Grows

\* The sizes asked for are numbers.
LEMMA SizesNat == Sizes \subseteq Nat
  BY HeapAssumption

\* A caller that is idle again.
LEMMA ReturnStep ==
  ASSUME CallOK, NEW c \in Callers, Return(c),
         \A d \in Callers \ {c} : Grows(d) => /\ Filled(Range(free_list'))
                                              /\ heap_end_addr' = heap_end_addr
  PROVE  CallOK'
<1>1. Idle \in CallRec /\ Idle.at = "idle"
  BY CallFields DEF Idle
<1> QED BY <1>1, CallStep DEF Return

\* mem_init leaves one free block, the heap.
LEMMA HeapInvInit ==
  Init => HeapInv
<1> SUFFICES ASSUME Init PROVE HeapInv
  OBVIOUS
<1> DEFINE b == Block(HeapStart, HeapEnd - HeapStart)
<1>1. /\ HeapStart \in Nat /\ HeapEnd \in Nat /\ HeapEnd - HeapStart \in Nat
      /\ HeapEnd - HeapStart # 0 /\ HeapStart <= HeapEnd
      /\ Aligned(HeapStart) /\ Aligned(HeapEnd)
  BY HeapAssumption DEF HeaderSize, Aligned
<1>2. b \in BlockRec /\ b.addr = HeapStart /\ b.size # 0 /\ End(b) = HeapEnd
  <2>1. /\ b \in BlockRec /\ b.addr = HeapStart /\ b.size = HeapEnd - HeapStart
        /\ End(b) = HeapStart + (HeapEnd - HeapStart)
    BY <1>1, BlockFields
  <2> QED BY <1>1, <2>1
<1>3. free_list = <<b>> /\ heap_end_addr = HeapEnd /\ live = {} /\ InUseBlocks = {}
  BY DEF Init, InUseBlocks
<1> HIDE DEF b
<1>4. free_list \in Seq(BlockRec) /\ Len(free_list) = 1 /\ Range(free_list) = {b}
  <2>1. free_list \in Seq(BlockRec) /\ Len(free_list) = 1 /\ free_list[1] = b
    BY <1>2, <1>3
  <2> QED BY <2>1, RangeOf
<1>5. Spread(free_list)
  BY <1>4 DEF Spread
<1>6. InUse({}, HeapEnd) /\ Fit({b}, {}, HeapEnd)
  BY <1>1, <1>2 DEF InUse, Fit
<1>7. Covered({b} \union {}, HeapEnd)
  <2> SUFFICES ASSUME NEW a \in HeapStart..(HeapEnd - 1) PROVE Holds(b, a)
    BY DEF Covered
  <2> QED BY <1>1, <1>2 DEF Holds
<1>8. HeapOK(free_list, InUseBlocks, heap_end_addr)
  BY <1>1, <1>3, <1>4, <1>5, <1>6, <1>7 DEF HeapOK
<1>9. LiveOK
  BY <1>3 DEF LiveOK, RoomForRequest
<1>10. CallOK
  <2>1. Idle \in CallRec /\ Idle.at = "idle"
    BY CallFields DEF Idle
  <2>2. call = [c \in Callers |-> Idle]
    BY DEF Init
  <2> QED BY <2>1, <2>2 DEF CallOK, Grows
<1> QED BY <1>8, <1>9, <1>10 DEF HeapInv

\* kmalloc, the entry of its loop and what heap_expand reads leave the heap
\* alone.
LEMMA SameHeap ==
  ASSUME HeapInv, UNCHANGED <<free_list, heap_end_addr, live>>, CallOK'
  PROVE  HeapInv'
<1>1. HeapOK(free_list, InUseBlocks, heap_end_addr)'
  BY DEF HeapInv, InUseBlocks
<1>2. LiveOK'
  BY DEF HeapInv, LiveOK, RoomForRequest
<1> QED BY <1>1, <1>2 DEF HeapInv

\* As long as the heap does not change, what growing callers know stays true.
LEMMA SameKnown ==
  ASSUME CallOK, UNCHANGED <<free_list, heap_end_addr>>
  PROVE  \A d \in Callers : Grows(d) => /\ Filled(Range(free_list'))
                                        /\ heap_end_addr' = heap_end_addr
  BY DEF CallOK

\* The steps of kmalloc, heap_expand and kfree, one by one.
LEMMA HeapInvKmalloc ==
  ASSUME HeapInv, NEW c \in Callers, NEW size \in Sizes, kmalloc(c, size)
  PROVE  HeapInv'
<1> DEFINE v == Call("enter", size, 0, 0)
<1>1. v \in CallRec /\ v.at = "enter" /\ v.size = size
  BY CallFields, SizesNat
<1>2. call' = [call EXCEPT ![c] = v] /\ UNCHANGED <<free_list, heap_end_addr, live>>
  BY DEF kmalloc
<1> HIDE DEF v
<1>3. CallOK
  BY DEF HeapInv
<1>4. CallOK'
  BY <1>1, <1>2, <1>3, SameKnown, CallStep
<1> QED BY <1>2, <1>4, SameHeap

LEMMA HeapInvEnter ==
  ASSUME HeapInv, NEW c \in Callers, Enter(c)
  PROVE  HeapInv'
<1>1. CallOK
  BY DEF HeapInv
<1>2. /\ call[c].size \in Nat /\ call[c].size \in Sizes /\ call[c].retry_count \in 0..4
      /\ UNCHANGED <<free_list, heap_end_addr, live>>
  BY <1>1 DEF CallOK, CallRec, Enter
<1>3. CASE free_list = <<>> \/ call[c].retry_count > 3
  <2>1. Return(c)
    BY <1>3 DEF Enter
  <2> QED BY <1>1, <1>2, <2>1, SameKnown, ReturnStep, SameHeap
<1>4. CASE ~(free_list = <<>> \/ call[c].retry_count > 3)
  <2> DEFINE v == Call("search", call[c].size, call[c].retry_count, 0)
  <2>1. /\ v \in CallRec /\ v.at = "search" /\ v.size = call[c].size
        /\ v.retry_count = call[c].retry_count
    BY <1>2 DEF Call, CallRec
  <2>2. call' = [call EXCEPT ![c] = v]
    BY <1>4 DEF Enter, Goes
  <2>3. call[c].retry_count <= 3
    BY <1>2, <1>4
  <2> HIDE DEF v
  <2>4. CallOK'
    BY <1>1, <1>2, <2>1, <2>2, <2>3, SameKnown, CallStep
  <2> QED BY <1>2, <2>4, SameHeap
<1> QED BY <1>3, <1>4

LEMMA HeapInvExpandReads ==
  ASSUME HeapInv, NEW c \in Callers, ExpandReads(c)
  PROVE  HeapInv'
<1> DEFINE v == Call("insert", call[c].size, call[c].retry_count, heap_end_addr)
<1>1. CallOK /\ heap_end_addr \in Nat
  BY DEF HeapInv, HeapOK
<1>2. /\ call[c].size \in Nat /\ call[c].size \in Sizes
      /\ call[c].retry_count \in 0..4 /\ call[c].retry_count <= 3
      /\ Filled(Range(free_list))
      /\ UNCHANGED <<free_list, heap_end_addr, live>>
  BY <1>1 DEF CallOK, CallRec, ExpandReads, Grows
<1>3. /\ v \in CallRec /\ v.at = "insert" /\ v.size = call[c].size
      /\ v.retry_count = call[c].retry_count /\ v.base = heap_end_addr
  BY <1>1, <1>2 DEF Call, CallRec
<1>4. call' = [call EXCEPT ![c] = v]
  BY DEF ExpandReads, Goes
<1> HIDE DEF v
<1>5. CallOK'
  BY <1>1, <1>2, <1>3, <1>4, SameKnown, CallStep
<1> QED BY <1>2, <1>5, SameHeap

LEMMA HeapInvSearch ==
  ASSUME NoWrap, HeapInv, NEW c \in Callers, Search(c)
  PROVE  HeapInv'
<1> DEFINE size == call[c].size
           total == total_size(size)
           i == FirstFit(free_list, total)
<1>1. CallOK /\ LiveOK /\ HeapOK(free_list, InUseBlocks, heap_end_addr)
  BY DEF HeapInv
<1>2. /\ size \in Nat /\ size \in Sizes /\ call[c].retry_count \in 0..4
      /\ call[c].retry_count <= 3
  BY <1>1 DEF CallOK, CallRec, Search
<1>3. /\ total \in Nat /\ total # 0 /\ Aligned(total)
      /\ wanted_with_canary(size) \in Nat
      /\ size <= wanted_with_canary(size) - CanarySize
      /\ HeaderSize + (wanted_with_canary(size) - CanarySize) + CanarySize <= total
  BY <1>2, TotalSize
<1>4. free_list \in Seq(BlockRec) /\ InUse(InUseBlocks, heap_end_addr)
  BY <1>1 DEF HeapOK
<1>5. CASE i # 0
  <2> DEFINE b == Taken(free_list[i], total)
             canary == wanted_with_canary(size) - CanarySize
             p == [block |-> b, size |-> size, canary |-> canary]
  <2>1. /\ free_list' = WithoutFit(free_list, i, total) /\ live' = live \union {p}
        /\ Return(c) /\ heap_end_addr' = heap_end_addr
    BY <1>5 DEF Search
  <2>2. i \in 1..Len(free_list) /\ free_list[i].size # 0 /\ free_list[i].size >= total
    BY <1>3, <1>4, <1>5, FirstFitIs
  <2>3. /\ HeapOK(WithoutFit(free_list, i, total), InUseBlocks \union {b}, heap_end_addr)
        /\ Filled(Range(free_list)) => Filled(Range(WithoutFit(free_list, i, total)))
        /\ b.size >= total /\ \A d \in InUseBlocks : Apart(b, d)
    <3> HIDE DEF i, total
    <3> QED BY <1>1, <1>3, <2>2, AllocOK
  <2>4. b \in BlockRec /\ b.size # 0
    BY <2>3 DEF HeapOK, InUse
  <2>5. p.block = b /\ p.size = size /\ p.canary = canary
    OBVIOUS
  <2>6. InUseBlocks' = InUseBlocks \union {b}
    <3>1. InUseBlocks' = {q.block : q \in live'}
      BY DEF InUseBlocks
    <3> HIDE DEF p, b
    <3> QED BY <2>1, <2>5, <3>1 DEF InUseBlocks
  <2>7. HeapOK(free_list, InUseBlocks, heap_end_addr)'
    <3> HIDE DEF b, i, total
    <3> QED BY <2>1, <2>3, <2>6
  <2>8. b \notin InUseBlocks
    <3>1. b.addr \in Nat /\ b.size \in Nat /\ End(b) = b.addr + b.size
      BY <2>4, Fields
    <3>2. ~Apart(b, b)
      BY <2>4, <3>1 DEF Apart
    <3> QED BY <2>3, <3>2
  <2> HIDE DEF b
  <2>9. HeaderSize + p.canary + CanarySize <= b.size
    <3>1. b.size \in Nat /\ HeaderSize + canary + CanarySize <= total
      BY <1>3, <2>4, Fields
    <3>2. canary \in Int
      BY <1>3 DEF CanarySize
    <3> HIDE DEF canary, total
    <3> QED BY <1>3, <2>3, <2>5, <3>1, <3>2 DEF HeaderSize, CanarySize
  <2> HIDE DEF p
  <2>10. LiveOK'
    <3>1. ASSUME NEW q \in live', NEW r \in live', q.block = r.block PROVE q = r
      <4>1. \A x \in live : x.block \in InUseBlocks
        BY DEF InUseBlocks
      <4> QED BY <1>1, <2>1, <2>5, <2>8, <3>1, <4>1 DEF LiveOK
    <3>2. RoomForRequest'
      BY <1>1, <1>3, <2>1, <2>5, <2>9 DEF LiveOK, RoomForRequest
    <3> QED BY <3>1, <3>2 DEF LiveOK
  <2>11. CallOK'
    <3>1. ASSUME NEW d \in Callers, Grows(d) PROVE Filled(Range(free_list'))
      <4>1. Filled(Range(free_list))
        BY <1>1, <3>1 DEF CallOK
      <4> HIDE DEF i, total
      <4> QED BY <2>1, <2>3, <4>1
    <3> QED BY <1>1, <2>1, <3>1, ReturnStep
  <2> QED BY <2>7, <2>10, <2>11 DEF HeapInv
<1>6. CASE i = 0
  <2> DEFINE v == Call("expand", call[c].size, call[c].retry_count, 0)
  <2>1. /\ free_list' = NonEmpty(free_list) /\ call' = [call EXCEPT ![c] = v]
        /\ live' = live /\ heap_end_addr' = heap_end_addr
    BY <1>6 DEF Search, Goes
  <2>2. /\ v \in CallRec /\ v.at = "expand" /\ v.size = call[c].size
        /\ v.retry_count = call[c].retry_count
    BY <1>2 DEF Call, CallRec
  <2> HIDE DEF v
  <2>3. /\ HeapOK(NonEmpty(free_list), InUseBlocks, heap_end_addr)
        /\ Filled(Range(NonEmpty(free_list)))
    BY <1>1, DropOK
  <2>4. CallOK'
    BY <1>1, <1>2, <2>1, <2>2, <2>3, CallStep
  <2>5. InUseBlocks' = InUseBlocks /\ LiveOK'
    BY <1>1, <2>1 DEF InUseBlocks, LiveOK, RoomForRequest
  <2>6. HeapOK(free_list, InUseBlocks, heap_end_addr)'
    BY <2>1, <2>3, <2>5
  <2> QED BY <2>4, <2>5, <2>6 DEF HeapInv
<1> QED BY <1>5, <1>6

LEMMA HeapInvExpandInserts ==
  ASSUME NoWrap, OneGrows, HeapInv, NEW c \in Callers, ExpandInserts(c)
  PROVE  HeapInv'
<1> DEFINE n == expand_size(call[c].size)
           v == Call("enter", call[c].size, call[c].retry_count + 1, 0)
<1>1. CallOK /\ LiveOK /\ HeapOK(free_list, InUseBlocks, heap_end_addr)
  BY DEF HeapInv
<1>2. /\ call[c].size \in Nat /\ call[c].size \in Sizes /\ call[c].retry_count \in 0..4
      /\ call[c].retry_count <= 3 /\ call[c].base = heap_end_addr
      /\ Filled(Range(free_list)) /\ Grows(c)
  BY <1>1 DEF CallOK, CallRec, ExpandInserts, Grows
<1>3. n \in Nat /\ Aligned(n)
  BY <1>2, TotalSize, ExpandSize
<1>4. /\ free_list' = Extended(free_list, Block(heap_end_addr, n))
      /\ heap_end_addr' = heap_end_addr + n /\ live' = live
      /\ call' = [call EXCEPT ![c] = v]
  BY <1>2 DEF ExpandInserts, Goes
<1>5. /\ v \in CallRec /\ v.at = "enter" /\ v.size = call[c].size
  <2>1. call[c].retry_count + 1 \in 0..4
    BY <1>2
  <2> QED BY <1>2, <2>1 DEF Call, CallRec
<1> HIDE DEF n, v
<1>6. HeapOK(Extended(free_list, Block(heap_end_addr, n)), InUseBlocks, heap_end_addr + n)
  BY <1>1, <1>2, <1>3, GrowOK
<1>7. InUseBlocks' = InUseBlocks /\ LiveOK'
  BY <1>1, <1>4 DEF InUseBlocks, LiveOK, RoomForRequest
<1>8. HeapOK(free_list, InUseBlocks, heap_end_addr)'
  BY <1>4, <1>6, <1>7
<1>9. CallOK'
  <2>1. \A d \in Callers \ {c} : ~Grows(d)
    BY <1>2 DEF OneGrows
  <2> QED BY <1>1, <1>2, <1>4, <1>5, <2>1, CallStep
<1> QED BY <1>7, <1>8, <1>9 DEF HeapInv

LEMMA HeapInvKfree ==
  ASSUME HeapInv, NEW c \in Callers, NEW p \in live, kfree(c, p)
  PROVE  HeapInv'
<1> DEFINE b == p.block
<1>1. CallOK /\ LiveOK /\ HeapOK(free_list, InUseBlocks, heap_end_addr)
  BY DEF HeapInv
<1>2. /\ free_list' = Coalesced(Inserted(free_list, b)) /\ live' = live \ {p}
      /\ heap_end_addr' = heap_end_addr /\ call' = call /\ call[c] = Idle
  BY DEF kfree
<1>3. b \in InUseBlocks
  BY DEF InUseBlocks
<1>4. /\ HeapOK(Coalesced(Inserted(free_list, b)), InUseBlocks \ {b}, heap_end_addr)
      /\ Filled(Range(free_list)) => Filled(Range(Coalesced(Inserted(free_list, b))))
  <2> HIDE DEF b
  <2> QED BY <1>1, <1>3, KfreeOK
<1>5. InUseBlocks' = InUseBlocks \ {b}
  <2>1. InUseBlocks' = {q.block : q \in live \ {p}}
    BY <1>2 DEF InUseBlocks
  <2>2. \A q \in live : q.block = b => q = p
    BY <1>1 DEF LiveOK
  <2> QED BY <2>1, <2>2 DEF InUseBlocks
<1>6. HeapOK(free_list, InUseBlocks, heap_end_addr)'
  <2> HIDE DEF b
  <2> QED BY <1>2, <1>4, <1>5
<1>7. LiveOK'
  BY <1>1, <1>2 DEF LiveOK, RoomForRequest
<1>8. CallOK'
  <2>1. Filled(Range(free_list)) => Filled(Range(free_list'))
    <3> HIDE DEF b
    <3> QED BY <1>2, <1>4
  <2> QED BY <1>1, <1>2, <2>1 DEF CallOK, Grows
<1> QED BY <1>6, <1>7, <1>8 DEF HeapInv

\* Every step keeps the invariant.
LEMMA HeapInvNext ==
  ASSUME NoWrap, OneGrows, HeapInv, [Next]_vars
  PROVE  HeapInv'
<1>1. ASSUME NEW c \in Callers, NEW size \in Sizes, kmalloc(c, size) PROVE HeapInv'
  BY <1>1, HeapInvKmalloc
<1>2. ASSUME NEW c \in Callers, Step(c) PROVE HeapInv'
  BY <1>2, HeapInvEnter, HeapInvSearch, HeapInvExpandReads, HeapInvExpandInserts DEF Step
<1>3. ASSUME NEW c \in Callers, NEW p \in live, kfree(c, p) PROVE HeapInv'
  BY <1>3, HeapInvKfree
<1>4. CASE UNCHANGED vars
  BY <1>4 DEF vars, HeapInv, InUseBlocks, LiveOK, RoomForRequest, CallOK, Grows
<1> QED BY <1>1, <1>2, <1>3, <1>4 DEF Next

\* The invariant holds as long as no two callers grow the heap at once.
LEMMA HeapInvariant ==
  ASSUME NoWrap
  PROVE  Spec /\ []OneGrows => []HeapInv
<1>1. HeapInv /\ OneGrows /\ [Next]_vars => HeapInv'
  BY HeapInvNext
<1> QED BY <1>1, HeapInvInit, PTL DEF Spec

-----------------------------------------------------------------------------
(* What follows from it.                                                   *)

\* What the invariant says of the blocks is Tiling ...
LEMMA InvTiles ==
  HeapInv => Tiling
<1> SUFFICES ASSUME HeapInv PROVE Tiling
  OBVIOUS
<1> DEFINE n == Len(free_list)
           L == InUseBlocks
<1>1. HeapOK(free_list, L, heap_end_addr) /\ CallOK
  BY DEF HeapInv
<1>2. /\ n \in Nat /\ DOMAIN free_list = 1..n /\ heap_end_addr \in Nat
      /\ Range(free_list) = {free_list[i] : i \in 1..n}
      /\ \A i \in 1..n : free_list[i] \in BlockRec
  BY <1>1, RangeOf DEF HeapOK
<1>3. Blocks = Range(free_list) \union L
  BY DEF Blocks, InUseBlocks
<1>4. ASSUME NEW b \in Blocks
      PROVE  /\ b \in BlockRec /\ Aligned(b.addr) /\ HeapStart <= b.addr
             /\ End(b) <= heap_end_addr
             /\ b.addr \in Nat /\ b.size \in Nat /\ End(b) = b.addr + b.size
  <2>1. b \in BlockRec /\ Aligned(b.addr) /\ HeapStart <= b.addr /\ End(b) <= heap_end_addr
    BY <1>1, <1>3 DEF HeapOK, Fit, InUse
  <2> QED BY <2>1, Fields
<1>5. TypeOK
  <2>1. \A b \in Blocks : b.addr \in Nat /\ b.size \in Nat /\ b.addr % ALIGN = 0
    BY <1>4 DEF Aligned
  <2>2. \A c \in Callers : call[c].retry_count \in 0..4
    BY <1>1 DEF CallOK, CallRec
  <2> QED BY <1>2, <2>1, <2>2 DEF TypeOK
<1>6. ASSUME NEW i \in 1..n, NEW j \in 1..n, i # j
      PROVE  Apart(free_list[i], free_list[j]) /\ free_list[i] # free_list[j]
  <2>1. /\ free_list[i].addr \in Nat /\ End(free_list[i]) \in Nat
        /\ free_list[j].addr \in Nat /\ End(free_list[j]) \in Nat
        /\ free_list[i].addr <= End(free_list[i]) /\ free_list[j].addr <= End(free_list[j])
    BY <1>2, <1>3, <1>4
  <2>2. End(free_list[i]) < free_list[j].addr \/ End(free_list[j]) < free_list[i].addr
    <3>1. i < j => End(free_list[i]) < free_list[j].addr
      BY <1>1 DEF HeapOK, Spread
    <3>2. j < i => End(free_list[j]) < free_list[i].addr
      BY <1>1 DEF HeapOK, Spread
    <3>3. i < j \/ j < i
      BY <1>2, <1>6
    <3> QED BY <3>1, <3>2, <3>3
  <2> QED BY <2>1, <2>2 DEF Apart
<1>7. IsInjective(free_list)
  BY <1>2, <1>6 DEF IsInjective
<1>8. \A x \in Range(free_list), d \in L : Apart(x, d) /\ Apart(d, x) /\ x # d
  <2> SUFFICES ASSUME NEW x \in Range(free_list), NEW d \in L
               PROVE  Apart(x, d) /\ Apart(d, x) /\ x # d
    OBVIOUS
  <2>1. Apart(x, d) /\ d.size # 0
    BY <1>1 DEF HeapOK, Fit, InUse
  <2>2. d.addr \in Nat /\ d.size \in Nat /\ End(d) = d.addr + d.size
    BY <1>3, <1>4
  <2> QED BY <2>1, <2>2 DEF Apart
<1>9. \A d, e \in L : d # e => Apart(d, e)
  BY <1>1 DEF HeapOK, InUse
<1> HIDE DEF n, L
<1>10. \A b, d \in Blocks : b # d => End(b) <= d.addr \/ End(d) <= b.addr
  <2> SUFFICES ASSUME NEW b \in Blocks, NEW d \in Blocks, b # d PROVE Apart(b, d)
    BY DEF Apart
  <2>1. CASE b \in Range(free_list) /\ d \in Range(free_list)
    <3>1. PICK i \in 1..n : b = free_list[i]
      BY <1>2, <2>1
    <3>2. PICK j \in 1..n : d = free_list[j]
      BY <1>2, <2>1
    <3> QED BY <1>6, <3>1, <3>2
  <2> QED BY <1>3, <1>8, <1>9, <2>1
<1>11. Range(free_list) \intersect {p.block : p \in live} = {}
  BY <1>8 DEF L, InUseBlocks
<1>12. \A a \in HeapStart..(heap_end_addr - 1) : \E b \in Blocks : b.addr <= a /\ a < End(b)
  BY <1>1, <1>3 DEF HeapOK, Covered, Holds
<1> QED BY <1>4, <1>5, <1>7, <1>10, <1>11, <1>12 DEF Tiling

\* ... and Merged.
LEMMA InvMerged ==
  HeapInv => Merged
<1> SUFFICES ASSUME HeapInv, NEW i \in 1..(Len(free_list) - 1)
             PROVE  End(free_list[i]) < free_list[i + 1].addr
  BY DEF Merged
<1>1. free_list \in Seq(BlockRec) /\ Spread(free_list)
  BY DEF HeapInv, HeapOK
<1>2. i \in 1..Len(free_list) /\ i + 1 \in 1..Len(free_list) /\ i < i + 1
  BY <1>1
<1> QED BY <1>1, <1>2 DEF Spread

\* The blocks that kmalloc splits and heap_expand and kfree merge always tile
\* the heap, as long as no two callers grow it at once.
THEOREM HeapTiles ==
  ASSUME NoWrap
  PROVE  Spec /\ []OneGrows => []Tiling
  BY HeapInvariant, InvTiles, PTL

\* kfree and heap_expand leave no two free neighbours that touch.
THEOREM FreeNeighboursMerged ==
  ASSUME NoWrap
  PROVE  Spec /\ []OneGrows => []Merged
  BY HeapInvariant, InvMerged, PTL

\* A block that kmalloc returns has room for the request and the canary.
THEOREM RequestsFit ==
  ASSUME NoWrap
  PROVE  Spec /\ []OneGrows => []RoomForRequest
<1>1. HeapInv => RoomForRequest
  BY DEF HeapInv, LiveOK
<1> QED BY <1>1, HeapInvariant, PTL

\* A single caller never grows the heap twice at once: all of it holds.
THEOREM OneCallerIsSafe ==
  ASSUME NoWrap, \A c, d \in Callers : c = d
  PROVE  Spec => [](Tiling /\ Merged /\ RoomForRequest)
<1>1. OneGrows
  BY DEF OneGrows
<1> QED BY <1>1, HeapTiles, FreeNeighboursMerged, RequestsFit, PTL
=============================================================================
