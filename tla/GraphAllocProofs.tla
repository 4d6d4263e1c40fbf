---------------------------- MODULE GraphAllocProofs ----------------------------
(***************************************************************************)
(* What the graph allocator guarantees for every graph: MemorySound and    *)
(* SrcsIntact.                                                             *)
(*                                                                         *)
(* The inductive invariant says where the allocated tensors are            *)
(* (DataSound), that memory is free, live, or shared (LiveSound), what the *)
(* counts count (CountSound), which memory is still needed (KeepSound),    *)
(* and that what is needed is not overwritten (Intact).  A round of        *)
(* ggml_tallocr_alloc_graph_impl breaks it and repairs it: while the       *)
(* parents of a node are counted, the parent in whose memory the node      *)
(* works has a reader and no memory of its own (Reusing).                  *)
(*                                                                         *)
(* The recursive functions of the model are treated as follows: a lemma    *)
(* gives them as a CHOOSE, another one shows that what is chosen exists.   *)
(***************************************************************************)
EXTENDS GraphAlloc, FiniteSetTheorems, SequenceTheorems, InductionLemmas

-------------------------------------------------------------------------------
(* Sizes and alignment *)

(* A number is a multiple of A and a remainder. *)
LEMMA Multiple ==
    ASSUME NEW A \in Nat \ {0}, NEW n \in Nat
    PROVE  n % A \in 0 .. A - 1 /\ \E k \in Nat : n = A * k + (n % A)
<1>1. n = A * (n \div A) + (n % A) /\ n \div A \in Nat
  OBVIOUS
<1>2. n % A \in 0 .. A - 1
  OBVIOUS
<1> QED BY <1>1, <1>2

(* Two multiples of A that are less than A apart are in order. *)
LEMMA MultipleOf ==
    ASSUME NEW A \in Nat \ {0}, NEW x \in Nat, NEW y \in Nat, A * x < A * y + A
    PROVE  A * x <= A * y
<1>1. CASE x <= y
  BY <1>1
<1>2. CASE x >= y + 1
  BY <1>2
<1> QED BY <1>1, <1>2

(* aligned_offset, for a buffer at address 0, rounds up to the next        *)
(* multiple of the alignment.                                              *)
LEMMA Rounding ==
    ASSUME NEW n \in Nat
    PROVE  /\ AlignedOffset(0, n) \in Nat
           /\ n <= AlignedOffset(0, n) /\ AlignedOffset(0, n) < n + Align
           /\ \E k \in Nat : AlignedOffset(0, n) = Align * k
<1> DEFINE r == n % Align
<1>1. Align \in Nat \ {0}
  BY AlignAssumption
<1>2. r \in 0 .. Align - 1 /\ \E k \in Nat : n = Align * k + r
  BY <1>1, Multiple
<1>3. AlignedOffset(0, n) = n + ((Align - r) % Align)
  BY DEF AlignedOffset
<1> HIDE DEF r
<1>4. CASE r = 0
  <2>1. (Align - r) % Align = 0
    BY <1>1, <1>4
  <2>2. AlignedOffset(0, n) = n
    BY <1>3, <2>1
  <2>3. n < n + Align /\ n + r = n
    BY <1>1, <1>4
  <2>4. \E k \in Nat : n = Align * k
    BY <1>1, <1>2, <1>4
  <2> QED BY <2>2, <2>3, <2>4
<1>5. CASE r # 0
  <2>1. (Align - r) % Align = Align - r
    BY <1>1, <1>2, <1>5
  <2>2. PICK k \in Nat : n = Align * k + r
    BY <1>2
  <2>3. AlignedOffset(0, n) = Align * k + Align
    BY <1>1, <1>2, <1>3, <2>1, <2>2
  <2>4. Align * k + Align = Align * (k + 1)
    BY <1>1
  <2>5. AlignedOffset(0, n) = n + (Align - r)
    BY <1>3, <2>1
  <2>6. n + (Align - r) \in Nat /\ n <= n + (Align - r) /\ n + (Align - r) < n + Align
    BY <1>1, <1>2, <1>5
  <2>7. k + 1 \in Nat
    OBVIOUS
  <2> QED BY <2>3, <2>4, <2>5, <2>6, <2>7
<1> QED BY <1>2, <1>4, <1>5

(* What is inside a tensor, at a multiple of the alignment, still is when  *)
(* both sizes are rounded up.                                              *)
LEMMA RoundedInside ==
    ASSUME NEW n \in Nat, NEW m \in Nat, NEW offs \in Nat, offs % Align = 0, offs + n <= m
    PROVE  offs + AlignedOffset(0, n) <= AlignedOffset(0, m)
<1>1. Align \in Nat \ {0}
  BY AlignAssumption
<1>2. PICK x \in Nat : AlignedOffset(0, n) = Align * x
  BY Rounding
<1>3. PICK y \in Nat : AlignedOffset(0, m) = Align * y
  BY Rounding
<1>4. PICK z \in Nat : offs = Align * z + (offs % Align)
  BY <1>1, Multiple
<1>5. offs + AlignedOffset(0, n) = Align * (z + x)
  <2>1. offs = Align * z
    BY <1>1, <1>4
  <2>2. Align * z + Align * x = Align * (z + x)
    BY <1>1
  <2> QED BY <1>2, <2>1, <2>2
<1>6. Align * (z + x) < Align * y + Align
  <2>1. AlignedOffset(0, n) < n + Align /\ m <= AlignedOffset(0, m)
    BY Rounding
  <2>2. Align * x < n + Align /\ m <= Align * y /\ Align * x \in Nat /\ Align * y \in Nat
    BY <1>1, <1>2, <1>3, <2>1
  <2>3. offs + Align * x < Align * y + Align
    BY <1>1, <2>2
  <2> QED BY <1>2, <1>5, <2>3
<1>7. z + x \in Nat
  OBVIOUS
<1> QED BY <1>1, <1>3, <1>5, <1>6, <1>7, MultipleOf

(* The aligned size of a tensor, and of a view with that of what it views. *)
LEMMA Sizes ==
    ASSUME NEW g, WellFormed(g), NEW t \in DOMAIN g
    PROVE  /\ AllocSize(g, t) \in Nat \ {0}
           /\ g[t].view_src # NoTensor =>
                g[t].offs + AllocSize(g, t) <= AllocSize(g, g[t].view_src)
<1>1. NBytes(g[t].shape) \in Nat \ {0}
  BY DEF WellFormed
<1>2. AllocSize(g, t) \in Nat \ {0}
  BY <1>1, Rounding DEF AllocSize
<1>3. ASSUME g[t].view_src # NoTensor
      PROVE  g[t].offs + AllocSize(g, t) <= AllocSize(g, g[t].view_src)
  <2> DEFINE root == g[t].view_src
  <2>1. g[t].kind = "view"
    BY <1>3 DEF WellFormed
  <2>2. /\ root \in 1 .. t - 1
        /\ g[t].offs \in Nat /\ g[t].offs % Align = 0
        /\ g[t].offs + NBytes(g[t].shape) <= NBytes(g[root].shape)
    BY <2>1 DEF WellFormed
  <2>3. DOMAIN g = 1 .. Len(g) /\ Len(g) \in Nat
    BY DEF WellFormed
  <2>4. root \in DOMAIN g
    BY <2>2, <2>3
  <2>5. NBytes(g[root].shape) \in Nat
    BY <2>4 DEF WellFormed
  <2> QED BY <1>1, <2>2, <2>5, RoundedInside DEF AllocSize
<1> QED BY <1>2, <1>3

-------------------------------------------------------------------------------
(* Sequences *)

(* An element is taken out of a sequence: those behind it move up. *)
LEMMA RemoveAtFacts ==
    ASSUME NEW S, NEW s \in Seq(S), NEW i \in 1 .. Len(s)
    PROVE  /\ RemoveAt(s, i) \in Seq(S) /\ Len(RemoveAt(s, i)) = Len(s) - 1
           /\ \A j \in 1 .. Len(s) - 1 : RemoveAt(s, i)[j] = IF j < i THEN s[j] ELSE s[j + 1]
<1> DEFINE l == SubSeq(s, 1, i - 1)
           r == SubSeq(s, i + 1, Len(s))
<1>1. Len(s) \in Nat /\ \A j \in 1 .. Len(s) : s[j] \in S
  OBVIOUS
<1>2. l \in Seq(S) /\ Len(l) = i - 1 /\ \A j \in 1 .. i - 1 : l[j] = s[j]
  <2>1. \A j \in 1 .. i - 1 : s[j] \in S
    BY <1>1
  <2>2. 1 \in Int /\ i - 1 \in Int
    OBVIOUS
  <2>3. /\ l \in Seq(S)
        /\ Len(l) = IF 1 <= i - 1 THEN i - 1 - 1 + 1 ELSE 0
        /\ \A j \in 1 .. i - 1 - 1 + 1 : l[j] = s[1 + j - 1]
    BY <2>1, <2>2, SubSeqProperties
  <2> HIDE DEF l
  <2> QED BY <2>3
<1>3. r \in Seq(S) /\ Len(r) = Len(s) - i /\ \A j \in 1 .. Len(s) - i : r[j] = s[i + j]
  <2>1. \A j \in i + 1 .. Len(s) : s[j] \in S
    BY <1>1
  <2>2. i + 1 \in Int /\ Len(s) \in Int
    BY <1>1
  <2>3. /\ r \in Seq(S)
        /\ Len(r) = IF i + 1 <= Len(s) THEN Len(s) - (i + 1) + 1 ELSE 0
        /\ \A j \in 1 .. Len(s) - (i + 1) + 1 : r[j] = s[i + 1 + j - 1]
    BY <2>1, <2>2, SubSeqProperties
  <2> HIDE DEF r
  <2> QED BY <1>1, <2>3
<1>4. RemoveAt(s, i) = l \o r
  BY DEF RemoveAt
<1> HIDE DEF l, r
<1>5. /\ l \o r \in Seq(S) /\ Len(l \o r) = Len(l) + Len(r)
      /\ \A j \in 1 .. Len(l) + Len(r) : (l \o r)[j] = IF j <= Len(l) THEN l[j] ELSE r[j - Len(l)]
  BY <1>2, <1>3, ConcatProperties
<1>6. ASSUME NEW j \in 1 .. Len(s) - 1
      PROVE  (l \o r)[j] = IF j < i THEN s[j] ELSE s[j + 1]
  <2>1. (l \o r)[j] = IF j <= i - 1 THEN l[j] ELSE r[j - (i - 1)]
    BY <1>1, <1>2, <1>3, <1>5
  <2>2. CASE j < i
    BY <1>2, <2>1, <2>2
  <2>3. CASE j >= i
    <3>1. r[j - (i - 1)] = s[i + (j - (i - 1))]
      BY <1>1, <1>3, <2>3
    <3> QED BY <1>1, <2>1, <2>3, <3>1
  <2>4. i \in Int /\ j \in Int
    BY <1>1
  <2>5. j < i \/ j >= i
    BY <2>4
  <2>6. j <= i \/ j > i
    BY <2>4
  <2> QED BY <2>2, <2>3, <2>5, <2>6
<1> QED BY <1>1, <1>2, <1>3, <1>4, <1>5, <1>6

(* An element is put into a sequence: those behind it make room. *)
LEMMA InsertAtFacts ==
    ASSUME NEW S, NEW s \in Seq(S), NEW e \in S, NEW i \in 1 .. Len(s) + 1
    PROVE  /\ InsertAt(s, i, e) \in Seq(S) /\ Len(InsertAt(s, i, e)) = Len(s) + 1
           /\ \A j \in 1 .. Len(s) + 1 :
                InsertAt(s, i, e)[j] = IF j < i THEN s[j] ELSE IF j = i THEN e ELSE s[j - 1]
<1> DEFINE l == SubSeq(s, 1, i - 1)
           r == SubSeq(s, i, Len(s))
<1>1. Len(s) \in Nat /\ \A j \in 1 .. Len(s) : s[j] \in S
  OBVIOUS
<1>2. l \in Seq(S) /\ Len(l) = i - 1 /\ \A j \in 1 .. i - 1 : l[j] = s[j]
  <2>1. \A j \in 1 .. i - 1 : s[j] \in S
    BY <1>1
  <2>2. 1 \in Int /\ i - 1 \in Int
    OBVIOUS
  <2>3. /\ l \in Seq(S)
        /\ Len(l) = IF 1 <= i - 1 THEN i - 1 - 1 + 1 ELSE 0
        /\ \A j \in 1 .. i - 1 - 1 + 1 : l[j] = s[1 + j - 1]
    BY <2>1, <2>2, SubSeqProperties
  <2> HIDE DEF l
  <2> QED BY <2>3
<1>3. r \in Seq(S) /\ Len(r) = Len(s) - i + 1 /\ \A j \in 1 .. Len(s) - i + 1 : r[j] = s[i + j - 1]
  <2>1. \A j \in i .. Len(s) : s[j] \in S
    BY <1>1
  <2>2. i \in Int /\ Len(s) \in Int
    BY <1>1
  <2>3. /\ r \in Seq(S)
        /\ Len(r) = IF i <= Len(s) THEN Len(s) - i + 1 ELSE 0
        /\ \A j \in 1 .. Len(s) - i + 1 : r[j] = s[i + j - 1]
    BY <2>1, <2>2, SubSeqProperties
  <2> HIDE DEF r
  <2> QED BY <1>1, <2>3
<1>4. InsertAt(s, i, e) = (l \o <<e>>) \o r
  BY DEF InsertAt
<1> HIDE DEF l, r
<1> DEFINE m == l \o <<e>>
<1>5. m \in Seq(S) /\ Len(m) = i /\ \A j \in 1 .. i : m[j] = IF j < i THEN s[j] ELSE e
  <2>1. <<e>> \in Seq(S) /\ Len(<<e>>) = 1 /\ <<e>>[1] = e
    OBVIOUS
  <2>2. /\ m \in Seq(S) /\ Len(m) = Len(l) + 1
        /\ \A j \in 1 .. Len(l) + 1 : m[j] = IF j <= Len(l) THEN l[j] ELSE <<e>>[j - Len(l)]
    BY <1>2, <2>1, ConcatProperties
  <2> QED BY <1>2, <2>1, <2>2
<1> HIDE DEF m
<1>6. /\ m \o r \in Seq(S) /\ Len(m \o r) = Len(m) + Len(r)
      /\ \A j \in 1 .. Len(m) + Len(r) : (m \o r)[j] = IF j <= Len(m) THEN m[j] ELSE r[j - Len(m)]
  BY <1>3, <1>5, ConcatProperties
<1>7. ASSUME NEW j \in 1 .. Len(s) + 1
      PROVE  (m \o r)[j] = IF j < i THEN s[j] ELSE IF j = i THEN e ELSE s[j - 1]
  <2>1. (m \o r)[j] = IF j <= i THEN m[j] ELSE r[j - i]
    BY <1>1, <1>3, <1>5, <1>6
  <2>2. CASE j <= i
    BY <1>5, <2>1, <2>2
  <2>3. CASE j > i
    <3>1. r[j - i] = s[i + (j - i) - 1]
      BY <1>1, <1>3, <2>3
    <3> QED BY <1>1, <2>1, <2>3, <3>1
  <2>4. i \in Int /\ j \in Int
    BY <1>1
  <2>5. j < i \/ j >= i
    BY <2>4
  <2>6. j <= i \/ j > i
    BY <2>4
  <2> QED BY <2>2, <2>3, <2>5, <2>6
<1>8. InsertAt(s, i, e) = m \o r
  BY <1>4 DEF m
<1> QED BY <1>1, <1>3, <1>5, <1>6, <1>7, <1>8

-------------------------------------------------------------------------------
(* The table of free blocks *)

(* Free blocks, and a table of them as ggml_tallocr_alloc and              *)
(* ggml_tallocr_free_tensor keep it: in order, and no two of them touch.   *)
Blocks == [addr : Nat, size : Nat \ {0}]
Table(blocks) ==
    /\ blocks \in Seq(Blocks)
    /\ \A i, j \in DOMAIN blocks : i < j => End(blocks[i]) < blocks[j].addr
(* What the table stands for: the addresses that are free. The proofs      *)
(* compare tables by it.                                                   *)
In(block, x) == block.addr <= x /\ x < End(block)
InFree(blocks, x) == \E i \in DOMAIN blocks : In(blocks[i], x)

(* A set of numbers has a least one. *)
LEMMA MinOf ==
    ASSUME NEW S \in SUBSET Nat, S # {}
    PROVE  Min(S) \in S /\ \A y \in S : Min(S) <= y
BY LeastElement DEF Min

(* The block that ggml_tallocr_alloc chooses is large enough. *)
LEMMA BestFitFacts ==
    ASSUME NEW blocks \in Seq(Blocks), NEW n \in Nat, BestFit(blocks, n) # 0
    PROVE  BestFit(blocks, n) \in 1 .. Len(blocks) /\ blocks[BestFit(blocks, n)].size >= n
<1> DEFINE fits == {i \in 1 .. Len(blocks) - 1 : blocks[i].size >= n}
           best == {i \in fits : \A j \in fits : blocks[i].size <= blocks[j].size}
<1>1. Len(blocks) \in Nat /\ \A i \in 1 .. Len(blocks) : blocks[i] \in Blocks
  OBVIOUS
<1>2. BestFit(blocks, n) =
        IF fits # {} THEN Max(best)
        ELSE IF blocks # <<>> /\ Last(blocks).size >= n THEN Len(blocks) ELSE 0
  BY DEF BestFit
<1>3. CASE fits # {}
  <2> DEFINE sizes == {blocks[i].size : i \in fits}
  <2>1. sizes \in SUBSET Nat /\ sizes # {}
    <3>1. \A i \in fits : i \in 1 .. Len(blocks) /\ blocks[i].size \in Nat
      BY <1>1 DEF Blocks
    <3> HIDE DEF fits
    <3> QED BY <1>3, <3>1
  <2> HIDE DEF sizes
  <2>2. PICK m \in sizes : \A y \in sizes : m <= y
    BY <2>1, LeastElement
  <2>3. PICK i \in fits : m = blocks[i].size
    BY <2>2 DEF sizes
  <2>4. \A j \in fits : blocks[j].size \in sizes
    BY DEF sizes
  <2>5. i \in best
    BY <2>2, <2>3, <2>4
  <2>6. best \in SUBSET (0 .. Len(blocks)) /\ best # {}
    BY <1>1, <2>5
  <2>7. \E x \in best : \A y \in best : x >= y
    <3> HIDE DEF best
    <3> QED BY <1>1, <2>6, GreatestElement
  <2>8. Max(best) \in best
    <3> HIDE DEF best
    <3> QED BY <2>7 DEF Max
  <2> QED BY <1>1, <1>2, <1>3, <2>8
<1>4. CASE fits = {}
  <2>1. blocks # <<>> /\ Last(blocks).size >= n /\ BestFit(blocks, n) = Len(blocks)
    BY <1>2, <1>4
  <2>2. Len(blocks) \in 1 .. Len(blocks)
    BY <1>1, <2>1
  <2> QED BY <2>1, <2>2 DEF Last
<1> QED BY <1>3, <1>4

(* The table after ggml_tallocr_alloc took n units of block i. *)
Taken(blocks, i, n) ==
    LET rest == Block(blocks[i].addr + n, blocks[i].size - n)
    IN  IF rest.size = 0 THEN RemoveAt(blocks, i) ELSE [blocks EXCEPT ![i] = rest]

(* ggml_tallocr_alloc takes the first n addresses of the block out of the  *)
(* table and no others.                                                    *)
LEMMA TakenFacts ==
    ASSUME NEW blocks, Table(blocks), NEW i \in 1 .. Len(blocks), NEW n \in Nat \ {0},
           blocks[i].size >= n
    PROVE  /\ Table(Taken(blocks, i, n))
           /\ \A x \in Nat : InFree(Taken(blocks, i, n), x)
                <=> InFree(blocks, x) /\ ~(blocks[i].addr <= x /\ x < blocks[i].addr + n)
           /\ \A x \in Nat : blocks[i].addr <= x /\ x < blocks[i].addr + n => InFree(blocks, x)
<1> DEFINE rest == Block(blocks[i].addr + n, blocks[i].size - n)
           new == Taken(blocks, i, n)
<1>1. /\ blocks \in Seq(Blocks) /\ Len(blocks) \in Nat /\ DOMAIN blocks = 1 .. Len(blocks)
      /\ \A j \in 1 .. Len(blocks) : blocks[j] \in Blocks
  BY DEF Table
<1>2. \A j \in 1 .. Len(blocks) : /\ blocks[j].addr \in Nat /\ blocks[j].size \in Nat \ {0}
                                  /\ End(blocks[j]) = blocks[j].addr + blocks[j].size
                                  /\ End(blocks[j]) \in Nat
  BY <1>1 DEF Blocks, End
<1>3. \A j, k \in 1 .. Len(blocks) : j < k => End(blocks[j]) < blocks[k].addr
  BY <1>1 DEF Table
<1>4. rest.addr = blocks[i].addr + n /\ rest.size = blocks[i].size - n /\ End(rest) = End(blocks[i])
  BY <1>2 DEF Block, End
<1>5. \A x \in Nat : blocks[i].addr <= x /\ x < blocks[i].addr + n => InFree(blocks, x)
  <2> SUFFICES ASSUME NEW x \in Nat, blocks[i].addr <= x, x < blocks[i].addr + n
               PROVE  InFree(blocks, x)
    OBVIOUS
  <2>1. x < End(blocks[i])
    <3>1. blocks[i].addr \in Nat /\ blocks[i].size \in Nat /\ End(blocks[i]) = blocks[i].addr + blocks[i].size
      BY <1>2
    <3> QED BY <3>1
  <2> QED BY <1>1, <2>1 DEF InFree, In
<1>6. \A j \in 1 .. Len(blocks) : \A x \in Nat :
        j # i /\ In(blocks[j], x) => ~In(blocks[i], x)
  <2> SUFFICES ASSUME NEW j \in 1 .. Len(blocks), NEW x \in Nat, j # i, In(blocks[j], x)
               PROVE  ~In(blocks[i], x)
    OBVIOUS
  <2>1. j < i \/ i < j
    BY <1>1
  <2>2. End(blocks[j]) < blocks[i].addr \/ End(blocks[i]) < blocks[j].addr
    BY <1>3, <2>1
  <2>3. /\ blocks[i].addr \in Nat /\ blocks[j].addr \in Nat
        /\ End(blocks[i]) \in Nat /\ End(blocks[j]) \in Nat
    BY <1>2
  <2> QED BY <2>2, <2>3 DEF In
<1>7. CASE rest.size = 0
  <2>1. new = RemoveAt(blocks, i)
    BY <1>7 DEF Taken
  <2>2. /\ new \in Seq(Blocks) /\ Len(new) = Len(blocks) - 1
        /\ \A j \in 1 .. Len(blocks) - 1 : new[j] = IF j < i THEN blocks[j] ELSE blocks[j + 1]
    BY <1>1, <2>1, RemoveAtFacts
  <2> HIDE DEF new
  <2>3. DOMAIN new = 1 .. Len(blocks) - 1
    BY <2>2
  <2>4. Table(new)
    <3> SUFFICES ASSUME NEW j \in 1 .. Len(blocks) - 1, NEW k \in 1 .. Len(blocks) - 1, j < k
                 PROVE  End(new[j]) < new[k].addr
      BY <2>2, <2>3 DEF Table
    <3>1. /\ j \in 1 .. Len(blocks) /\ j + 1 \in 1 .. Len(blocks)
          /\ k \in 1 .. Len(blocks) /\ k + 1 \in 1 .. Len(blocks)
      BY <1>1
    <3> QED BY <1>3, <2>2, <3>1
  <2>5. \A x \in Nat : In(blocks[i], x) <=> blocks[i].addr <= x /\ x < blocks[i].addr + n
    BY <1>2, <1>4, <1>7 DEF In
  <2>6. ASSUME NEW x \in Nat
        PROVE  InFree(new, x) <=> InFree(blocks, x) /\ ~In(blocks[i], x)
    <3>1. ASSUME NEW j \in 1 .. Len(blocks) - 1, In(new[j], x)
          PROVE  InFree(blocks, x) /\ ~In(blocks[i], x)
      <4>1. PICK k \in 1 .. Len(blocks) : k # i /\ new[j] = blocks[k]
        BY <1>1, <2>2
      <4> QED BY <1>1, <1>6, <3>1, <4>1 DEF InFree
    <3>2. ASSUME NEW k \in 1 .. Len(blocks), In(blocks[k], x), ~In(blocks[i], x)
          PROVE  InFree(new, x)
      <4>1. k # i
        BY <3>2
      <4>2. \E j \in 1 .. Len(blocks) - 1 : new[j] = blocks[k]
        <5>1. CASE k < i
          BY <1>1, <2>2, <5>1
        <5>2. CASE k > i
          <6>1. k - 1 \in 1 .. Len(blocks) - 1 /\ ~(k - 1 < i) /\ k - 1 + 1 = k
            BY <1>1, <5>2
          <6> QED BY <2>2, <6>1
        <5> QED BY <4>1, <5>1, <5>2
      <4> QED BY <2>3, <3>2, <4>2 DEF InFree
    <3> QED BY <1>1, <2>3, <3>1, <3>2 DEF InFree
  <2> QED BY <1>5, <2>4, <2>5, <2>6 DEF new
<1>8. CASE rest.size # 0
  <2>1. new = [blocks EXCEPT ![i] = rest]
    BY <1>8 DEF Taken
  <2>2. rest \in Blocks
    BY <1>2, <1>4, <1>8 DEF Blocks, Block
  <2> HIDE DEF rest
  <2>3. /\ new \in Seq(Blocks) /\ Len(new) = Len(blocks) /\ DOMAIN new = 1 .. Len(blocks)
        /\ \A j \in 1 .. Len(blocks) : new[j] = IF j = i THEN rest ELSE blocks[j]
    BY <1>1, <2>1, <2>2
  <2> HIDE DEF new
  <2>4. Table(new)
    <3> SUFFICES ASSUME NEW j \in 1 .. Len(blocks), NEW k \in 1 .. Len(blocks), j < k
                 PROVE  End(new[j]) < new[k].addr
      BY <2>3 DEF Table
    <3>1. End(new[j]) = End(blocks[j]) /\ blocks[k].addr <= new[k].addr
      <4>1. ASSUME NEW l \in 1 .. Len(blocks)
            PROVE  End(new[l]) = End(blocks[l]) /\ blocks[l].addr <= new[l].addr
        <5>1. blocks[l].addr \in Nat /\ blocks[i].addr <= rest.addr
          BY <1>2, <1>4
        <5> QED BY <1>4, <2>3, <5>1
      <4> QED BY <4>1
    <3>2. End(new[j]) < blocks[k].addr
      BY <1>3, <3>1
    <3>3. new[k].addr \in Int /\ End(new[j]) \in Int /\ blocks[k].addr \in Int
      <4>1. rest.addr \in Int /\ End(rest) \in Int
        BY <1>2, <1>4
      <4>2. ASSUME NEW l \in 1 .. Len(blocks)
            PROVE  new[l].addr \in Int /\ End(new[l]) \in Int /\ blocks[l].addr \in Int
        <5>1. blocks[l].addr \in Int /\ End(blocks[l]) \in Int
          BY <1>2
        <5> QED BY <2>3, <4>1, <5>1
      <4> QED BY <4>2
    <3> QED BY <3>1, <3>2, <3>3
  <2>5. ASSUME NEW x \in Nat
        PROVE  InFree(new, x)
                <=> InFree(blocks, x) /\ ~(blocks[i].addr <= x /\ x < blocks[i].addr + n)
    <3>1. In(rest, x) <=> In(blocks[i], x) /\ ~(blocks[i].addr <= x /\ x < blocks[i].addr + n)
      BY <1>2, <1>4 DEF In
    <3>2. blocks[i].addr <= x /\ x < blocks[i].addr + n => In(blocks[i], x)
      BY <1>2 DEF In
    <3>3. InFree(new, x) <=> \E j \in 1 .. Len(blocks) : In(IF j = i THEN rest ELSE blocks[j], x)
      BY <2>3 DEF InFree
    <3> QED BY <1>1, <1>6, <3>1, <3>2, <3>3 DEF InFree
  <2> QED BY <1>5, <2>4, <2>5 DEF new
<1> QED BY <1>7, <1>8

(* ggml_tallocr_free_tensor puts the addresses of a block that was not     *)
(* free into the table and no others, and keeps the table in order,        *)
(* whether it joins the block with its neighbours or inserts it.           *)
LEMMA ReturnedFacts ==
    ASSUME NEW blocks, Table(blocks), NEW new \in Blocks,
           \A x \in Nat : In(new, x) => ~InFree(blocks, x)
    PROVE  /\ Table(Returned(blocks, new))
           /\ \A x \in Nat : InFree(Returned(blocks, new), x) <=> InFree(blocks, x) \/ In(new, x)
<1> DEFINE n == Len(blocks)
           before == {i \in DOMAIN blocks : End(blocks[i]) = new.addr}
           after == {i \in DOMAIN blocks : blocks[i].addr = End(new)}
           result == Returned(blocks, new)
<1>1. /\ blocks \in Seq(Blocks) /\ n \in Nat /\ DOMAIN blocks = 1 .. n
      /\ \A j \in 1 .. n : blocks[j] \in Blocks
  BY DEF Table
<1>2. \A b \in Blocks : /\ b.addr \in Nat /\ b.size \in Nat \ {0}
                        /\ End(b) = b.addr + b.size /\ End(b) \in Nat /\ b.addr < End(b)
  BY DEF Blocks, End
<1>3. \A j, k \in 1 .. n : j < k => End(blocks[j]) < blocks[k].addr
  BY <1>1 DEF Table
<1>4. ASSUME NEW j \in 1 .. n
      PROVE  End(blocks[j]) <= new.addr \/ End(new) <= blocks[j].addr
  <2>1. /\ blocks[j].addr \in Nat /\ End(blocks[j]) \in Nat /\ blocks[j].addr < End(blocks[j])
        /\ new.addr \in Nat /\ End(new) \in Nat /\ new.addr < End(new)
    BY <1>1, <1>2
  <2>2. \A x \in Nat : In(blocks[j], x) => ~In(new, x)
    BY <1>1 DEF InFree
  <2>3. ~In(blocks[j], new.addr) \/ ~In(new, new.addr)
    BY <2>1, <2>2
  <2>4. ~In(blocks[j], blocks[j].addr) \/ ~In(new, blocks[j].addr)
    BY <2>1, <2>2
  <2> QED BY <2>1, <2>3, <2>4 DEF In
<1>5. CASE before # {}
  <2> DEFINE i == Min(before)
             grown == [blocks EXCEPT ![i] = Block(@.addr, @.size + new.size)]
  <2>1. i \in 1 .. n /\ End(blocks[i]) = new.addr
    <3>1. before \in SUBSET Nat
      BY <1>1
    <3>2. i \in before
      <4> HIDE DEF before
      <4> QED BY <1>5, <3>1, MinOf
    <3> QED BY <1>1, <3>2
  <2>2. result = IF i < n /\ End(grown[i]) = grown[i + 1].addr
                 THEN [RemoveAt(grown, i + 1) EXCEPT ![i] = Block(grown[i].addr, grown[i].size + grown[i + 1].size)]
                 ELSE grown
    BY <1>5 DEF Returned
  <2> HIDE DEF i
  <2> DEFINE big == Block(blocks[i].addr, blocks[i].size + new.size)
  <2>3. big \in Blocks /\ big.addr = blocks[i].addr /\ End(big) = End(new) /\ big.size = blocks[i].size + new.size
    <3>1. /\ blocks[i].addr \in Nat /\ blocks[i].size \in Nat \ {0} /\ new.size \in Nat \ {0} /\ new.addr \in Nat
          /\ End(blocks[i]) = blocks[i].addr + blocks[i].size /\ End(new) = new.addr + new.size
      BY <1>1, <1>2, <2>1
    <3> QED BY <2>1, <3>1 DEF Block, Blocks, End
  <2>4. /\ grown \in Seq(Blocks) /\ Len(grown) = n
        /\ \A j \in 1 .. n : grown[j] = IF j = i THEN big ELSE blocks[j]
    BY <1>1, <2>1, <2>3
  <2>5. ASSUME NEW x \in Nat PROVE In(big, x) <=> In(blocks[i], x) \/ In(new, x)
    <3>1. /\ blocks[i].addr \in Nat /\ End(blocks[i]) \in Nat /\ blocks[i].addr < End(blocks[i])
          /\ new.addr \in Nat /\ End(new) \in Nat /\ new.addr < End(new)
      BY <1>1, <1>2, <2>1
    <3> QED BY <2>1, <2>3, <3>1 DEF In
  <2> HIDE DEF big, grown
  <2>6. CASE i < n /\ End(big) = blocks[i + 1].addr
    <3>1. i + 1 \in 1 .. n /\ i + 1 # i /\ grown[i + 1] = blocks[i + 1] /\ grown[i] = big
      BY <1>1, <2>1, <2>4, <2>6
    <3> DEFINE removed == RemoveAt(grown, i + 1)
               both == Block(big.addr, big.size + blocks[i + 1].size)
    <3>2. result = [removed EXCEPT ![i] = both]
      BY <2>2, <2>6, <3>1
    <3>3. /\ removed \in Seq(Blocks) /\ Len(removed) = n - 1
          /\ \A j \in 1 .. n - 1 : removed[j] = IF j < i + 1 THEN grown[j] ELSE grown[j + 1]
      BY <1>1, <2>4, <3>1, RemoveAtFacts
    <3>4. both \in Blocks /\ both.addr = blocks[i].addr /\ End(both) = End(blocks[i + 1])
      <4>1. /\ big.addr \in Nat /\ big.size \in Nat \ {0} /\ blocks[i + 1].size \in Nat \ {0}
            /\ blocks[i + 1].addr \in Nat
            /\ End(big) = big.addr + big.size
            /\ End(blocks[i + 1]) = blocks[i + 1].addr + blocks[i + 1].size
        BY <1>1, <1>2, <2>3, <3>1
      <4>2. both.addr = big.addr /\ both.size = big.size + blocks[i + 1].size
        BY DEF Block
      <4>3. End(both) = big.addr + (big.size + blocks[i + 1].size)
        BY <4>2 DEF End
      <4>4. both \in Blocks
        BY <4>1 DEF Block, Blocks
      <4>5. End(both) = End(blocks[i + 1])
        <5>1. \A x, y, z \in Nat : x + (y + z) = (x + y) + z
          OBVIOUS
        <5>2. big.addr + (big.size + blocks[i + 1].size) = (big.addr + big.size) + blocks[i + 1].size
          BY <4>1, <5>1
        <5> QED BY <2>6, <4>1, <4>3, <5>2
      <4> QED BY <2>3, <4>2, <4>4, <4>5
    <3>5. ASSUME NEW x \in Nat PROVE In(both, x) <=> In(big, x) \/ In(blocks[i + 1], x)
      <4>1. /\ big.addr \in Nat /\ End(big) \in Nat /\ big.addr < End(big)
            /\ End(blocks[i + 1]) \in Nat /\ blocks[i + 1].addr < End(blocks[i + 1])
        BY <1>1, <1>2, <2>3, <3>1
      <4> QED BY <2>3, <2>6, <3>4, <4>1 DEF In
    <3> HIDE DEF both, removed
    <3>6. /\ result \in Seq(Blocks) /\ Len(result) = n - 1 /\ DOMAIN result = 1 .. n - 1
          /\ \A j \in 1 .. n - 1 : result[j] = IF j < i THEN blocks[j] ELSE IF j = i THEN both ELSE blocks[j + 1]
      <4>1. i \in 1 .. n - 1
        BY <1>1, <2>1, <2>6
      <4>2. /\ result \in Seq(Blocks) /\ Len(result) = n - 1
            /\ \A j \in 1 .. n - 1 : result[j] = IF j = i THEN both ELSE removed[j]
        <5> DEFINE joined == [removed EXCEPT ![i] = both]
        <5>1. DOMAIN removed = 1 .. n - 1
          BY <1>1, <3>3
        <5>2. joined \in Seq(Blocks) /\ Len(joined) = n - 1
          BY <3>3, <3>4, <4>1
        <5>3. \A j \in 1 .. n - 1 : joined[j] = IF j = i THEN both ELSE removed[j]
          BY <5>1
        <5>4. result = joined
          BY <3>2
        <5> HIDE DEF result, joined
        <5> QED BY <5>2, <5>3, <5>4
      <4> HIDE DEF result
      <4>3. ASSUME NEW j \in 1 .. n - 1
            PROVE  result[j] = IF j < i THEN blocks[j] ELSE IF j = i THEN both ELSE blocks[j + 1]
        <5>1. j \in 1 .. n /\ j + 1 \in 1 .. n
          BY <1>1
        <5>2. CASE j < i
          <6>1. result[j] = removed[j] /\ removed[j] = grown[j] /\ grown[j] = blocks[j]
            BY <1>1, <2>1, <2>4, <3>3, <4>2, <5>1, <5>2
          <6> QED BY <5>2, <6>1
        <5>3. CASE j > i
          <6>1. ~(j < i + 1) /\ j + 1 # i /\ j # i
            BY <1>1, <2>1, <5>1, <5>3
          <6>2. result[j] = removed[j] /\ removed[j] = grown[j + 1] /\ grown[j + 1] = blocks[j + 1]
            BY <2>4, <3>3, <4>2, <5>1, <6>1
          <6>3. ~(j < i)
            BY <2>1, <5>1, <5>3
          <6> QED BY <6>1, <6>2, <6>3
        <5>4. CASE j = i
          BY <1>1, <4>2, <5>4
        <5>5. j < i \/ j = i \/ j > i
          BY <2>1, <5>1
        <5> QED BY <5>2, <5>3, <5>4, <5>5
      <4>4. DOMAIN result = 1 .. n - 1
        BY <1>1, <4>2
      <4> QED BY <4>2, <4>3, <4>4
    <3> HIDE DEF result
    <3>7. Table(result)
      <4> SUFFICES ASSUME NEW j \in 1 .. n - 1, NEW k \in 1 .. n - 1, j < k
                   PROVE  End(result[j]) < result[k].addr
        BY <3>6 DEF Table
      <4>1. /\ j \in 1 .. n /\ j + 1 \in 1 .. n /\ k \in 1 .. n /\ k + 1 \in 1 .. n
            /\ i \in Int /\ i + 1 \in 1 .. n
        BY <1>1, <2>1, <3>1
      <4>2. CASE k < i
        <5>1. result[j] = blocks[j] /\ result[k] = blocks[k]
          BY <3>6, <4>1, <4>2
        <5> QED BY <1>3, <4>1, <5>1
      <4>3. CASE k = i
        <5>1. result[j] = blocks[j] /\ result[k] = both
          BY <3>6, <4>1, <4>3
        <5> QED BY <1>3, <3>4, <4>1, <4>3, <5>1
      <4>4. CASE k > i
        <5>1. result[k] = blocks[k + 1]
          BY <3>6, <4>1, <4>4
        <5>2. \E l \in 1 .. n : l < k + 1 /\ End(result[j]) = End(blocks[l])
          <6>1. CASE j < i
            BY <3>6, <4>1, <6>1
          <6>2. CASE j = i
            <7>1. End(result[j]) = End(blocks[i + 1]) /\ i + 1 < k + 1
              BY <3>4, <3>6, <4>1, <6>2
            <7> QED BY <4>1, <7>1
          <6>3. CASE j > i
            <7>1. result[j] = blocks[j + 1] /\ j + 1 < k + 1
              BY <3>6, <4>1, <6>3
            <7> QED BY <4>1, <7>1
          <6> QED BY <4>1, <6>1, <6>2, <6>3
        <5> QED BY <1>3, <4>1, <5>1, <5>2
      <4> QED BY <4>1, <4>2, <4>3, <4>4
    <3>8. ASSUME NEW x \in Nat PROVE InFree(result, x) <=> InFree(blocks, x) \/ In(new, x)
      <4>1. In(both, x) <=> In(blocks[i], x) \/ In(new, x) \/ In(blocks[i + 1], x)
        BY <2>5, <3>5
      <4>2. ASSUME NEW j \in 1 .. n - 1, In(result[j], x) PROVE InFree(blocks, x) \/ In(new, x)
        <5>1. j \in 1 .. n /\ j + 1 \in 1 .. n
          BY <1>1
        <5>2. result[j] = blocks[j] \/ result[j] = both \/ result[j] = blocks[j + 1]
          BY <3>6
        <5> QED BY <1>1, <2>1, <3>1, <4>1, <4>2, <5>1, <5>2 DEF InFree
      <4>3. i \in 1 .. n - 1 /\ result[i] = both
        <5>1. i \in 1 .. n - 1 /\ ~(i < i)
          BY <1>1, <2>1, <2>6
        <5> QED BY <3>6, <5>1
      <4>4. ASSUME NEW j \in 1 .. n, In(blocks[j], x) PROVE InFree(result, x)
        <5>1. CASE j = i \/ j = i + 1
          BY <3>6, <4>1, <4>3, <4>4, <5>1 DEF InFree
        <5>2. CASE j < i
          <6>1. j \in 1 .. n - 1 /\ result[j] = blocks[j]
            BY <1>1, <2>1, <3>6, <5>2
          <6> QED BY <3>6, <4>4, <6>1 DEF InFree
        <5>3. CASE j > i + 1
          <6>1. j - 1 \in 1 .. n - 1 /\ ~(j - 1 < i) /\ j - 1 # i /\ j - 1 + 1 = j
            BY <1>1, <2>1, <5>3
          <6>2. result[j - 1] = blocks[j]
            BY <3>6, <6>1
          <6> QED BY <3>6, <4>4, <6>1, <6>2 DEF InFree
        <5>4. j = i \/ j = i + 1 \/ j < i \/ j > i + 1
          BY <2>1
        <5> QED BY <5>1, <5>2, <5>3, <5>4
      <4>5. In(new, x) => InFree(result, x)
        BY <3>6, <4>1, <4>3 DEF InFree
      <4> QED BY <1>1, <3>6, <4>2, <4>4, <4>5 DEF InFree
    <3> QED BY <3>7, <3>8 DEF result
  <2>7. CASE ~(i < n /\ End(big) = blocks[i + 1].addr)
    <3>1. result = grown
      <4>1. i < n => i + 1 \in 1 .. n /\ i + 1 # i
        BY <1>1, <2>1
      <4>2. i < n => grown[i + 1] = blocks[i + 1]
        BY <2>4, <4>1
      <4>3. grown[i] = big
        BY <2>1, <2>4
      <4> QED BY <2>2, <2>7, <4>2, <4>3
    <3>2. DOMAIN grown = 1 .. n
      BY <1>1, <2>4
    <3>3. Table(grown)
      <4> SUFFICES ASSUME NEW j \in 1 .. n, NEW k \in 1 .. n, j < k
                   PROVE  End(grown[j]) < grown[k].addr
        BY <2>4, <3>2 DEF Table
      <4>1. grown[k].addr = blocks[k].addr
        BY <2>3, <2>4
      <4>2. CASE j # i
        BY <1>3, <2>4, <4>1, <4>2
      <4>3. CASE j = i
        <5>1. End(grown[j]) = End(new)
          BY <2>3, <2>4, <4>3
        <5>2. /\ blocks[k].addr \in Nat /\ End(blocks[k]) \in Nat /\ blocks[k].addr < End(blocks[k])
              /\ new.addr \in Nat /\ End(new) \in Nat /\ End(blocks[i]) < blocks[k].addr
          BY <1>1, <1>2, <1>3, <4>3
        <5>3. End(new) <= blocks[k].addr
          BY <1>4, <2>1, <5>2
        <5>4. i + 1 \in 1 .. n /\ i < n
          BY <1>1, <2>1, <4>3
        <5>5. End(new) # blocks[i + 1].addr
          BY <2>3, <2>7, <5>4
        <5>6. k = i + 1 \/ blocks[i + 1].addr < blocks[k].addr
          <6>1. k = i + 1 \/ i + 1 < k
            BY <2>1, <4>3
          <6>2. i + 1 < k => End(blocks[i + 1]) < blocks[k].addr
            BY <1>3, <5>4
          <6>3. blocks[i + 1].addr \in Nat /\ blocks[i + 1].addr < End(blocks[i + 1]) /\ End(blocks[i + 1]) \in Nat
            BY <1>1, <1>2, <5>4
          <6> QED BY <5>2, <6>1, <6>2, <6>3
        <5>7. End(new) <= blocks[i + 1].addr
          <6>1. End(blocks[i]) < blocks[i + 1].addr
            BY <1>3, <2>1, <5>4
          <6>2. blocks[i + 1].addr \in Nat /\ End(blocks[i + 1]) \in Nat /\ blocks[i + 1].addr < End(blocks[i + 1])
            BY <1>1, <1>2, <5>4
          <6> QED BY <1>4, <2>1, <5>2, <5>4, <6>1, <6>2
        <5>8. blocks[i + 1].addr \in Nat
          BY <1>1, <1>2, <5>4
        <5> QED BY <4>1, <5>1, <5>2, <5>3, <5>5, <5>6, <5>7, <5>8
      <4> QED BY <4>2, <4>3
    <3>4. ASSUME NEW x \in Nat PROVE InFree(grown, x) <=> InFree(blocks, x) \/ In(new, x)
      <4>1. InFree(grown, x) <=> \E j \in 1 .. n : In(IF j = i THEN big ELSE blocks[j], x)
        BY <2>4, <3>2 DEF InFree
      <4> QED BY <1>1, <2>1, <2>5, <4>1 DEF InFree
    <3> HIDE DEF result
    <3> QED BY <3>1, <3>3, <3>4 DEF result
  <2> QED BY <2>6, <2>7
<1>6. CASE before = {} /\ after # {}
  <2> DEFINE i == Min(after)
             big == Block(new.addr, new.size + blocks[i].size)
  <2>1. i \in 1 .. n /\ blocks[i].addr = End(new)
    <3>1. after \in SUBSET Nat
      BY <1>1
    <3>2. i \in after
      <4> HIDE DEF after
      <4> QED BY <1>6, <3>1, MinOf
    <3> QED BY <1>1, <3>2
  <2>2. result = [blocks EXCEPT ![i] = big]
    BY <1>6 DEF Returned
  <2> HIDE DEF i
  <2>3. big \in Blocks /\ big.addr = new.addr /\ End(big) = End(blocks[i])
    <3>1. /\ blocks[i].addr \in Nat /\ blocks[i].size \in Nat \ {0} /\ new.size \in Nat \ {0} /\ new.addr \in Nat
          /\ End(blocks[i]) = blocks[i].addr + blocks[i].size /\ End(new) = new.addr + new.size
      BY <1>1, <1>2, <2>1
    <3> QED BY <2>1, <3>1 DEF Block, Blocks, End
  <2> HIDE DEF big
  <2>4. /\ result \in Seq(Blocks) /\ Len(result) = n /\ DOMAIN result = 1 .. n
        /\ \A j \in 1 .. n : result[j] = IF j = i THEN big ELSE blocks[j]
    BY <1>1, <2>1, <2>2, <2>3
  <2>5. ASSUME NEW x \in Nat PROVE In(big, x) <=> In(blocks[i], x) \/ In(new, x)
    <3>1. /\ blocks[i].addr \in Nat /\ End(blocks[i]) \in Nat /\ blocks[i].addr < End(blocks[i])
          /\ new.addr \in Nat /\ End(new) \in Nat /\ new.addr < End(new)
      BY <1>1, <1>2, <2>1
    <3> QED BY <2>1, <2>3, <3>1 DEF In
  <2> HIDE DEF result
  <2>6. Table(result)
    <3> SUFFICES ASSUME NEW j \in 1 .. n, NEW k \in 1 .. n, j < k
                 PROVE  End(result[j]) < result[k].addr
      BY <2>4 DEF Table
    <3>1. End(result[j]) = End(blocks[j]) /\ End(blocks[j]) < blocks[k].addr
      BY <1>3, <2>3, <2>4
    <3>2. CASE k # i
      BY <2>4, <3>1, <3>2
    <3>3. CASE k = i
      <4>1. result[k].addr = new.addr
        BY <2>3, <2>4, <3>3
      <4>2. End(blocks[j]) # new.addr
        BY <1>1, <1>6
      <4>3. End(blocks[j]) \in Nat /\ new.addr \in Nat /\ blocks[k].addr = End(new) /\ End(new) \in Nat
        BY <1>1, <1>2, <2>1, <3>3
      <4>4. blocks[j].addr \in Nat /\ blocks[j].addr < End(blocks[j])
        BY <1>1, <1>2
      <4> QED BY <1>4, <3>1, <4>1, <4>2, <4>3, <4>4
    <3> QED BY <3>2, <3>3
  <2>7. ASSUME NEW x \in Nat PROVE InFree(result, x) <=> InFree(blocks, x) \/ In(new, x)
    <3>1. InFree(result, x) <=> \E j \in 1 .. n : In(IF j = i THEN big ELSE blocks[j], x)
      BY <2>4 DEF InFree
    <3> QED BY <1>1, <2>1, <2>5, <3>1 DEF InFree
  <2> QED BY <2>6, <2>7 DEF result
<1>7. CASE before = {} /\ after = {}
  <2> DEFINE above == {i \in DOMAIN blocks : blocks[i].addr >= new.addr}
             i == Min(above \cup {n + 1})
  <2>1. /\ i \in 1 .. n + 1
        /\ \A j \in 1 .. n : j < i => blocks[j].addr < new.addr
        /\ i <= n => blocks[i].addr >= new.addr
    <3>1. above \cup {n + 1} \in SUBSET Nat /\ above \cup {n + 1} # {}
      BY <1>1
    <3>2. i \in above \cup {n + 1} /\ \A y \in above \cup {n + 1} : i <= y
      <4> HIDE DEF above
      <4> QED BY <3>1, MinOf
    <3>3. i \in 1 .. n + 1
      BY <1>1, <3>2
    <3>4. i <= n => i \in above
      BY <1>1, <3>2, <3>3
    <3> HIDE DEF i
    <3>5. ASSUME NEW j \in 1 .. n, j < i PROVE blocks[j].addr < new.addr
      <4>1. j \notin above
        BY <1>1, <3>2, <3>3, <3>5
      <4>2. blocks[j].addr \in Nat /\ new.addr \in Nat
        BY <1>1, <1>2
      <4> QED BY <1>1, <4>1, <4>2
    <3> QED BY <3>3, <3>4, <3>5
  <2>2. result = InsertAt(blocks, i, new)
    BY <1>7 DEF Returned
  <2> HIDE DEF i
  <2>3. /\ result \in Seq(Blocks) /\ Len(result) = n + 1
        /\ \A j \in 1 .. n + 1 : result[j] = IF j < i THEN blocks[j] ELSE IF j = i THEN new ELSE blocks[j - 1]
    <3> DEFINE inserted == InsertAt(blocks, i, new)
    <3>1. /\ inserted \in Seq(Blocks) /\ Len(inserted) = n + 1
          /\ \A j \in 1 .. n + 1 : inserted[j] = IF j < i THEN blocks[j] ELSE IF j = i THEN new ELSE blocks[j - 1]
      <4>1. blocks \in Seq(Blocks) /\ i \in 1 .. Len(blocks) + 1
        BY <1>1, <2>1
      <4>2. new \in Blocks
        OBVIOUS
      <4>3. inserted \in Seq(Blocks) /\ Len(inserted) = Len(blocks) + 1
        BY <4>1, <4>2, InsertAtFacts
      <4>4. \A j \in 1 .. Len(blocks) + 1 :
                inserted[j] = IF j < i THEN blocks[j] ELSE IF j = i THEN new ELSE blocks[j - 1]
        BY <4>1, <4>2, InsertAtFacts
      <4> QED BY <4>3, <4>4
    <3>2. result = inserted
      BY <2>2
    <3> HIDE DEF result, inserted
    <3> QED BY <3>1, <3>2
  <2> HIDE DEF result
  <2>4. DOMAIN result = 1 .. n + 1
    BY <1>1, <2>3
  <2>5. ASSUME NEW j \in 1 .. n, j < i PROVE End(blocks[j]) < new.addr
    <3>1. End(blocks[j]) # new.addr
      BY <1>1, <1>7
    <3>2. /\ blocks[j].addr \in Nat /\ End(blocks[j]) \in Nat
          /\ new.addr \in Nat /\ End(new) \in Nat /\ new.addr < End(new)
      BY <1>1, <1>2
    <3>3. blocks[j].addr < new.addr
      BY <2>1, <2>5
    <3> QED BY <1>4, <3>1, <3>2, <3>3
  <2>6. ASSUME NEW j \in 1 .. n, j >= i PROVE End(new) < blocks[j].addr
    <3>1. End(new) # blocks[j].addr
      BY <1>1, <1>7
    <3>2. /\ blocks[j].addr \in Nat /\ End(blocks[j]) \in Nat /\ blocks[j].addr < End(blocks[j])
          /\ new.addr \in Nat /\ End(new) \in Nat /\ new.addr < End(new)
      BY <1>1, <1>2
    <3>3. i \in 1 .. n
      BY <1>1, <2>1, <2>6
    <3>4. blocks[j].addr >= new.addr
      <4>1. CASE j = i
        BY <1>1, <2>1, <4>1
      <4>2. CASE j # i
        <5>1. End(blocks[i]) < blocks[j].addr
          BY <1>3, <2>6, <3>3, <4>2
        <5>2. /\ blocks[i].addr \in Nat /\ End(blocks[i]) \in Nat /\ blocks[i].addr < End(blocks[i])
              /\ blocks[i].addr >= new.addr
          BY <1>1, <1>2, <2>1, <3>3
        <5> QED BY <3>2, <5>1, <5>2
      <4> QED BY <4>1, <4>2
    <3> QED BY <1>4, <3>1, <3>2, <3>4
  <2>7. Table(result)
    <3> SUFFICES ASSUME NEW j \in 1 .. n + 1, NEW k \in 1 .. n + 1, j < k
                 PROVE  End(result[j]) < result[k].addr
      BY <2>3, <2>4 DEF Table
    <3>1. i \in Int /\ j \in Int /\ k \in Int
      BY <2>1
    <3>2. CASE k < i
      <4>1. j \in 1 .. n /\ k \in 1 .. n /\ result[j] = blocks[j] /\ result[k] = blocks[k]
        BY <1>1, <2>1, <2>3, <3>1, <3>2
      <4> QED BY <1>3, <4>1
    <3>3. CASE k = i
      <4>1. j \in 1 .. n /\ result[j] = blocks[j] /\ result[k] = new
        BY <1>1, <2>1, <2>3, <3>1, <3>3
      <4> QED BY <2>5, <3>3, <4>1
    <3>4. CASE k > i
      <4>1. k - 1 \in 1 .. n /\ result[k] = blocks[k - 1]
        BY <1>1, <2>1, <2>3, <3>1, <3>4
      <4>2. CASE j < i
        <5>1. j \in 1 .. n /\ result[j] = blocks[j] /\ j < k - 1
          BY <1>1, <2>1, <2>3, <3>1, <3>4, <4>2
        <5> QED BY <1>3, <4>1, <5>1
      <4>3. CASE j = i
        <5>1. result[j] = new /\ k - 1 >= i
          BY <2>1, <2>3, <3>1, <3>4, <4>3
        <5> QED BY <2>6, <4>1, <5>1
      <4>4. CASE j > i
        <5>1. j - 1 \in 1 .. n /\ result[j] = blocks[j - 1] /\ j - 1 < k - 1
          BY <1>1, <2>1, <2>3, <3>1, <4>4
        <5> QED BY <1>3, <4>1, <5>1
      <4> QED BY <3>1, <4>2, <4>3, <4>4
    <3> QED BY <3>1, <3>2, <3>3, <3>4
  <2>8. ASSUME NEW x \in Nat PROVE InFree(result, x) <=> InFree(blocks, x) \/ In(new, x)
    <3>1. ASSUME NEW j \in 1 .. n + 1, In(result[j], x) PROVE InFree(blocks, x) \/ In(new, x)
      <4>1. result[j] = new \/ \E k \in 1 .. n : result[j] = blocks[k]
        <5>1. CASE j < i
          BY <1>1, <2>1, <2>3, <5>1
        <5>2. CASE j = i
          BY <2>1, <2>3, <5>2
        <5>3. CASE j > i
          <6>1. j - 1 \in 1 .. n /\ ~(j < i) /\ j # i
            BY <1>1, <2>1, <5>3
          <6> QED BY <2>3, <6>1
        <5> QED BY <2>1, <5>1, <5>2, <5>3
      <4> QED BY <1>1, <3>1, <4>1 DEF InFree
    <3>2. ASSUME NEW j \in 1 .. n, In(blocks[j], x) PROVE InFree(result, x)
      <4>1. CASE j < i
        <5>1. j \in 1 .. n + 1 /\ result[j] = blocks[j]
          BY <1>1, <2>3, <4>1
        <5> QED BY <2>4, <3>2, <5>1 DEF InFree
      <4>2. CASE j >= i
        <5>1. j + 1 \in 1 .. n + 1 /\ ~(j + 1 < i) /\ j + 1 # i /\ j + 1 - 1 = j
          BY <1>1, <2>1, <4>2
        <5>2. result[j + 1] = blocks[j]
          BY <2>3, <5>1
        <5> QED BY <2>4, <3>2, <5>1, <5>2 DEF InFree
      <4> QED BY <2>1, <4>1, <4>2
    <3>3. In(new, x) => InFree(result, x)
      <4>1. result[i] = new
        BY <2>1, <2>3
      <4> QED BY <2>1, <2>4, <4>1 DEF InFree
    <3> QED BY <1>1, <2>4, <3>1, <3>2, <3>3 DEF InFree
  <2> QED BY <2>7, <2>8 DEF result
<1> QED BY <1>5, <1>6, <1>7

-------------------------------------------------------------------------------
(* What is sound *)

(* The types of what the allocators keep. *)
Allocs(g) ==
    [blocks : Seq(Blocks), max_size : Nat, failed : BOOLEAN,
     data : [DOMAIN g -> Int], view_src : [DOMAIN g -> Int],
     n_children : [DOMAIN g -> Int], n_views : [DOMAIN g -> Int],
     live : SUBSET DOMAIN g, own : [DOMAIN g -> DOMAIN g], dropped : SUBSET DOMAIN g]

(* The tensors of D that are not views. *)
Plain(g, D) == {t \in D : g[t].view_src = NoTensor}

(* The reads of a graph: the node, and the number of the src. R are those  *)
(* that no node has been counted down for yet.                             *)
Reads(g) == UNION {{n} \X DOMAIN g[n].src : n \in DOMAIN g}
SrcOf(g, r) == g[r[1]].src[r[2]]
ReadsIn(g, R, t) == {r \in R : SrcOf(g, r) = t}
(* The tensors that n_views of t counts. *)
Views(g, a, t) == {x \in DOMAIN g : a.view_src[x] = t} \ a.dropped

(* The memory of a tensor, from its data to its Top. *)
Top(g, a, t) == a.data[t] + AllocSize(g, t)
InTensor(g, a, t, x) == a.data[t] <= x /\ x < Top(g, a, t)
Disjoint(g, a, s, t) == Top(g, a, s) <= a.data[t] \/ Top(g, a, t) <= a.data[s]

(* Where the tensors D, which are allocated, are: inside the memory of     *)
(* own[t], a tensor that is no view; and t is at the beginning of it, or   *)
(* where it is in what it views. Only a node that works in place gets a    *)
(* view_src that the graph does not give it.                               *)
DataSound(g, a, D) ==
    /\ a \in Allocs(g)
    /\ D \subseteq DOMAIN g
    /\ \A t \in DOMAIN g : t \notin D => a.data[t] = Null /\ a.own[t] = t
    /\ \A t \in D :
        /\ a.data[t] \in Nat
        /\ a.own[t] \in Plain(g, D) /\ a.own[a.own[t]] = a.own[t]
        /\ a.data[a.own[t]] <= a.data[t] /\ Top(g, a, t) <= Top(g, a, a.own[t])
    /\ \A t \in Plain(g, D) :
        /\ a.own[t] <= t /\ a.data[t] = a.data[a.own[t]]
        /\ a.view_src[t] = NoTensor => a.own[t] = t
    /\ \A t \in D : g[t].view_src # NoTensor =>
        /\ g[t].view_src \in D /\ a.own[t] = a.own[g[t].view_src]
        /\ a.data[t] = a.data[g[t].view_src] + g[t].offs
    /\ \A t \in DOMAIN g : g[t].view_src # NoTensor => a.view_src[t] = g[t].view_src
    /\ \A t \in DOMAIN g : g[t].view_src = NoTensor /\ a.view_src[t] # NoTensor =>
        /\ t \in D /\ g[t].kind = "inplace"
        /\ a.view_src[t] \in Plain(g, D) /\ a.view_src[t] < t /\ a.own[t] = a.own[a.view_src[t]]

(* An op has worked in place in the first part of a tensor. *)
PartOf(g, a) == \E t \in DOMAIN g : g[t].kind = "inplace" /\ AllocSize(g, t) < AllocSize(g, a.own[t])

(* The memory from lo to hi: the live tensors own disjoint parts of it,    *)
(* what is free is part of it and in no live tensor, and nothing else is   *)
(* left, unless an op worked in the first part of a tensor.                *)
LiveSound(g, a, D, lo, hi) ==
    /\ Table(a.blocks)
    /\ a.live \subseteq Plain(g, D)
    /\ \A t \in a.live : a.own[t] = t /\ lo <= a.data[t] /\ Top(g, a, t) <= hi
    /\ \A s, t \in a.live : s # t => Disjoint(g, a, s, t)
    /\ \A x \in Nat : InFree(a.blocks, x) =>
        /\ lo <= x /\ x < hi
        /\ \A t \in a.live : ~InTensor(g, a, t, x)
    /\ ~PartOf(g, a) => \A x \in Nat : lo <= x /\ x < hi =>
        InFree(a.blocks, x) \/ \E t \in a.live : InTensor(g, a, t, x)

(* The counts are what their names say: of the reads to come, and of the   *)
(* views and the nodes in place that are not counted down yet. A tensor is *)
(* dropped once, when nothing reads it any more.                           *)
CountSound(g, a, R) ==
    /\ R \subseteq Reads(g)
    /\ \A t \in DOMAIN g : a.n_children[t] = Cardinality(ReadsIn(g, R, t))
    /\ \A t \in DOMAIN g : a.n_views[t] = Cardinality(Views(g, a, t))
    /\ \A t \in a.dropped : a.n_children[t] = 0 /\ a.view_src[t] # NoTensor
    /\ \A t \in DOMAIN g : g[t].view_src # NoTensor /\ Read(g, t) /\ a.n_children[t] = 0 => t \in a.dropped

(* Tensor t may still be needed: it has reads to come, or nothing reads it *)
(* (a result), or a view of it is still counted. Tensor q, the parent that *)
(* the node being counted works in place of, is as good as gone: the node  *)
(* has its memory now.                                                     *)
Keeps(g, a, q, t) ==
    \/ a.n_children[t] > 0 /\ t # q
    \/ ~Read(g, t)
    \/ \E x \in DOMAIN g : g[x].view_src = t /\ x \notin a.dropped /\ x # q

(* The memory of a tensor that may still be needed is live. *)
LiveDue(g, a, D) == \A t \in Plain(g, D) : Keeps(g, a, 0, t) => a.own[t] \in a.live
(* Among the tensors that share memory, one after the other in place, only *)
(* the last may still be needed.                                           *)
LastKeeps(g, a, D, q) ==
    \A s, t \in Plain(g, D) : s < t /\ a.own[s] = a.own[t] => ~Keeps(g, a, q, s)
(* Live memory has a tensor that may still be needed. *)
NoLeak(g, a, D) == \A o \in a.live : \E t \in Plain(g, D) : a.own[t] = o /\ Keeps(g, a, 0, t)
(* Two nodes that work in place of the same tensor: the first is counted   *)
(* no more.                                                                *)
LastViews(g, a, D, q) ==
    \A s, t \in Plain(g, D) :
        s < t /\ a.view_src[s] = a.view_src[t] /\ a.view_src[s] # NoTensor => s \in a.dropped \/ s = q

(* What is needed and what is live agree. That is why free_node never      *)
(* returns the memory of a tensor that has a reader, and never forgets     *)
(* any.                                                                    *)
KeepSound(g, a, D, q) ==
    LiveDue(g, a, D) /\ LastKeeps(g, a, D, q) /\ NoLeak(g, a, D) /\ LastViews(g, a, D, q)

(* While the parents of node n are counted down (q = 0: not, or not in     *)
(* place), parent q, in whose memory n works, has n as its last reader.    *)
Reusing(g, a, D, R, n, q) == q # 0 =>
    /\ n \in Plain(g, D) /\ q \in D /\ q < n
    /\ a.own[q] = a.own[n]
    /\ a.view_src[n] = IF a.view_src[q] = NoTensor THEN q ELSE a.view_src[q]
    /\ n \notin a.dropped /\ q \notin a.dropped
    /\ a.n_children[q] = 1
    /\ \E i \in DOMAIN g[n].src : <<n, i>> \in R /\ g[n].src[i] = q
    /\ a.view_src[q] # NoTensor => a.n_views[q] = 0

-----------------------------------------------------------------------------
(* What a well-formed graph is, for the provers. *)
LEMMA Shaped ==
    ASSUME NEW g, WellFormed(g)
    PROVE  /\ Len(g) \in Nat /\ DOMAIN g = 1 .. Len(g)
           /\ \A t \in DOMAIN g : g[t].view_src # NoTensor =>
                /\ g[t].kind = "view" /\ g[t].view_src \in DOMAIN g /\ g[t].view_src < t
                /\ g[g[t].view_src].view_src = NoTensor /\ g[g[t].view_src].kind # "external"
                /\ Read(g, g[t].view_src) /\ g[t].offs \in Nat
           /\ \A t \in DOMAIN g : g[t].view_src = NoTensor => g[t].kind # "view"
<1>1. Len(g) \in Nat /\ DOMAIN g = 1 .. Len(g)
  BY DEF WellFormed
<1>2. ASSUME NEW t \in DOMAIN g, g[t].view_src # NoTensor
      PROVE  /\ g[t].kind = "view" /\ g[t].view_src \in DOMAIN g /\ g[t].view_src < t
             /\ g[g[t].view_src].view_src = NoTensor /\ g[g[t].view_src].kind # "external"
             /\ Read(g, g[t].view_src) /\ g[t].offs \in Nat
  <2>1. g[t].kind = "view"
    BY <1>2 DEF WellFormed
  <2>2. /\ g[t].view_src \in 1 .. t - 1 /\ g[g[t].view_src].kind \notin {"view", "external"}
        /\ Read(g, g[t].view_src) /\ g[t].offs \in Nat
    BY <2>1 DEF WellFormed
  <2>3. g[t].view_src \in DOMAIN g /\ g[t].view_src < t
    BY <1>1, <2>2
  <2>4. g[g[t].view_src].view_src = NoTensor
    BY <2>2, <2>3 DEF WellFormed
  <2> QED BY <2>1, <2>2, <2>3, <2>4
<1>3. ASSUME NEW t \in DOMAIN g, g[t].view_src = NoTensor PROVE g[t].kind # "view"
  <2>1. SUFFICES ASSUME g[t].kind = "view" PROVE FALSE
    OBVIOUS
  <2>2. g[t].view_src \in 1 .. t - 1
    BY <2>1 DEF WellFormed
  <2> QED BY <1>1, <1>3, <2>2 DEF NoTensor
<1> QED BY <1>1, <1>2, <1>3

(* The reads of a graph are finitely many, of tensors that come before     *)
(* their reader.                                                           *)
LEMMA ReadsFinite ==
    ASSUME NEW g, WellFormed(g)
    PROVE  /\ IsFiniteSet(Reads(g)) /\ IsFiniteSet(DOMAIN g)
           /\ \A t : ReadsOf(g, t) = ReadsIn(g, Reads(g), t)
           /\ \A r \in Reads(g) : /\ r[1] \in DOMAIN g /\ r[2] \in DOMAIN g[r[1]].src
                                  /\ r = <<r[1], r[2]>> /\ SrcOf(g, r) \in 1 .. r[1] - 1
<1>1. Len(g) \in Nat /\ DOMAIN g = 1 .. Len(g)
  BY Shaped
<1>2. IsFiniteSet(DOMAIN g)
  BY <1>1, FS_Interval
<1>3. \A n \in DOMAIN g : g[n].src \in Seq(1 .. n - 1)
  BY DEF WellFormed
<1>4. \A n \in DOMAIN g : IsFiniteSet({n} \X DOMAIN g[n].src)
  <2> SUFFICES ASSUME NEW n \in DOMAIN g PROVE IsFiniteSet({n} \X DOMAIN g[n].src)
    OBVIOUS
  <2>1. DOMAIN g[n].src = 1 .. Len(g[n].src) /\ Len(g[n].src) \in Nat
    BY <1>3
  <2>2. IsFiniteSet(DOMAIN g[n].src)
    BY <2>1, FS_Interval
  <2>3. IsFiniteSet({n})
    BY FS_Singleton
  <2> QED BY <2>2, <2>3, FS_Product
<1>5. IsFiniteSet(Reads(g))
  <2> DEFINE S == {{n} \X DOMAIN g[n].src : n \in DOMAIN g}
             n == Len(g)
             f == [i \in 1 .. n |-> {i} \X DOMAIN g[i].src]
  <2>1. \A T \in S : IsFiniteSet(T)
    BY <1>4
  <2>2. IsFiniteSet(S)
    <3>1. f \in Surjection(DOMAIN g, S)
      BY <1>1 DEF Surjection
    <3> QED BY <1>2, <3>1, FS_Surjection
  <2>3. IsFiniteSet(UNION S)
    <3> HIDE DEF S
    <3> QED BY <2>1, <2>2, FS_UNION
  <2> QED BY <2>3 DEF Reads
<1>6. \A t : ReadsOf(g, t) = ReadsIn(g, Reads(g), t)
  BY DEF ReadsOf, ReadsIn, Reads, SrcOf
<1>7. ASSUME NEW r \in Reads(g)
      PROVE  /\ r[1] \in DOMAIN g /\ r[2] \in DOMAIN g[r[1]].src
             /\ r = <<r[1], r[2]>> /\ SrcOf(g, r) \in 1 .. r[1] - 1
  <2>1. PICK n \in DOMAIN g : r \in {n} \X DOMAIN g[n].src
    BY DEF Reads
  <2>2. r[1] = n /\ r[2] \in DOMAIN g[n].src /\ r = <<r[1], r[2]>>
    BY <2>1
  <2>3. g[n].src[r[2]] \in 1 .. n - 1
    <3>1. \A i \in DOMAIN g[n].src : g[n].src[i] \in 1 .. n - 1
      BY <1>3
    <3> QED BY <2>2, <3>1
  <2> QED BY <2>1, <2>2, <2>3 DEF SrcOf
<1> QED BY <1>2, <1>5, <1>6, <1>7

(* Sets with no element, and with one. *)
LEMMA FewElements ==
    ASSUME NEW S, IsFiniteSet(S)
    PROVE  /\ Cardinality(S) \in Nat /\ (Cardinality(S) = 0 <=> S = {})
           /\ Cardinality(S) = 1 => \A x, y \in S : x = y
<1>1. Cardinality(S) \in Nat
  BY FS_CardinalityType
<1>2. Cardinality(S) = 0 <=> S = {}
  BY FS_EmptySet
<1>3. Cardinality(S) = 1 => \E z : S = {z}
  BY FS_Singleton
<1> QED BY <1>1, <1>2, <1>3

(* A count that is 0, or 1, says that nothing, or just one thing, is left. *)
LEMMA Counts ==
    ASSUME NEW g, WellFormed(g), NEW a, NEW R, CountSound(g, a, R), NEW t \in DOMAIN g
    PROVE  /\ a.n_children[t] \in Nat /\ (a.n_children[t] = 0 <=> ReadsIn(g, R, t) = {})
           /\ a.n_children[t] = 1 => \A r, s \in ReadsIn(g, R, t) : r = s
           /\ a.n_views[t] \in Nat /\ (a.n_views[t] = 0 <=> Views(g, a, t) = {})
           /\ a.n_views[t] = 1 => \A x, y \in Views(g, a, t) : x = y
           /\ IsFiniteSet(ReadsIn(g, R, t)) /\ IsFiniteSet(Views(g, a, t))
<1>1. a.n_children[t] = Cardinality(ReadsIn(g, R, t)) /\ a.n_views[t] = Cardinality(Views(g, a, t))
  BY DEF CountSound
<1>2. IsFiniteSet(ReadsIn(g, R, t))
  <2>1. ReadsIn(g, R, t) \subseteq Reads(g)
    BY DEF CountSound, ReadsIn
  <2> QED BY <2>1, ReadsFinite, FS_Subset
<1>3. IsFiniteSet(Views(g, a, t))
  <2>1. Views(g, a, t) \subseteq DOMAIN g
    BY DEF Views
  <2> QED BY <2>1, ReadsFinite, FS_Subset
<1>4. /\ a.n_children[t] \in Nat /\ (a.n_children[t] = 0 <=> ReadsIn(g, R, t) = {})
      /\ a.n_children[t] = 1 => \A r, s \in ReadsIn(g, R, t) : r = s
  <2> DEFINE S == ReadsIn(g, R, t)
  <2> HIDE DEF S
  <2>1. a.n_children[t] = Cardinality(S) /\ IsFiniteSet(S)
    BY <1>1, <1>2 DEF S
  <2>2. /\ Cardinality(S) \in Nat /\ (Cardinality(S) = 0 <=> S = {})
        /\ Cardinality(S) = 1 => \A x, y \in S : x = y
    BY <2>1, FewElements
  <2>3. /\ a.n_children[t] \in Nat /\ (a.n_children[t] = 0 <=> S = {})
        /\ a.n_children[t] = 1 => \A x, y \in S : x = y
    BY <2>1, <2>2
  <2> QED BY <2>3 DEF S
<1>5. /\ a.n_views[t] \in Nat /\ (a.n_views[t] = 0 <=> Views(g, a, t) = {})
      /\ a.n_views[t] = 1 => \A x, y \in Views(g, a, t) : x = y
  <2> DEFINE S == Views(g, a, t)
  <2> HIDE DEF S
  <2>1. a.n_views[t] = Cardinality(S) /\ IsFiniteSet(S)
    BY <1>1, <1>3 DEF S
  <2>2. /\ Cardinality(S) \in Nat /\ (Cardinality(S) = 0 <=> S = {})
        /\ Cardinality(S) = 1 => \A x, y \in S : x = y
    BY <2>1, FewElements
  <2>3. /\ a.n_views[t] \in Nat /\ (a.n_views[t] = 0 <=> S = {})
        /\ a.n_views[t] = 1 => \A x, y \in S : x = y
    BY <2>1, <2>2
  <2> QED BY <2>3 DEF S
<1> QED BY <1>2, <1>3, <1>4, <1>5

(* Counting down a read leaves one read less of its tensor. *)
LEMMA OneReadLess ==
    ASSUME NEW g, WellFormed(g), NEW a, NEW R, CountSound(g, a, R), NEW r \in R, NEW t \in DOMAIN g
    PROVE  Cardinality(ReadsIn(g, R \ {r}, t)) =
            IF t = SrcOf(g, r) THEN a.n_children[t] - 1 ELSE a.n_children[t]
<1>1. a.n_children[t] = Cardinality(ReadsIn(g, R, t)) /\ IsFiniteSet(ReadsIn(g, R, t))
  BY Counts DEF CountSound
<1>2. CASE t = SrcOf(g, r)
  <2>1. ReadsIn(g, R \ {r}, t) = ReadsIn(g, R, t) \ {r} /\ r \in ReadsIn(g, R, t)
    BY <1>2 DEF ReadsIn
  <2> QED BY <1>1, <1>2, <2>1, FS_RemoveElement
<1>3. CASE t # SrcOf(g, r)
  <2>1. ReadsIn(g, R \ {r}, t) = ReadsIn(g, R, t)
    BY <1>3 DEF ReadsIn
  <2> QED BY <1>1, <1>3, <2>1
<1> QED BY <1>2, <1>3

(* A tensor that a read of R reads. *)
LEMMA StillRead ==
    ASSUME NEW g, WellFormed(g), NEW a, NEW R, CountSound(g, a, R), NEW r \in R
    PROVE  /\ SrcOf(g, r) \in DOMAIN g /\ SrcOf(g, r) < r[1] /\ r[1] \in DOMAIN g
           /\ Read(g, SrcOf(g, r)) /\ a.n_children[SrcOf(g, r)] > 0
           /\ SrcOf(g, r) \notin a.dropped
<1>1. r \in Reads(g)
  BY DEF CountSound
<1>2. r[1] \in DOMAIN g /\ SrcOf(g, r) \in 1 .. r[1] - 1
  BY <1>1, ReadsFinite
<1>3. SrcOf(g, r) \in DOMAIN g /\ SrcOf(g, r) < r[1]
  BY <1>2, Shaped
<1>4. Read(g, SrcOf(g, r))
  <2>1. r \in ReadsOf(g, SrcOf(g, r))
    BY <1>1, ReadsFinite DEF ReadsIn
  <2> QED BY <2>1 DEF Read
<1>5. a.n_children[SrcOf(g, r)] > 0
  <2>1. r \in ReadsIn(g, R, SrcOf(g, r))
    BY DEF ReadsIn
  <2> QED BY <1>3, <2>1, Counts
<1> QED BY <1>2, <1>3, <1>4, <1>5 DEF CountSound

-------------------------------------------------------------------------------
(* free_node *)

(* What free_node changes: the table, the live tensors and whether the     *)
(* table is full.                                                          *)
LEMMA FreeNodeFields ==
    ASSUME NEW a \in Allocs(graph), NEW t \in DOMAIN graph, a.data[t] # Null,
           Returned(a.blocks, Block(a.data[t], AllocSize(graph, t))) \in Seq(Blocks)
    PROVE  LET b == FreeNode(a, t) IN
           /\ b \in Allocs(graph)
           /\ b.blocks = Returned(a.blocks, Block(a.data[t], AllocSize(graph, t)))
           /\ b.live = a.live \ {x \in a.live : a.data[x] = a.data[t]}
           /\ b.data = a.data /\ b.own = a.own /\ b.view_src = a.view_src
           /\ b.n_children = a.n_children /\ b.n_views = a.n_views /\ b.dropped = a.dropped
           /\ b.max_size = a.max_size
<1> DEFINE blocks == Returned(a.blocks, Block(a.data[t], AllocSize(graph, t)))
           failed == (a.failed \/ Len(blocks) > MaxFreeBlocks)
           live == a.live \ {x \in a.live : a.data[x] = a.data[t]}
           b == [a EXCEPT !.blocks = blocks, !.failed = failed, !.live = live]
<1>1. FreeNode(a, t) = b
  BY DEF FreeNode
<1>2. failed \in BOOLEAN
  OBVIOUS
<1>3. live \in SUBSET DOMAIN graph
  BY DEF Allocs
<1> HIDE DEF blocks, failed, live
<1>4. /\ b \in Allocs(graph)
      /\ b.blocks = blocks /\ b.live = live
      /\ b.data = a.data /\ b.own = a.own /\ b.view_src = a.view_src
      /\ b.n_children = a.n_children /\ b.n_views = a.n_views /\ b.dropped = a.dropped
      /\ b.max_size = a.max_size
  <2>1. blocks \in Seq(Blocks)
    BY DEF blocks
  <2> QED BY <1>2, <1>3, <2>1 DEF Allocs
<1> HIDE DEF b
<1> QED BY <1>1, <1>4 DEF blocks, live

(* An allocated tensor is inside the memory of the tensor that owns it. *)
LEMMA Inside ==
    ASSUME NEW g, WellFormed(g), NEW a, NEW D, DataSound(g, a, D), NEW t \in D
    PROVE  /\ t \in DOMAIN g /\ a.own[t] \in DOMAIN g /\ a.own[t] \in D
           /\ a.data[t] \in Nat /\ AllocSize(g, t) \in Nat \ {0} /\ Top(g, a, t) \in Nat
           /\ a.data[t] < Top(g, a, t)
           /\ a.data[a.own[t]] \in Nat /\ Top(g, a, a.own[t]) \in Nat
           /\ a.data[a.own[t]] <= a.data[t] /\ Top(g, a, t) <= Top(g, a, a.own[t])
<1>1. t \in DOMAIN g /\ a.own[t] \in D /\ a.own[t] \in DOMAIN g
  BY DEF DataSound, Plain
<1>2. AllocSize(g, t) \in Nat \ {0} /\ AllocSize(g, a.own[t]) \in Nat \ {0}
  BY <1>1, Sizes
<1>3. a.data[t] \in Nat /\ a.data[a.own[t]] \in Nat
  BY <1>1 DEF DataSound
<1>4. a.data[a.own[t]] <= a.data[t] /\ Top(g, a, t) <= Top(g, a, a.own[t])
  BY DEF DataSound
<1> QED BY <1>1, <1>2, <1>3, <1>4 DEF Top

(* Two different tensors with memory of their own have different addresses. *)
LEMMA LiveApart ==
    ASSUME NEW g, WellFormed(g), NEW a, NEW D, NEW lo \in Int, NEW hi \in Int,
           DataSound(g, a, D), LiveSound(g, a, D, lo, hi),
           NEW s \in a.live, NEW t \in a.live, s # t
    PROVE  /\ a.data[s] # a.data[t]
           /\ \A x \in Nat : ~(InTensor(g, a, s, x) /\ InTensor(g, a, t, x))
<1>1. s \in D /\ t \in D /\ Disjoint(g, a, s, t)
  BY DEF LiveSound, Plain
<1>2. /\ a.data[s] \in Nat /\ Top(g, a, s) \in Nat /\ a.data[s] < Top(g, a, s)
      /\ a.data[t] \in Nat /\ Top(g, a, t) \in Nat /\ a.data[t] < Top(g, a, t)
  BY <1>1, Inside
<1> QED BY <1>1, <1>2 DEF Disjoint, InTensor

(* free_node of a tensor whose memory is live returns the memory of its    *)
(* owner: it is live no more, all else stays sound.                        *)
LEMMA Freeing ==
    ASSUME WellFormed(graph), NEW a, NEW D, NEW lo \in Int, NEW hi \in Int, NEW t \in Plain(graph, D),
           DataSound(graph, a, D), LiveSound(graph, a, D, lo, hi), a.own[t] \in a.live
    PROVE  LET b == FreeNode(a, t) IN
           /\ DataSound(graph, b, D) /\ LiveSound(graph, b, D, lo, hi)
           /\ \A o : o \in b.live <=> o \in a.live /\ o # a.own[t]
           /\ b.data = a.data /\ b.own = a.own /\ b.view_src = a.view_src
           /\ b.n_children = a.n_children /\ b.n_views = a.n_views /\ b.dropped = a.dropped
<1> DEFINE b == FreeNode(a, t)
           new == Block(a.data[t], AllocSize(graph, t))
           o == a.own[t]
<1>1. t \in D /\ o \in a.live /\ o \in D
  BY DEF Plain, LiveSound
<1>2. /\ t \in DOMAIN graph /\ o \in DOMAIN graph
      /\ a.data[t] \in Nat /\ AllocSize(graph, t) \in Nat \ {0} /\ Top(graph, a, t) \in Nat
      /\ a.data[t] < Top(graph, a, t)
      /\ a.data[o] = a.data[t] /\ a.own[o] = o
      /\ Top(graph, a, o) \in Nat /\ Top(graph, a, t) <= Top(graph, a, o)
  <2>1. a.data[o] = a.data[t] /\ a.own[o] = o
    BY <1>1 DEF DataSound
  <2> QED BY <1>1, <2>1, Inside
<1>3. new \in Blocks /\ \A x \in Nat : In(new, x) <=> InTensor(graph, a, t, x)
  BY <1>2 DEF Block, Blocks, In, End, InTensor, Top
<1>4. \A x \in Nat : InTensor(graph, a, t, x) => InTensor(graph, a, o, x)
  BY <1>2 DEF InTensor
<1>5. \A x \in Nat : In(new, x) => ~InFree(a.blocks, x)
  BY <1>1, <1>3, <1>4 DEF LiveSound
<1>6. Table(a.blocks)
  BY DEF LiveSound
<1>7. /\ Table(Returned(a.blocks, new))
      /\ \A x \in Nat : InFree(Returned(a.blocks, new), x) <=> InFree(a.blocks, x) \/ In(new, x)
  <2> HIDE DEF new
  <2> QED BY <1>3, <1>5, <1>6, ReturnedFacts
<1>8. a \in Allocs(graph) /\ a.data[t] # Null
  BY <1>2 DEF DataSound, Null
<1>9. /\ b \in Allocs(graph)
      /\ b.blocks = Returned(a.blocks, new)
      /\ b.live = a.live \ {x \in a.live : a.data[x] = a.data[t]}
      /\ b.data = a.data /\ b.own = a.own /\ b.view_src = a.view_src
      /\ b.n_children = a.n_children /\ b.n_views = a.n_views /\ b.dropped = a.dropped
  <2>1. Returned(a.blocks, new) \in Seq(Blocks)
    BY <1>7 DEF Table
  <2> QED BY <1>2, <1>8, <2>1, FreeNodeFields
<1>10. b.live = a.live \ {o}
  <2>1. ASSUME NEW x \in a.live PROVE a.data[x] = a.data[t] <=> x = o
    BY <1>1, <1>2, LiveApart
  <2> HIDE DEF b, o
  <2> QED BY <1>9, <2>1
<1> HIDE DEF b, new
<1>11. DataSound(graph, b, D)
  BY <1>9 DEF DataSound, Top, Plain
<1>12. LiveSound(graph, b, D, lo, hi)
  <2>1. \A x : InTensor(graph, b, x, x) <=> InTensor(graph, a, x, x)
    BY <1>9 DEF InTensor, Top
  <2>2. \A s, x : InTensor(graph, b, s, x) <=> InTensor(graph, a, s, x)
    BY <1>9 DEF InTensor, Top
  <2>3. Table(b.blocks) /\ b.live \subseteq Plain(graph, D)
    BY <1>7, <1>9, <1>10 DEF LiveSound
  <2>4. \A s \in b.live : b.own[s] = s /\ lo <= b.data[s] /\ Top(graph, b, s) <= hi
    BY <1>9, <1>10 DEF LiveSound, Top
  <2>5. \A r, s \in b.live : r # s => Disjoint(graph, b, r, s)
    BY <1>9, <1>10 DEF LiveSound, Disjoint, Top
  <2>6. ASSUME NEW x \in Nat, InFree(b.blocks, x)
        PROVE  lo <= x /\ x < hi /\ \A s \in b.live : ~InTensor(graph, b, s, x)
    <3>1. InFree(a.blocks, x) \/ In(new, x)
      BY <1>7, <1>9, <2>6
    <3>2. CASE InFree(a.blocks, x)
      BY <1>10, <2>2, <3>2 DEF LiveSound
    <3>3. CASE In(new, x)
      <4>1. InTensor(graph, a, o, x)
        BY <1>3, <1>4, <3>3
      <4>2. lo <= x /\ x < hi
        <5>1. lo <= a.data[o] /\ Top(graph, a, o) <= hi /\ a.data[o] <= x /\ x < Top(graph, a, o)
          BY <1>1, <4>1 DEF LiveSound, InTensor
        <5> QED BY <1>2, <5>1
      <4>3. \A s \in b.live : ~InTensor(graph, b, s, x)
        BY <1>1, <1>10, <2>2, <4>1, LiveApart
      <4> QED BY <4>2, <4>3
    <3> QED BY <3>1, <3>2, <3>3
  <2>7. ASSUME ~PartOf(graph, b), NEW x \in Nat, lo <= x, x < hi
        PROVE  InFree(b.blocks, x) \/ \E s \in b.live : InTensor(graph, b, s, x)
    <3>1. ~PartOf(graph, a)
      BY <1>9, <2>7 DEF PartOf
    <3>2. InFree(a.blocks, x) \/ \E s \in a.live : InTensor(graph, a, s, x)
      BY <2>7, <3>1 DEF LiveSound
    <3>3. CASE InTensor(graph, a, o, x)
      <4>1. AllocSize(graph, t) >= AllocSize(graph, o)
        <5>1. CASE graph[t].kind = "inplace"
          <6>1. AllocSize(graph, t) \in Nat /\ AllocSize(graph, o) \in Nat
            BY <1>2, Sizes
          <6> QED BY <1>2, <3>1, <5>1, <6>1 DEF PartOf
        <5>2. CASE graph[t].kind # "inplace"
          <6>1. a.view_src[t] = NoTensor
            BY <1>2, <5>2 DEF DataSound, Plain
          <6>2. o = t
            BY <6>1 DEF DataSound
          <6> QED BY <1>2, <6>2
        <5> QED BY <5>1, <5>2
      <4>2. InTensor(graph, a, t, x)
        <5>1. AllocSize(graph, o) \in Nat
          BY <1>2, Sizes
        <5> QED BY <1>2, <3>3, <4>1, <5>1 DEF InTensor, Top
      <4> QED BY <1>3, <1>7, <1>9, <4>2
    <3>4. CASE ~InTensor(graph, a, o, x)
      BY <1>7, <1>9, <1>10, <2>2, <3>2, <3>4
    <3> QED BY <3>3, <3>4
  <2> HIDE DEF o
  <2> QED BY <2>3, <2>4, <2>5, <2>6, <2>7 DEF LiveSound
<1>13. \A y : y \in b.live <=> y \in a.live /\ y # o
  BY <1>10
<1> QED BY <1>9, <1>11, <1>12, <1>13 DEF b
(* What free_node leaves sound and what it leaves alone. *)
LEMMA FreeingFrame ==
    ASSUME WellFormed(graph), NEW a, NEW D, NEW lo \in Int, NEW hi \in Int, NEW t \in Plain(graph, D),
           DataSound(graph, a, D), LiveSound(graph, a, D, lo, hi), a.own[t] \in a.live
    PROVE  /\ DataSound(graph, FreeNode(a, t), D) /\ LiveSound(graph, FreeNode(a, t), D, lo, hi)
           /\ FreeNode(a, t).data = a.data /\ FreeNode(a, t).own = a.own
           /\ FreeNode(a, t).view_src = a.view_src /\ FreeNode(a, t).n_children = a.n_children
           /\ FreeNode(a, t).n_views = a.n_views /\ FreeNode(a, t).dropped = a.dropped
<1>1. LET b == FreeNode(a, t) IN
           /\ DataSound(graph, b, D) /\ LiveSound(graph, b, D, lo, hi)
           /\ \A o : o \in b.live <=> o \in a.live /\ o # a.own[t]
           /\ b.data = a.data /\ b.own = a.own /\ b.view_src = a.view_src
           /\ b.n_children = a.n_children /\ b.n_views = a.n_views /\ b.dropped = a.dropped
  BY Freeing
<1> QED BY <1>1

(* What free_node leaves live. *)
LEMMA FreeingLive ==
    ASSUME WellFormed(graph), NEW a, NEW D, NEW lo \in Int, NEW hi \in Int, NEW t \in Plain(graph, D),
           DataSound(graph, a, D), LiveSound(graph, a, D, lo, hi), a.own[t] \in a.live, NEW o
    PROVE  o \in FreeNode(a, t).live <=> o \in a.live /\ o # a.own[t]
<1>1. LET b == FreeNode(a, t) IN
           /\ DataSound(graph, b, D) /\ LiveSound(graph, b, D, lo, hi)
           /\ \A x : x \in b.live <=> x \in a.live /\ x # a.own[t]
           /\ b.data = a.data /\ b.own = a.own /\ b.view_src = a.view_src
           /\ b.n_children = a.n_children /\ b.n_views = a.n_views /\ b.dropped = a.dropped
  BY Freeing
<1> QED BY <1>1

-------------------------------------------------------------------------------
(* The update of a parent: counting *)

(* The two steps of an update of a parent: it has one child less, and if   *)
(* it is unused then, what it views has one view less.                     *)
Unused(a, t) == a.n_children[t] = 0 /\ a.n_views[t] = 0
LessChild(a, x) == [a EXCEPT !.n_children[x] = @ - 1]
Drops(a, x) == Unused(LessChild(a, x), x) /\ a.view_src[x] # NoTensor
Counted(a, x) ==
    IF Drops(a, x)
    THEN [LessChild(a, x) EXCEPT !.n_views[a.view_src[x]] = @ - 1, !.dropped = @ \cup {x}]
    ELSE LessChild(a, x)

(* What the two steps change. *)
LEMMA CountedFields ==
    ASSUME NEW g, NEW a \in Allocs(g), NEW x \in DOMAIN g,
           a.view_src[x] # NoTensor => a.view_src[x] \in DOMAIN g
    PROVE  LET c == Counted(a, x) IN
           /\ c \in Allocs(g)
           /\ \A t \in DOMAIN g : c.n_children[t] = IF t = x THEN a.n_children[t] - 1 ELSE a.n_children[t]
           /\ Drops(a, x) <=> a.n_children[x] - 1 = 0 /\ a.n_views[x] = 0 /\ a.view_src[x] # NoTensor
           /\ Unused(LessChild(a, x), x) <=> a.n_children[x] - 1 = 0 /\ a.n_views[x] = 0
           /\ Drops(a, x) => /\ \A t \in DOMAIN g : c.n_views[t] =
                                    IF t = a.view_src[x] THEN a.n_views[t] - 1 ELSE a.n_views[t]
                             /\ c.dropped = a.dropped \cup {x}
           /\ ~Drops(a, x) => c.n_views = a.n_views /\ c.dropped = a.dropped
           /\ c.blocks = a.blocks /\ c.live = a.live /\ c.max_size = a.max_size /\ c.failed = a.failed
           /\ c.data = a.data /\ c.own = a.own /\ c.view_src = a.view_src
<1> DEFINE b == LessChild(a, x)
           c == Counted(a, x)
           root == a.view_src[x]
<1>1. /\ b \in Allocs(g) /\ b.n_children = [a.n_children EXCEPT ![x] = @ - 1]
      /\ b.blocks = a.blocks /\ b.live = a.live /\ b.max_size = a.max_size /\ b.failed = a.failed
      /\ b.data = a.data /\ b.own = a.own /\ b.view_src = a.view_src
      /\ b.n_views = a.n_views /\ b.dropped = a.dropped
  <2> DEFINE children == [a.n_children EXCEPT ![x] = @ - 1]
  <2>1. children \in [DOMAIN g -> Int]
    BY DEF Allocs
  <2>2. b = [a EXCEPT !.n_children = children]
    BY DEF LessChild
  <2> HIDE DEF b, children
  <2>3. b \in Allocs(g) /\ b.n_children = children
    BY <2>1, <2>2 DEF Allocs
  <2>4. /\ b.blocks = a.blocks /\ b.live = a.live /\ b.max_size = a.max_size /\ b.failed = a.failed
        /\ b.data = a.data /\ b.own = a.own /\ b.view_src = a.view_src
        /\ b.n_views = a.n_views /\ b.dropped = a.dropped
    BY <2>2 DEF Allocs
  <2> QED BY <2>3, <2>4 DEF children
<1>2. \A t \in DOMAIN g : b.n_children[t] = IF t = x THEN a.n_children[t] - 1 ELSE a.n_children[t]
  BY <1>1 DEF Allocs
<1> HIDE DEF b
<1>3. /\ Drops(a, x) <=> a.n_children[x] - 1 = 0 /\ a.n_views[x] = 0 /\ root # NoTensor
      /\ Unused(LessChild(a, x), x) <=> a.n_children[x] - 1 = 0 /\ a.n_views[x] = 0
  BY <1>1, <1>2 DEF Drops, Unused, b
<1>4. CASE Drops(a, x)
  <2>1. c = [b EXCEPT !.n_views[root] = @ - 1, !.dropped = @ \cup {x}]
    BY <1>4 DEF Counted, b
  <2>2. root \in DOMAIN g
    BY <1>3, <1>4
  <2> HIDE DEF c, root
  <2>3. /\ c \in Allocs(g)
        /\ c.n_views = [b.n_views EXCEPT ![root] = @ - 1] /\ c.dropped = b.dropped \cup {x}
        /\ c.n_children = b.n_children
        /\ c.blocks = b.blocks /\ c.live = b.live /\ c.max_size = b.max_size /\ c.failed = b.failed
        /\ c.data = b.data /\ c.own = b.own /\ c.view_src = b.view_src
    <3> DEFINE views == [b.n_views EXCEPT ![root] = @ - 1]
               dropped == b.dropped \cup {x}
    <3>1. views \in [DOMAIN g -> Int] /\ dropped \in SUBSET DOMAIN g
      BY <1>1, <2>2 DEF Allocs
    <3>2. c = [b EXCEPT !.n_views = views, !.dropped = dropped]
      BY <2>1
    <3> HIDE DEF views, dropped
    <3>3. c \in Allocs(g) /\ c.n_views = views /\ c.dropped = dropped
      BY <1>1, <3>1, <3>2 DEF Allocs
    <3>4. /\ c.n_children = b.n_children
          /\ c.blocks = b.blocks /\ c.live = b.live /\ c.max_size = b.max_size /\ c.failed = b.failed
          /\ c.data = b.data /\ c.own = b.own /\ c.view_src = b.view_src
      BY <1>1, <3>2 DEF Allocs
    <3> QED BY <3>3, <3>4 DEF views, dropped
  <2>4. \A t \in DOMAIN g : c.n_views[t] = IF t = root THEN a.n_views[t] - 1 ELSE a.n_views[t]
    BY <1>1, <2>2, <2>3 DEF Allocs
  <2> QED BY <1>1, <1>2, <1>3, <1>4, <2>3, <2>4 DEF c, root
<1>5. CASE ~Drops(a, x)
  <2>1. c = b
    BY <1>5 DEF Counted, b
  <2> HIDE DEF c
  <2> QED BY <1>1, <1>2, <1>3, <1>5, <2>1 DEF c
<1> QED BY <1>4, <1>5

(* What the two steps leave alone. *)
LEMMA CountedFrame ==
    ASSUME NEW g, NEW a \in Allocs(g), NEW x \in DOMAIN g,
           a.view_src[x] # NoTensor => a.view_src[x] \in DOMAIN g
    PROVE  /\ Counted(a, x) \in Allocs(g)
           /\ Counted(a, x).blocks = a.blocks /\ Counted(a, x).live = a.live
           /\ Counted(a, x).data = a.data /\ Counted(a, x).own = a.own
           /\ Counted(a, x).view_src = a.view_src
           /\ \A t \in DOMAIN g : Counted(a, x).n_children[t] = IF t = x THEN a.n_children[t] - 1 ELSE a.n_children[t]
           /\ Counted(a, x).dropped = a.dropped \/ Counted(a, x).dropped = a.dropped \cup {x}
<1> DEFINE c == Counted(a, x)
<1>1. /\ c \in Allocs(g)
      /\ \A t \in DOMAIN g : c.n_children[t] = IF t = x THEN a.n_children[t] - 1 ELSE a.n_children[t]
      /\ Drops(a, x) => c.dropped = a.dropped \cup {x}
      /\ ~Drops(a, x) => c.dropped = a.dropped
      /\ c.blocks = a.blocks /\ c.live = a.live
      /\ c.data = a.data /\ c.own = a.own /\ c.view_src = a.view_src
  BY CountedFields
<1> HIDE DEF c
<1> QED BY <1>1 DEF c

(* The update of a parent counts, then frees the parent or what it views. *)
LEMMA UpdateParentIs ==
    ASSUME NEW a, NEW x
    PROVE  UpdateParent(a, x) =
            IF ~Unused(LessChild(a, x), x) THEN Counted(a, x)
            ELSE IF a.view_src[x] = NoTensor THEN FreeNode(Counted(a, x), x)
            ELSE IF Unused(Counted(a, x), a.view_src[x]) THEN FreeNode(Counted(a, x), a.view_src[x])
            ELSE Counted(a, x)
BY DEF UpdateParent, Counted, LessChild, Unused, Drops

(* Nothing is in place of, or a view of, a view. *)
LEMMA NoViewsOfViews ==
    ASSUME NEW g, WellFormed(g), NEW a, NEW D, DataSound(g, a, D),
           NEW y \in DOMAIN g, a.view_src[y] # NoTensor
    PROVE  /\ a.view_src[y] \in DOMAIN g /\ g[a.view_src[y]].view_src = NoTensor /\ a.view_src[y] < y
           /\ y \in D => a.own[y] = a.own[a.view_src[y]] /\ a.view_src[y] \in Plain(g, D)
           /\ g[y].view_src = NoTensor => y \in Plain(g, D) /\ a.view_src[y] \in Plain(g, D)
<1>1. CASE g[y].view_src = NoTensor
  BY <1>1 DEF DataSound, Plain
<1>2. CASE g[y].view_src # NoTensor
  <2>1. a.view_src[y] = g[y].view_src
    BY <1>2 DEF DataSound
  <2>2. y \in D => g[y].view_src \in D /\ a.own[y] = a.own[g[y].view_src]
    BY <1>2 DEF DataSound
  <2> QED BY <1>2, <2>1, <2>2, Shaped DEF Plain
<1> QED BY <1>1, <1>2

(* The counts stay what their names say. *)
LEMMA CountedCounts ==
    ASSUME NEW g, WellFormed(g), NEW a, NEW D, NEW R, NEW r \in R,
           DataSound(g, a, D), CountSound(g, a, R)
    PROVE  CountSound(g, Counted(a, SrcOf(g, r)), R \ {r})
<1> DEFINE x == SrcOf(g, r)
           c == Counted(a, x)
           root == a.view_src[x]
<1>1. a \in Allocs(g)
  BY DEF DataSound
<1>2. x \in DOMAIN g /\ a.n_children[x] > 0 /\ x \notin a.dropped
  BY StillRead
<1>3. root # NoTensor => root \in DOMAIN g /\ root < x
  BY <1>2, NoViewsOfViews
<1> HIDE DEF x
<1>4. /\ c \in Allocs(g)
      /\ \A t \in DOMAIN g : c.n_children[t] = IF t = x THEN a.n_children[t] - 1 ELSE a.n_children[t]
      /\ Drops(a, x) <=> a.n_children[x] - 1 = 0 /\ a.n_views[x] = 0 /\ root # NoTensor
      /\ Drops(a, x) => (\A t \in DOMAIN g : c.n_views[t] = IF t = root THEN a.n_views[t] - 1 ELSE a.n_views[t]) /\ c.dropped = a.dropped \cup {x}
      /\ ~Drops(a, x) => c.n_views = a.n_views /\ c.dropped = a.dropped
      /\ c.view_src = a.view_src
  BY <1>1, <1>2, <1>3, CountedFields
<1> HIDE DEF c
<1>5. ASSUME NEW t \in DOMAIN g
      PROVE  c.n_children[t] = Cardinality(ReadsIn(g, R \ {r}, t))
  <2>1. c.n_children[t] = IF t = x THEN a.n_children[t] - 1 ELSE a.n_children[t]
    BY <1>1, <1>2, <1>4 DEF Allocs
  <2> QED BY <2>1, OneReadLess DEF x
<1>6. ASSUME NEW t \in DOMAIN g
      PROVE  c.n_views[t] = Cardinality(Views(g, c, t))
  <2>1. a.n_views[t] = Cardinality(Views(g, a, t)) /\ IsFiniteSet(Views(g, a, t))
    BY Counts DEF CountSound
  <2>2. CASE Drops(a, x) /\ t = root
    <3>1. Views(g, c, t) = Views(g, a, t) \ {x} /\ x \in Views(g, a, t)
      BY <1>2, <1>4, <2>2 DEF Views
    <3>2. c.n_views[t] = a.n_views[t] - 1
      BY <1>1, <1>4, <2>2 DEF Allocs
    <3> QED BY <2>1, <3>1, <3>2, FS_RemoveElement
  <2>3. CASE Drops(a, x) /\ t # root
    <3>1. Views(g, c, t) = Views(g, a, t)
      BY <1>4, <2>3 DEF Views
    <3>2. c.n_views[t] = a.n_views[t]
      BY <1>1, <1>4, <2>3 DEF Allocs
    <3> QED BY <2>1, <3>1, <3>2
  <2>4. CASE ~Drops(a, x)
    <3>1. Views(g, c, t) = Views(g, a, t)
      BY <1>4, <2>4 DEF Views
    <3> QED BY <1>4, <2>1, <2>4, <3>1
  <2> QED BY <2>2, <2>3, <2>4
<1>7. \A t \in c.dropped : c.n_children[t] = 0 /\ c.view_src[t] # NoTensor
  <2> SUFFICES ASSUME NEW t \in c.dropped PROVE c.n_children[t] = 0 /\ c.view_src[t] # NoTensor
    OBVIOUS
  <2>1. CASE t \in a.dropped
    <3>1. a.n_children[t] = 0 /\ a.view_src[t] # NoTensor /\ t # x
      BY <1>2, <2>1 DEF CountSound
    <3>2. t \in DOMAIN g
      BY <1>1, <2>1 DEF Allocs
    <3>3. c.n_children[t] = a.n_children[t]
      BY <1>1, <1>4, <3>1, <3>2 DEF Allocs
    <3> QED BY <1>4, <3>1, <3>3
  <2>2. CASE t \notin a.dropped
    <3>1. t = x /\ Drops(a, x)
      BY <1>4, <2>2
    <3>2. c.n_children[x] = a.n_children[x] - 1
      BY <1>1, <1>2, <1>4 DEF Allocs
    <3> QED BY <1>4, <3>1, <3>2
  <2> QED BY <2>1, <2>2
<1>8. ASSUME NEW t \in DOMAIN g, g[t].view_src # NoTensor, Read(g, t), c.n_children[t] = 0
      PROVE  t \in c.dropped
  <2>1. CASE t = x
    <3>1. Views(g, a, x) = {}
      <4>1. SUFFICES ASSUME NEW y \in DOMAIN g, a.view_src[y] = x PROVE FALSE
      BY DEF Views
    <4>2. x # NoTensor
      BY <1>2, Shaped DEF NoTensor
    <4>3. g[a.view_src[y]].view_src = NoTensor
      BY <4>1, <4>2, NoViewsOfViews
    <4> QED BY <1>8, <2>1, <4>1, <4>3
    <3>2. a.n_views[x] = 0
      BY <1>2, <3>1, Counts
    <3>3. a.view_src[x] # NoTensor
      BY <1>8, <2>1 DEF DataSound
    <3>4. a.n_children[x] - 1 = 0
      BY <1>1, <1>2, <1>4, <1>8, <2>1 DEF Allocs
    <3> QED BY <1>4, <2>1, <3>2, <3>3, <3>4
  <2>2. CASE t # x
    <3>1. a.n_children[t] = 0
      BY <1>1, <1>4, <1>8, <2>2 DEF Allocs
    <3>2. t \in a.dropped
      BY <1>8, <3>1 DEF CountSound
    <3> QED BY <1>4, <3>2
  <2> QED BY <2>1, <2>2
<1>9. R \ {r} \subseteq Reads(g)
  BY DEF CountSound
<1>10. CountSound(g, c, R \ {r})
  BY <1>5, <1>6, <1>7, <1>8, <1>9 DEF CountSound
<1> QED BY <1>10 DEF c, x

(* What stays the same. *)
LEMMA CountedSame ==
    ASSUME NEW g, WellFormed(g), NEW a, NEW D, NEW R, NEW r \in R, NEW lo, NEW hi,
           DataSound(g, a, D), CountSound(g, a, R), LiveSound(g, a, D, lo, hi)
    PROVE  LET c == Counted(a, SrcOf(g, r)) IN
           /\ DataSound(g, c, D) /\ LiveSound(g, c, D, lo, hi)
           /\ c.live = a.live /\ c.data = a.data /\ c.own = a.own /\ c.view_src = a.view_src
<1> DEFINE x == SrcOf(g, r)
           c == Counted(a, x)
<1>1. a \in Allocs(g)
  BY DEF DataSound
<1>2. x \in DOMAIN g
  BY StillRead
<1>3. a.view_src[x] # NoTensor => a.view_src[x] \in DOMAIN g
  BY <1>2, NoViewsOfViews
<1> HIDE DEF x
<1>4. /\ c \in Allocs(g)
      /\ c.blocks = a.blocks /\ c.live = a.live /\ c.data = a.data /\ c.own = a.own /\ c.view_src = a.view_src
  BY <1>1, <1>2, <1>3, CountedFrame
<1> HIDE DEF c
<1>5. DataSound(g, c, D)
  BY <1>4 DEF DataSound, Top, Plain
<1>6. \A s, y : InTensor(g, c, s, y) <=> InTensor(g, a, s, y)
  BY <1>4 DEF InTensor, Top
<1>7. \A s : Top(g, c, s) = Top(g, a, s)
  BY <1>4 DEF Top
<1>8. \A s, t : Disjoint(g, c, s, t) <=> Disjoint(g, a, s, t)
  BY <1>4, <1>7 DEF Disjoint
<1>9. PartOf(g, c) <=> PartOf(g, a)
  BY <1>4 DEF PartOf
<1>10. LiveSound(g, c, D, lo, hi)
  BY <1>4, <1>6, <1>7, <1>8, <1>9 DEF LiveSound
<1> QED BY <1>4, <1>5, <1>10 DEF c, x

(* Counting makes no tensor needed. *)
LEMMA CountedKeeps ==
    ASSUME NEW g, WellFormed(g), NEW a, NEW D, NEW R, NEW r \in R, NEW n, NEW q,
           DataSound(g, a, D), CountSound(g, a, R), Reusing(g, a, D, R, n, q)
    PROVE  LET x == SrcOf(g, r)
               c == Counted(a, x)
           IN  \A s \in DOMAIN g :
                /\ Keeps(g, c, 0, s) => Keeps(g, a, 0, s)
                /\ Keeps(g, c, IF q = x THEN 0 ELSE q, s) => Keeps(g, a, q, s)
<1> DEFINE x == SrcOf(g, r)
           c == Counted(a, x)
<1>1. a \in Allocs(g)
  BY DEF DataSound
<1>2. x \in DOMAIN g /\ Read(g, x) /\ a.n_children[x] > 0 /\ x # 0
  BY StillRead, Shaped
<1>3. a.view_src[x] # NoTensor => a.view_src[x] \in DOMAIN g
  BY <1>2, NoViewsOfViews
<1>4. CountSound(g, c, R \ {r})
  BY CountedCounts
<1> HIDE DEF x
<1>5. /\ \A t \in DOMAIN g : c.n_children[t] = IF t = x THEN a.n_children[t] - 1 ELSE a.n_children[t]
      /\ c.dropped = a.dropped \/ c.dropped = a.dropped \cup {x}
  BY <1>1, <1>2, <1>3, CountedFrame
<1> HIDE DEF c
<1>6. \A s \in DOMAIN g : c.n_children[s] = IF s = x THEN a.n_children[s] - 1 ELSE a.n_children[s]
  BY <1>1, <1>5 DEF Allocs
<1>7. \A s \in DOMAIN g : a.n_children[s] \in Nat
  BY Counts
<1>8. \A s \in DOMAIN g : s # 0
  BY Shaped
<1>9. \A s \in DOMAIN g : c.n_children[s] > 0 => a.n_children[s] > 0
  BY <1>6, <1>7
<1>10. \A p, s : s \in DOMAIN g /\ Keeps(g, c, p, s) => Keeps(g, a, p, s)
  BY <1>5, <1>9 DEF Keeps
<1>11. ASSUME NEW s \in DOMAIN g, q = x, Keeps(g, c, 0, s)
       PROVE  Keeps(g, a, q, s)
  <2>1. a.n_children[x] = 1
    BY <1>2, <1>11 DEF Reusing
  <2>2. c.n_children[x] = 0
    BY <1>2, <1>6, <2>1
  <2>3. CASE c.n_children[s] > 0
    <3>1. s # x
      BY <2>2, <2>3
    <3> QED BY <1>9, <1>11, <2>3, <3>1 DEF Keeps
  <2>4. CASE ~Read(g, s)
    BY <2>4 DEF Keeps
  <2>5. CASE \E y \in DOMAIN g : g[y].view_src = s /\ y \notin c.dropped
    <3>1. PICK y \in DOMAIN g : g[y].view_src = s /\ y \notin c.dropped
      BY <2>5
    <3>2. y # x
      <4>1. SUFFICES ASSUME y = x PROVE FALSE
        OBVIOUS
      <4>2. g[x].view_src # NoTensor
        BY <1>8, <3>1, <4>1 DEF NoTensor
      <4>3. x \in c.dropped
        BY <1>2, <1>4, <2>2, <4>2 DEF CountSound
      <4> QED BY <3>1, <4>1, <4>3
    <3>3. y \notin a.dropped
      BY <1>5, <3>1
    <3> QED BY <1>11, <3>1, <3>2, <3>3 DEF Keeps
  <2> QED BY <1>11, <2>3, <2>4, <2>5 DEF Keeps
<1>12. \A s \in DOMAIN g : Keeps(g, c, IF q = x THEN 0 ELSE q, s) => Keeps(g, a, q, s)
  BY <1>10, <1>11
<1> QED BY <1>10, <1>12 DEF c, x

(* The parent in whose memory n works stays so until it is counted itself. *)
LEMMA CountedReusing ==
    ASSUME NEW g, WellFormed(g), NEW a, NEW D, NEW R, NEW r \in R, NEW n, NEW q,
           DataSound(g, a, D), CountSound(g, a, R), Reusing(g, a, D, R, n, q), r[1] = n
    PROVE  LET x == SrcOf(g, r) IN
           Reusing(g, Counted(a, x), D, R \ {r}, n, IF q = x THEN 0 ELSE q)
<1> DEFINE x == SrcOf(g, r)
           c == Counted(a, x)
<1>1. SUFFICES ASSUME q # 0, q # x PROVE Reusing(g, c, D, R \ {r}, n, q)
  BY DEF Reusing
<1>2. a \in Allocs(g) /\ D \subseteq DOMAIN g
  BY DEF DataSound
<1>3. x \in DOMAIN g /\ x < n /\ x \notin a.dropped
  BY StillRead
<1>4. a.view_src[x] # NoTensor => a.view_src[x] \in DOMAIN g
  BY <1>3, NoViewsOfViews
<1>5. \A i : <<n, i>> \in R /\ g[n].src[i] = q => <<n, i>> # r
  BY <1>1 DEF SrcOf
<1>6. /\ n \in Plain(g, D) /\ q \in D /\ q < n
      /\ a.own[q] = a.own[n]
      /\ a.view_src[n] = IF a.view_src[q] = NoTensor THEN q ELSE a.view_src[q]
      /\ n \notin a.dropped /\ q \notin a.dropped
      /\ a.n_children[q] = 1
      /\ \E i \in DOMAIN g[n].src : <<n, i>> \in R /\ g[n].src[i] = q
      /\ a.view_src[q] # NoTensor => a.n_views[q] = 0
  BY <1>1 DEF Reusing
<1> HIDE DEF x
<1>7. /\ \A t \in DOMAIN g : c.n_children[t] = IF t = x THEN a.n_children[t] - 1 ELSE a.n_children[t]
      /\ c.dropped = a.dropped \/ c.dropped = a.dropped \cup {x}
      /\ Drops(a, x) => (\A t \in DOMAIN g : c.n_views[t] =
            IF t = a.view_src[x] THEN a.n_views[t] - 1 ELSE a.n_views[t]) /\ a.view_src[x] # NoTensor
      /\ ~Drops(a, x) => c.n_views = a.n_views
      /\ c.own = a.own /\ c.view_src = a.view_src
  BY <1>2, <1>3, <1>4, CountedFields
<1> HIDE DEF c
<1>8. q \in DOMAIN g /\ n \in DOMAIN g /\ n # x
  BY <1>2, <1>3, <1>6, Shaped DEF Plain
<1>9. c.n_children[q] = 1
  BY <1>1, <1>2, <1>6, <1>7, <1>8 DEF Allocs
<1>10. n \notin c.dropped /\ q \notin c.dropped
  BY <1>1, <1>6, <1>7, <1>8
<1>11. ASSUME a.view_src[q] # NoTensor PROVE c.n_views[q] = 0
  <2>1. a.n_views[q] = 0 /\ Views(g, a, q) = {}
    BY <1>6, <1>8, <1>11, Counts
  <2>2. a.view_src[x] # q
    BY <1>3, <2>1 DEF Views
  <2> QED BY <1>2, <1>7, <1>8, <2>1, <2>2 DEF Allocs
<1> QED BY <1>5, <1>6, <1>7, <1>9, <1>10, <1>11 DEF Reusing

-------------------------------------------------------------------------------
(* The update of a parent: what is needed *)

(* One of the tensors in the memory of o may still be needed. *)
GroupKept(g, a, D, o) == \E t \in Plain(g, D) : a.own[t] = o /\ Keeps(g, a, 0, t)

(* The other memory is still needed. *)
LEMMA OthersKept ==
    ASSUME NEW g, WellFormed(g), NEW a, NEW D, NEW R, NEW r \in R, NEW lo, NEW hi,
           DataSound(g, a, D), CountSound(g, a, R), LiveSound(g, a, D, lo, hi), NoLeak(g, a, D),
           SrcOf(g, r) \in D \/ g[SrcOf(g, r)].kind = "external",
           NEW o \in a.live, ~(SrcOf(g, r) \in D /\ a.own[SrcOf(g, r)] = o)
    PROVE  GroupKept(g, Counted(a, SrcOf(g, r)), D, o)
<1> DEFINE x == SrcOf(g, r)
           c == Counted(a, x)
<1>1. a \in Allocs(g) /\ D \subseteq DOMAIN g
  BY DEF DataSound
<1>2. x \in DOMAIN g /\ (a.view_src[x] # NoTensor => a.view_src[x] \in DOMAIN g)
  BY StillRead, NoViewsOfViews
<1>3. x \in D \/ g[x].kind = "external"
  OBVIOUS
<1>4. ~(x \in D /\ a.own[x] = o)
  OBVIOUS
<1> HIDE DEF x
<1>5. /\ \A t \in DOMAIN g : c.n_children[t] = IF t = x THEN a.n_children[t] - 1 ELSE a.n_children[t]
      /\ c.dropped = a.dropped \/ c.dropped = a.dropped \cup {x}
      /\ c.own = a.own
  BY <1>1, <1>2, CountedFrame
<1> HIDE DEF c
<1>6. PICK t \in Plain(g, D) : a.own[t] = o /\ Keeps(g, a, 0, t)
  BY DEF NoLeak
<1>7. t \in D /\ t \in DOMAIN g /\ t # x /\ g[t].view_src = NoTensor
  BY <1>1, <1>4, <1>6 DEF Plain
<1>8. Keeps(g, c, 0, t)
  <2>1. CASE a.n_children[t] > 0 /\ t # 0
    BY <1>5, <1>7, <2>1 DEF Keeps
  <2>2. CASE ~Read(g, t)
    BY <2>2 DEF Keeps
  <2>3. CASE \E y \in DOMAIN g : g[y].view_src = t /\ y \notin a.dropped /\ y # 0
    <3>1. PICK y \in DOMAIN g : g[y].view_src = t /\ y \notin a.dropped /\ y # 0
      BY <2>3
    <3>2. y # x
      <4>1. SUFFICES ASSUME y = x PROVE FALSE
        OBVIOUS
      <4>2. t # NoTensor
        BY <1>7, Shaped DEF NoTensor
      <4>3. x \in D
        BY <1>2, <1>3, <3>1, <4>1, <4>2, Shaped
      <4>4. a.own[x] = a.own[t]
        BY <3>1, <4>1, <4>2, <4>3 DEF DataSound
      <4> QED BY <1>4, <1>6, <4>3, <4>4
    <3> QED BY <1>5, <3>1, <3>2 DEF Keeps
  <2> QED BY <1>6, <2>1, <2>2, <2>3 DEF Keeps
<1> QED BY <1>5, <1>6, <1>8 DEF GroupKept, c, x

(* If the parent was not just used in place, then no tensor in its memory  *)
(* but itself, or what it views, may still be needed.                      *)
LEMMA TopKeeps ==
    ASSUME NEW g, WellFormed(g), NEW a, NEW D, NEW R, NEW r \in R, NEW n, NEW q,
           DataSound(g, a, D), CountSound(g, a, R), KeepSound(g, a, D, q), Reusing(g, a, D, R, n, q),
           r[1] = n, SrcOf(g, r) \in D, SrcOf(g, r) # q
    PROVE  LET x == SrcOf(g, r)
               top == IF g[x].view_src = NoTensor THEN x ELSE g[x].view_src
           IN  /\ top \in Plain(g, D) /\ a.own[top] = a.own[x] /\ Keeps(g, a, q, top)
               /\ a.own[x] \in a.live
               /\ \A t \in Plain(g, D) : a.own[t] = a.own[x] => t <= top
               /\ q # 0 => a.own[q] # a.own[x]
               /\ \A t \in Plain(g, D) : a.own[t] = a.own[x] /\ t # top =>
                    ~Keeps(g, a, q, t) /\ ~Keeps(g, a, 0, t)
<1> DEFINE x == SrcOf(g, r)
           top == IF g[x].view_src = NoTensor THEN x ELSE g[x].view_src
<1>1. a \in Allocs(g) /\ D \subseteq DOMAIN g
  BY DEF DataSound
<1>2. x \in DOMAIN g /\ x < n /\ a.n_children[x] > 0 /\ x \notin a.dropped /\ n \in DOMAIN g
  BY StillRead
<1>3. x \in D /\ x # q
  OBVIOUS
<1> HIDE DEF x
<1>4. top \in Plain(g, D) /\ a.own[top] = a.own[x] /\ Keeps(g, a, q, top) /\ top <= x
  <2>1. CASE g[x].view_src = NoTensor
    <3>1. top = x
      BY <2>1
    <3>2. x <= x
      BY <1>2, Shaped
    <3> QED BY <1>2, <1>3, <2>1, <3>1, <3>2 DEF Plain, Keeps
  <2>2. CASE g[x].view_src # NoTensor
    <3>1. top = g[x].view_src /\ top \in DOMAIN g /\ top < x /\ g[top].view_src = NoTensor
      BY <1>2, <2>2, Shaped
    <3>2. top \in D /\ a.own[x] = a.own[top]
      BY <1>3, <2>2, <3>1 DEF DataSound
    <3>3. Keeps(g, a, q, top)
      BY <1>2, <1>3, <3>1 DEF Keeps
    <3>4. top <= x
      BY <1>2, <3>1, Shaped
    <3> QED BY <3>1, <3>2, <3>3, <3>4 DEF Plain
  <2> QED BY <2>1, <2>2
<1> HIDE DEF top
<1>5. \A p, t : Keeps(g, a, p, t) /\ t # 0 => Keeps(g, a, 0, t)
  BY Shaped DEF Keeps
<1>6. \A t \in DOMAIN g : t # 0 /\ t \in Nat
  BY Shaped
<1>7. \A t \in Plain(g, D) : t \in D /\ t \in DOMAIN g /\ g[t].view_src = NoTensor
  BY <1>1 DEF Plain
<1>8. a.own[x] \in a.live
  BY <1>4, <1>5, <1>6, <1>7 DEF KeepSound, LiveDue
<1>9. ASSUME NEW t \in Plain(g, D), a.own[t] = a.own[x] PROVE t <= top
  <2>1. ~(top < t)
    BY <1>4, <1>9 DEF KeepSound, LastKeeps
  <2> QED BY <1>4, <1>6, <1>7, <2>1
<1>10. ASSUME q # 0 PROVE a.own[q] # a.own[x]
  <2>1. n \in Plain(g, D) /\ a.own[q] = a.own[n]
    BY <1>10 DEF Reusing
  <2>2. ~(n <= top)
    BY <1>2, <1>4, <1>6, <1>7
  <2> QED BY <1>9, <2>1, <2>2
<1>11. ASSUME NEW t \in Plain(g, D), a.own[t] = a.own[x], t # top
       PROVE  ~Keeps(g, a, q, t) /\ ~Keeps(g, a, 0, t)
  <2>1. t < top
    BY <1>4, <1>6, <1>7, <1>9, <1>11
  <2>2. ~Keeps(g, a, q, t)
    BY <1>4, <1>11, <2>1 DEF KeepSound, LastKeeps
  <2>3. SUFFICES ASSUME Keeps(g, a, 0, t) PROVE FALSE
    BY <2>2
  <2>4. q # 0
    BY <2>2, <2>3
  <2>5. q \in D
    BY <2>4 DEF Reusing
  <2>6. q = t \/ g[q].view_src = t
    BY <2>2, <2>3 DEF Keeps
  <2>7. a.own[q] = a.own[t]
    <3>1. t # NoTensor
      BY <1>6, <1>7 DEF NoTensor
    <3> QED BY <2>5, <2>6, <3>1 DEF DataSound
  <2> QED BY <1>10, <1>11, <2>4, <2>7
<1> QED BY <1>4, <1>8, <1>9, <1>10, <1>11 DEF top, x

(* What counting does, but that the memory of x itself may be due. *)
LEMMA CountedParts ==
    ASSUME NEW g, WellFormed(g), NEW a, NEW D, NEW R, NEW r \in R, NEW lo, NEW hi, NEW n, NEW q,
           DataSound(g, a, D), CountSound(g, a, R), LiveSound(g, a, D, lo, hi),
           KeepSound(g, a, D, q), Reusing(g, a, D, R, n, q), r[1] = n
    PROVE  LET x == SrcOf(g, r)
               c == Counted(a, x)
               p == IF q = x THEN 0 ELSE q
           IN  /\ DataSound(g, c, D) /\ LiveSound(g, c, D, lo, hi) /\ CountSound(g, c, R \ {r})
               /\ LiveDue(g, c, D) /\ LastKeeps(g, c, D, p) /\ LastViews(g, c, D, p)
               /\ Reusing(g, c, D, R \ {r}, n, p)
<1> DEFINE x == SrcOf(g, r)
           c == Counted(a, x)
           p == IF q = x THEN 0 ELSE q
<1>1. /\ DataSound(g, c, D) /\ LiveSound(g, c, D, lo, hi)
      /\ c.live = a.live /\ c.data = a.data /\ c.own = a.own /\ c.view_src = a.view_src
  BY CountedSame
<1>2. CountSound(g, c, R \ {r})
  BY CountedCounts
<1>3. \A s \in DOMAIN g : /\ Keeps(g, c, 0, s) => Keeps(g, a, 0, s)
                          /\ Keeps(g, c, p, s) => Keeps(g, a, q, s)
  BY CountedKeeps
<1>4. Reusing(g, c, D, R \ {r}, n, p)
  BY CountedReusing
<1>5. \A s \in Plain(g, D) : s \in DOMAIN g
  BY DEF DataSound, Plain
<1>6. a \in Allocs(g)
  BY DEF DataSound
<1>7. x \in DOMAIN g
  BY StillRead
<1>8. a.view_src[x] # NoTensor => a.view_src[x] \in DOMAIN g
  BY <1>7, NoViewsOfViews
<1> HIDE DEF x
<1>9. /\ Drops(a, x) <=> a.n_children[x] - 1 = 0 /\ a.n_views[x] = 0 /\ a.view_src[x] # NoTensor
      /\ Drops(a, x) => c.dropped = a.dropped \cup {x}
      /\ ~Drops(a, x) => c.dropped = a.dropped
  BY <1>6, <1>7, <1>8, CountedFields
<1> HIDE DEF c, p
<1>10. LiveDue(g, c, D)
  BY <1>1, <1>3, <1>5 DEF KeepSound, LiveDue
<1>11. LastKeeps(g, c, D, p)
  BY <1>1, <1>3, <1>5 DEF KeepSound, LastKeeps
<1>12. LastViews(g, c, D, p)
  <2> SUFFICES ASSUME NEW s \in Plain(g, D), NEW t \in Plain(g, D),
                      s < t, c.view_src[s] = c.view_src[t], c.view_src[s] # NoTensor
               PROVE  s \in c.dropped \/ s = p
    BY DEF LastViews
  <2>1. s \in a.dropped \/ s = q
    BY <1>1 DEF KeepSound, LastViews
  <2>2. CASE s \in a.dropped
    BY <1>9, <2>2
  <2>3. CASE s = q /\ q # x
    BY <2>3 DEF p
  <2>4. CASE s = q /\ q = x
    <3>1. q # 0
      BY <1>7, <2>4, Shaped
    <3>2. a.n_children[x] = 1 /\ a.n_views[x] = 0 /\ a.view_src[x] # NoTensor
      BY <1>1, <2>4, <3>1 DEF Reusing
    <3> QED BY <1>9, <2>4, <3>2
  <2> QED BY <2>1, <2>2, <2>3, <2>4
<1> QED BY <1>1, <1>2, <1>4, <1>10, <1>11, <1>12 DEF x, c, p

(* Nothing needs y, when nothing of it is counted. *)
LEMMA NotKept ==
    ASSUME NEW g, WellFormed(g), NEW c, NEW D, NEW R, DataSound(g, c, D), CountSound(g, c, R),
           NEW y \in DOMAIN g, Read(g, y), Unused(c, y)
    PROVE  ~Keeps(g, c, 0, y)
<1>1. c.n_children[y] = 0 /\ Views(g, c, y) = {}
  BY Counts DEF Unused
<1>2. ASSUME NEW z \in DOMAIN g, g[z].view_src = y, z \notin c.dropped PROVE FALSE
  <2>1. y # NoTensor
    BY Shaped DEF NoTensor
  <2>2. c.view_src[z] = y
    BY <1>2, <2>1 DEF DataSound
  <2> QED BY <1>1, <1>2, <2>2 DEF Views
<1>3. ~(c.n_children[y] > 0)
  BY <1>1
<1> QED BY <1>2, <1>3 DEF Keeps

(* Something needs y, when something of it is counted, if nothing is in    *)
(* place of it.                                                            *)
LEMMA StillKept ==
    ASSUME NEW g, WellFormed(g), NEW c, NEW D, NEW R, DataSound(g, c, D), CountSound(g, c, R),
           NEW y \in Plain(g, D), ~Unused(c, y),
           \A t \in Plain(g, D) : c.own[t] = c.own[y] => t <= y
    PROVE  Keeps(g, c, 0, y)
<1>1. y \in DOMAIN g /\ y \in D /\ y \in Nat /\ y # 0
  <2>1. y \in DOMAIN g /\ y \in D
    BY DEF Plain, DataSound
  <2> QED BY <2>1, Shaped
<1>2. c.n_children[y] \in Nat /\ (c.n_views[y] = 0 <=> Views(g, c, y) = {})
  BY <1>1, Counts
<1>3. CASE c.n_children[y] # 0
  BY <1>1, <1>2, <1>3 DEF Keeps
<1>4. CASE c.n_views[y] # 0
  <2>1. PICK z \in DOMAIN g : c.view_src[z] = y /\ z \notin c.dropped
    BY <1>2, <1>4 DEF Views
  <2>2. c.view_src[z] # NoTensor
    BY <1>1, <2>1 DEF NoTensor
  <2>3. CASE g[z].view_src # NoTensor
    <3>1. g[z].view_src = y
      BY <2>1, <2>3 DEF DataSound
    <3>2. z # 0
      BY Shaped
    <3> QED BY <2>1, <3>1, <3>2 DEF Keeps
  <2>4. CASE g[z].view_src = NoTensor
    <3>1. z \in Plain(g, D) /\ y < z /\ c.own[z] = c.own[y]
      BY <2>1, <2>2, <2>4 DEF DataSound, Plain
    <3>2. z \in Nat
      BY Shaped
    <3> QED BY <1>1, <3>1, <3>2
  <2> QED BY <2>3, <2>4
<1> QED BY <1>3, <1>4 DEF Unused

(* The parent that the node works in place of keeps its memory. *)
LEMMA ReusedOutcome ==
    ASSUME WellFormed(graph), NEW a, NEW D, NEW R, NEW r \in R, NEW lo, NEW hi, NEW n, NEW q,
           DataSound(graph, a, D), CountSound(graph, a, R), LiveSound(graph, a, D, lo, hi),
           KeepSound(graph, a, D, q), Reusing(graph, a, D, R, n, q), r[1] = n,
           q # 0, q = SrcOf(graph, r), ReadsOf(graph, n) \subseteq R
    PROVE  LET c == Counted(a, q) IN
           UpdateParent(a, q) = c /\ GroupKept(graph, c, D, a.own[q])
<1> DEFINE c == Counted(a, q)
<1>1. /\ n \in Plain(graph, D) /\ q < n
      /\ a.own[q] = a.own[n]
      /\ a.view_src[n] = IF a.view_src[q] = NoTensor THEN q ELSE a.view_src[q]
      /\ n \notin a.dropped /\ a.n_children[q] = 1
      /\ a.view_src[q] # NoTensor => a.n_views[q] = 0
  BY DEF Reusing
<1>2. a \in Allocs(graph) /\ n \in DOMAIN graph /\ n \in D
  BY <1>1 DEF DataSound, Plain
<1>3. q \in DOMAIN graph /\ r[1] \in DOMAIN graph /\ n # q /\ n # 0 /\ q # 0
  BY <1>1, <1>2, StillRead, Shaped
<1>4. a.view_src[q] # NoTensor => a.view_src[q] \in DOMAIN graph
  BY <1>3, NoViewsOfViews
<1>5. CountSound(graph, c, R \ {r})
  BY CountedCounts
<1>6. /\ \A t \in DOMAIN graph : c.n_children[t] = IF t = q THEN a.n_children[t] - 1 ELSE a.n_children[t]
      /\ c.dropped = a.dropped \/ c.dropped = a.dropped \cup {q}
      /\ c.view_src = a.view_src /\ c.own = a.own
  BY <1>2, <1>3, <1>4, CountedFrame
<1>7. Unused(LessChild(a, q), q) <=> a.n_children[q] - 1 = 0 /\ a.n_views[q] = 0
  BY <1>2, <1>3, <1>4, CountedFields
<1>8. UpdateParent(a, q) =
            IF ~Unused(LessChild(a, q), q) THEN c
            ELSE IF a.view_src[q] = NoTensor THEN FreeNode(c, q)
            ELSE IF Unused(c, a.view_src[q]) THEN FreeNode(c, a.view_src[q])
            ELSE c
  BY UpdateParentIs
<1> HIDE DEF c
<1>9. UpdateParent(a, q) = c
  <2>1. CASE a.view_src[q] = NoTensor
    <3>1. n \in Views(graph, a, q)
      BY <1>1, <1>2, <2>1 DEF Views
    <3>2. a.n_views[q] # 0
      BY <1>3, <3>1, Counts
    <3> QED BY <1>7, <1>8, <3>2
  <2>2. CASE a.view_src[q] # NoTensor
    <3>1. n \in Views(graph, c, a.view_src[q])
      BY <1>1, <1>2, <1>3, <1>6, <2>2 DEF Views
    <3>2. c.n_views[a.view_src[q]] # 0
      BY <1>4, <1>5, <2>2, <3>1, Counts
    <3> QED BY <1>8, <2>2, <3>2 DEF Unused
  <2> QED BY <2>1, <2>2
<1>10. Keeps(graph, c, 0, n)
  <2>1. CASE ~Read(graph, n)
    BY <2>1 DEF Keeps
  <2>2. CASE Read(graph, n)
    <3>1. PICK s \in ReadsOf(graph, n) : s \in R
      BY <2>2 DEF Read
    <3>2. SrcOf(graph, s) = n
      BY <3>1, ReadsFinite DEF ReadsIn
    <3>3. s # r
      BY <1>3, <3>2
    <3>4. s \in R \ {r}
      BY <3>1, <3>3
    <3>5. c.n_children[n] > 0
      BY <1>5, <3>2, <3>4, StillRead
    <3> QED BY <1>3, <3>5 DEF Keeps
  <2> QED BY <2>1, <2>2
<1> QED BY <1>1, <1>6, <1>9, <1>10 DEF GroupKept, c

(* None of them is needed. *)
NoneKeeps(g, a, D, o) == \A t \in Plain(g, D) : a.own[t] = o => ~Keeps(g, a, 0, t)

(* Any other parent's memory is returned if and only if nothing needs it.  *)
LEMMA OtherOutcome ==
    ASSUME WellFormed(graph), NEW a, NEW D, NEW R, NEW r \in R, NEW lo, NEW hi, NEW n, NEW q,
           DataSound(graph, a, D), CountSound(graph, a, R), LiveSound(graph, a, D, lo, hi),
           KeepSound(graph, a, D, q), Reusing(graph, a, D, R, n, q), r[1] = n,
           SrcOf(graph, r) \in D, q # SrcOf(graph, r)
    PROVE  LET x == SrcOf(graph, r)
               c == Counted(a, x)
           IN  /\ a.own[x] \in a.live
               /\ \/ UpdateParent(a, x) = c /\ GroupKept(graph, c, D, a.own[x])
                  \/ \E y \in Plain(graph, D) :
                        /\ UpdateParent(a, x) = FreeNode(c, y)
                        /\ a.own[y] = a.own[x] /\ NoneKeeps(graph, c, D, a.own[x])
<1> DEFINE x == SrcOf(graph, r)
           c == Counted(a, x)
           top == IF graph[x].view_src = NoTensor THEN x ELSE graph[x].view_src
           outcome == \/ UpdateParent(a, x) = c /\ GroupKept(graph, c, D, a.own[x])
                      \/ \E y \in Plain(graph, D) :
                            /\ UpdateParent(a, x) = FreeNode(c, y)
                            /\ a.own[y] = a.own[x] /\ NoneKeeps(graph, c, D, a.own[x])
<1>1. /\ top \in Plain(graph, D) /\ a.own[top] = a.own[x]
      /\ a.own[x] \in a.live
      /\ \A t \in Plain(graph, D) : a.own[t] = a.own[x] => t <= top
      /\ q # 0 => a.own[q] # a.own[x]
      /\ \A t \in Plain(graph, D) : a.own[t] = a.own[x] /\ t # top => ~Keeps(graph, a, 0, t)
  BY TopKeeps
<1>2. a \in Allocs(graph) /\ D \subseteq DOMAIN graph
  BY DEF DataSound
<1>3. x \in DOMAIN graph /\ Read(graph, x) /\ x \in Nat /\ x # 0 /\ x \in D /\ a.n_children[x] > 0
  BY StillRead, Shaped
<1>4. a.view_src[x] # NoTensor => a.view_src[x] \in DOMAIN graph
  BY <1>3, NoViewsOfViews
<1>5. CountSound(graph, c, R \ {r}) /\ DataSound(graph, c, D)
  BY CountedCounts, CountedSame
<1>6. \A s \in DOMAIN graph : Keeps(graph, c, 0, s) => Keeps(graph, a, 0, s)
  BY CountedKeeps
<1> HIDE DEF x
<1>7. /\ c \in Allocs(graph)
      /\ \A t \in DOMAIN graph : c.n_children[t] = IF t = x THEN a.n_children[t] - 1 ELSE a.n_children[t]
      /\ Drops(a, x) <=> a.n_children[x] - 1 = 0 /\ a.n_views[x] = 0 /\ a.view_src[x] # NoTensor
      /\ Unused(LessChild(a, x), x) <=> a.n_children[x] - 1 = 0 /\ a.n_views[x] = 0
      /\ Drops(a, x) => c.dropped = a.dropped \cup {x}
      /\ ~Drops(a, x) => c.n_views = a.n_views /\ c.dropped = a.dropped
      /\ c.own = a.own /\ c.view_src = a.view_src
  BY <1>2, <1>3, <1>4, CountedFields
<1>8. UpdateParent(a, x) =
            IF ~Unused(LessChild(a, x), x) THEN c
            ELSE IF a.view_src[x] = NoTensor THEN FreeNode(c, x)
            ELSE IF Unused(c, a.view_src[x]) THEN FreeNode(c, a.view_src[x])
            ELSE c
  BY UpdateParentIs
<1> HIDE DEF c
<1>9. c.n_children[x] = a.n_children[x] - 1
  BY <1>3, <1>7
<1>10. /\ top \in DOMAIN graph /\ top \in D /\ graph[top].view_src = NoTensor /\ top # 0
       /\ \A t \in Plain(graph, D) : c.own[t] = c.own[top] => t <= top
       /\ graph[x].view_src = NoTensor => top = x
       /\ graph[x].view_src # NoTensor => top = graph[x].view_src /\ a.view_src[x] = top
  <2>1. top \in DOMAIN graph /\ top \in D /\ graph[top].view_src = NoTensor
    BY <1>1, <1>2 DEF Plain
  <2>2. graph[x].view_src # NoTensor => top = graph[x].view_src /\ a.view_src[x] = top
    BY <1>3 DEF DataSound
  <2> QED BY <1>1, <1>7, <2>1, <2>2, Shaped
<1>11. Read(graph, top)
  BY <1>3, <1>10, Shaped
<1> HIDE DEF top
<1>12. ASSUME ~Keeps(graph, c, 0, top) PROVE NoneKeeps(graph, c, D, a.own[x])
  <2>1. \A t \in Plain(graph, D) : t \in DOMAIN graph
    BY <1>2 DEF Plain
  <2> QED BY <1>1, <1>6, <1>7, <1>12, <2>1 DEF NoneKeeps
<1>13. ASSUME Keeps(graph, c, 0, top) PROVE GroupKept(graph, c, D, a.own[x])
  BY <1>1, <1>7, <1>13 DEF GroupKept
<1>14. ASSUME ~Unused(LessChild(a, x), x) PROVE outcome
  <2>1. UpdateParent(a, x) = c
    BY <1>8, <1>14
  <2>2. c.n_children[x] # 0 \/ c.n_views[x] # 0
    BY <1>7, <1>9, <1>14
  <2>3. Keeps(graph, c, 0, top)
    <3>1. CASE graph[x].view_src = NoTensor
      <4>1. ~Unused(c, top)
        BY <1>10, <2>2, <3>1 DEF Unused
      <4> QED BY <1>1, <1>5, <1>10, <4>1, StillKept
    <3>2. CASE graph[x].view_src # NoTensor
      <4>1. Views(graph, c, x) = {}
        <5>1. SUFFICES ASSUME NEW y \in DOMAIN graph, c.view_src[y] = x PROVE FALSE
          BY DEF Views
        <5>2. graph[x].view_src = NoTensor
          BY <1>3, <1>5, <5>1, NoViewsOfViews DEF NoTensor
        <5> QED BY <3>2, <5>2
      <4>2. c.n_views[x] = 0
        BY <1>3, <1>5, <4>1, Counts
      <4>3. c.n_children[x] # 0
        BY <2>2, <4>2
      <4>4. x \notin c.dropped
        BY <1>5, <4>3 DEF CountSound
      <4> QED BY <1>3, <1>10, <3>2, <4>4 DEF Keeps
    <3> QED BY <3>1, <3>2
  <2> QED BY <1>1, <1>13, <2>1, <2>3
<1>15. ASSUME Unused(LessChild(a, x), x), a.view_src[x] = NoTensor PROVE outcome
  <2>1. UpdateParent(a, x) = FreeNode(c, x)
    BY <1>8, <1>15
  <2>2. graph[x].view_src = NoTensor
    BY <1>3, <1>15 DEF DataSound
  <2>3. Unused(c, top)
    BY <1>7, <1>9, <1>10, <1>15, <2>2 DEF Unused
  <2>4. ~Keeps(graph, c, 0, top)
    BY <1>5, <1>10, <1>11, <2>3, NotKept
  <2> QED BY <1>1, <1>10, <1>12, <2>1, <2>2, <2>4
<1>16. ASSUME Drops(a, x), graph[x].view_src # NoTensor PROVE outcome
  <2>1. UpdateParent(a, x) = IF Unused(c, top) THEN FreeNode(c, top) ELSE c
    BY <1>7, <1>8, <1>10, <1>16
  <2>2. CASE Unused(c, top)
    <3>1. ~Keeps(graph, c, 0, top)
      BY <1>5, <1>10, <1>11, <2>2, NotKept
    <3> QED BY <1>1, <1>12, <2>1, <2>2, <3>1
  <2>3. CASE ~Unused(c, top)
    <3>1. Keeps(graph, c, 0, top)
      BY <1>1, <1>5, <1>10, <2>3, StillKept
    <3> QED BY <1>1, <1>13, <2>1, <2>3, <3>1
  <2> QED BY <2>2, <2>3
<1>17. ASSUME Drops(a, x), graph[x].view_src = NoTensor PROVE outcome
  <2> DEFINE root == a.view_src[x]
  <2>1. root # NoTensor /\ top = x /\ x \in c.dropped
    BY <1>7, <1>10, <1>17
  <2>2. /\ root \in Plain(graph, D) /\ root \in DOMAIN graph /\ root < x /\ root \in Nat
        /\ a.own[x] = a.own[root] /\ x \in Plain(graph, D)
    <3>1. root \in Plain(graph, D) /\ root < x /\ a.own[x] = a.own[root] /\ x \in Plain(graph, D)
      BY <1>3, <1>17, <2>1 DEF DataSound, Plain
    <3>2. root \in DOMAIN graph
      BY <1>4, <2>1
    <3> QED BY <3>1, <3>2, Shaped
  <2>3. ~Keeps(graph, a, 0, root)
    BY <1>1, <1>3, <2>1, <2>2
  <2> HIDE DEF root
  <2>4. c.n_children[root] = 0
    <3>1. a.n_children[root] \in Nat /\ root # 0
      BY <2>1, <2>2, Counts DEF NoTensor
    <3>2. a.n_children[root] = 0
      BY <2>3, <3>1 DEF Keeps
    <3>3. root # x
      BY <1>3, <2>2
    <3> QED BY <1>7, <2>2, <3>2, <3>3
  <2>5. Views(graph, c, root) = {}
    <3>1. SUFFICES ASSUME NEW z \in DOMAIN graph, a.view_src[z] = root, z \notin c.dropped PROVE FALSE
      BY <1>7 DEF Views
    <3>2. z # x /\ z \notin a.dropped
      BY <1>7, <1>17, <2>1, <3>1
    <3>3. CASE graph[z].view_src # NoTensor
      <4>1. graph[z].view_src = root /\ z # 0
        BY <3>1, <3>3, Shaped DEF DataSound
      <4> QED BY <2>3, <3>2, <4>1 DEF Keeps
    <3>4. CASE graph[z].view_src = NoTensor
      <4>1. z \in Plain(graph, D) /\ a.own[z] = a.own[x]
        BY <2>1, <2>2, <3>1, <3>4 DEF DataSound, Plain
      <4>2. z < x
        <5>1. z <= x /\ z \in Nat
          BY <1>1, <2>1, <4>1, Shaped
        <5> QED BY <1>3, <3>2, <5>1
      <4>3. z = q
        BY <2>1, <2>2, <3>1, <3>2, <4>1, <4>2 DEF KeepSound, LastViews, root
      <4>4. z # 0
        BY Shaped
      <4> QED BY <1>1, <4>1, <4>3, <4>4
    <3> QED BY <3>3, <3>4
  <2>6. Unused(c, root)
    BY <1>5, <2>2, <2>4, <2>5, Counts DEF Unused
  <2>7. UpdateParent(a, x) = FreeNode(c, root)
    BY <1>7, <1>8, <1>17, <2>6 DEF root
  <2>8. ~Keeps(graph, c, 0, top)
    <3>1. c.n_views[x] = 0
      <4>1. Views(graph, a, x) = {}
        BY <1>3, <1>7, <1>17, Counts
      <4>2. Views(graph, c, x) = {}
        BY <1>7, <1>17, <4>1 DEF Views
      <4> QED BY <1>3, <1>5, <4>2, Counts
    <3>2. Unused(c, top)
      BY <1>7, <1>9, <1>17, <2>1, <3>1 DEF Unused
    <3> QED BY <1>5, <1>10, <1>11, <3>2, NotKept
  <2> QED BY <1>1, <1>12, <2>2, <2>7, <2>8
<1>18. Unused(LessChild(a, x), x) /\ a.view_src[x] # NoTensor => Drops(a, x)
  BY DEF Drops
<1>19. outcome
  BY <1>14, <1>15, <1>16, <1>17, <1>18
<1> QED BY <1>1, <1>19 DEF x, c

(* The allocator's state is sound, with the tensors D allocated and the    *)
(* reads R to come, while the parents of n are counted.                    *)
Sound(g, a, D, R, n, q, lo, hi) ==
    /\ DataSound(g, a, D) /\ LiveSound(g, a, D, lo, hi) /\ CountSound(g, a, R)
    /\ KeepSound(g, a, D, q) /\ Reusing(g, a, D, R, n, q)

(* What is known of the counts does not depend on the memory. *)
LEMMA SameCounts ==
    ASSUME NEW g, NEW a, NEW b, NEW D, NEW R, NEW n, NEW q,
           b.data = a.data, b.own = a.own, b.view_src = a.view_src,
           b.n_children = a.n_children, b.n_views = a.n_views, b.dropped = a.dropped
    PROVE  /\ CountSound(g, a, R) => CountSound(g, b, R)
           /\ \A p, t : Keeps(g, b, p, t) <=> Keeps(g, a, p, t)
           /\ LastKeeps(g, a, D, q) => LastKeeps(g, b, D, q)
           /\ LastViews(g, a, D, q) => LastViews(g, b, D, q)
           /\ Reusing(g, a, D, R, n, q) => Reusing(g, b, D, R, n, q)
<1>1. CountSound(g, a, R) => CountSound(g, b, R)
  BY DEF CountSound, Views
<1>2. \A p, t : Keeps(g, b, p, t) <=> Keeps(g, a, p, t)
  BY DEF Keeps
<1>3. LastKeeps(g, a, D, q) => LastKeeps(g, b, D, q)
  BY <1>2 DEF LastKeeps
<1>4. LastViews(g, a, D, q) => LastViews(g, b, D, q)
  BY DEF LastViews
<1>5. Reusing(g, a, D, R, n, q) => Reusing(g, b, D, R, n, q)
  BY DEF Reusing
<1> QED BY <1>1, <1>2, <1>3, <1>4, <1>5

(* What the update of a parent of n changes, and what is q's then p's. *)
Updated(a, b, D, R, n, q, p, lo, hi) ==
    /\ Sound(graph, b, D, R, n, p, lo, hi)
    /\ b.data = a.data /\ b.own = a.own /\ b.view_src = a.view_src
    /\ \A s \in DOMAIN graph : Keeps(graph, b, p, s) => Keeps(graph, a, q, s)

(* The update of a parent keeps the allocator sound. Its memory is         *)
(* returned if and only if nothing needs it: that is the hard case of the  *)
(* whole proof, and where the three ways to need memory (a reader, a view, *)
(* an op in place) meet.                                                   *)
LEMMA Updating ==
    ASSUME WellFormed(graph), NEW a, NEW D, NEW R, NEW r \in R, NEW lo \in Int, NEW hi \in Int,
           NEW n, NEW q, Sound(graph, a, D, R, n, q, lo, hi), r[1] = n,
           SrcOf(graph, r) \in D \/ graph[SrcOf(graph, r)].kind = "external",
           ReadsOf(graph, n) \subseteq R
    PROVE  LET x == SrcOf(graph, r)
           IN  Updated(a, UpdateParent(a, x), D, R \ {r}, n, q, IF q = x THEN 0 ELSE q, lo, hi)
<1> DEFINE x == SrcOf(graph, r)
           c == Counted(a, x)
           b == UpdateParent(a, x)
           p == IF q = x THEN 0 ELSE q
           goal == /\ Sound(graph, b, D, R \ {r}, n, p, lo, hi)
                   /\ b.data = a.data /\ b.own = a.own /\ b.view_src = a.view_src
                   /\ \A s \in DOMAIN graph : Keeps(graph, b, p, s) => Keeps(graph, a, q, s)
<1>1. /\ DataSound(graph, a, D) /\ LiveSound(graph, a, D, lo, hi) /\ CountSound(graph, a, R)
      /\ KeepSound(graph, a, D, q) /\ NoLeak(graph, a, D) /\ Reusing(graph, a, D, R, n, q)
  BY DEF Sound, KeepSound
<1>2. /\ DataSound(graph, c, D) /\ LiveSound(graph, c, D, lo, hi) /\ CountSound(graph, c, R \ {r})
      /\ LiveDue(graph, c, D) /\ LastKeeps(graph, c, D, p) /\ LastViews(graph, c, D, p)
      /\ Reusing(graph, c, D, R \ {r}, n, p)
  BY <1>1, CountedParts
<1>3. /\ DataSound(graph, c, D) /\ LiveSound(graph, c, D, lo, hi)
      /\ c.live = a.live /\ c.data = a.data /\ c.own = a.own /\ c.view_src = a.view_src
  BY <1>1, CountedSame
<1>4. \A s \in DOMAIN graph : Keeps(graph, c, p, s) => Keeps(graph, a, q, s)
  BY <1>1, CountedKeeps
<1>5. \A o \in a.live : ~(x \in D /\ a.own[x] = o) => GroupKept(graph, c, D, o)
  BY <1>1, OthersKept
<1>6. x \in DOMAIN graph /\ x # 0
  BY <1>1, StillRead, Shaped
<1>7. /\ x \in D /\ x # q =>
            /\ a.own[x] \in a.live
            /\ \/ b = c /\ GroupKept(graph, c, D, a.own[x])
               \/ \E y \in Plain(graph, D) :
                    b = FreeNode(c, y) /\ a.own[y] = a.own[x] /\ NoneKeeps(graph, c, D, a.own[x])
      /\ x = q => b = c /\ GroupKept(graph, c, D, a.own[x])
  <2>1. ASSUME x \in D, x # q
        PROVE  /\ a.own[x] \in a.live
               /\ \/ b = c /\ GroupKept(graph, c, D, a.own[x])
                  \/ \E y \in Plain(graph, D) :
                        b = FreeNode(c, y) /\ a.own[y] = a.own[x] /\ NoneKeeps(graph, c, D, a.own[x])
    BY <1>1, <2>1, OtherOutcome
  <2>2. ASSUME x = q PROVE b = c /\ GroupKept(graph, c, D, a.own[x])
    <3>1. q # 0 /\ q = SrcOf(graph, r)
      BY <1>6, <2>2
    <3>2. UpdateParent(a, q) = Counted(a, q) /\ GroupKept(graph, Counted(a, q), D, a.own[q])
      BY <1>1, <3>1, ReusedOutcome
    <3> QED BY <2>2, <3>2
  <2> QED BY <2>1, <2>2
<1>8. x \notin D => b = c
  <2> SUFFICES ASSUME x \notin D PROVE b = c
    OBVIOUS
  <2>1. a.data[x] = Null /\ a.view_src[x] = NoTensor
    <3>1. graph[x].view_src = NoTensor
      BY <1>6, Shaped
    <3> QED BY <1>1, <1>6, <3>1 DEF DataSound
  <2>2. b = c \/ b = FreeNode(c, x)
    BY <2>1, UpdateParentIs
  <2>3. c.data[x] = Null
    BY <1>3, <2>1
  <2> HIDE DEF c
  <2>4. FreeNode(c, x) = c
    BY <2>3 DEF FreeNode
  <2> QED BY <2>2, <2>4
<1> HIDE DEF x, c, b, p
<1>9. ASSUME b = c, x \in D => GroupKept(graph, c, D, a.own[x]) PROVE goal
  <2>1. NoLeak(graph, c, D)
    <3>1. \A o \in a.live : GroupKept(graph, c, D, o)
      BY <1>5, <1>9
    <3> QED BY <1>3, <3>1 DEF NoLeak, GroupKept
  <2>2. KeepSound(graph, c, D, p)
    BY <1>2, <2>1 DEF KeepSound
  <2> QED BY <1>2, <1>3, <1>4, <1>9, <2>2 DEF Sound
<1>10. ASSUME x \in D, a.own[x] \in a.live, NoneKeeps(graph, c, D, a.own[x]),
              NEW y \in Plain(graph, D), a.own[y] = a.own[x], b = FreeNode(c, y)
       PROVE  goal
  <2>1. c.own[y] \in c.live
    BY <1>3, <1>10
  <2>2. /\ DataSound(graph, b, D) /\ LiveSound(graph, b, D, lo, hi)
        /\ \A o : o \in b.live <=> o \in c.live /\ o # a.own[x]
        /\ b.data = c.data /\ b.own = c.own /\ b.view_src = c.view_src
        /\ b.n_children = c.n_children /\ b.n_views = c.n_views /\ b.dropped = c.dropped
    <3>1. /\ DataSound(graph, FreeNode(c, y), D) /\ LiveSound(graph, FreeNode(c, y), D, lo, hi)
          /\ \A o : o \in FreeNode(c, y).live <=> o \in c.live /\ o # c.own[y]
          /\ FreeNode(c, y).data = c.data /\ FreeNode(c, y).own = c.own
          /\ FreeNode(c, y).view_src = c.view_src /\ FreeNode(c, y).n_children = c.n_children
          /\ FreeNode(c, y).n_views = c.n_views /\ FreeNode(c, y).dropped = c.dropped
      <4>1. DataSound(graph, c, D) /\ LiveSound(graph, c, D, lo, hi)
        BY <1>2
      <4>2. lo \in Int /\ hi \in Int /\ y \in Plain(graph, D)
        OBVIOUS
      <4>3. /\ DataSound(graph, FreeNode(c, y), D) /\ LiveSound(graph, FreeNode(c, y), D, lo, hi)
            /\ FreeNode(c, y).data = c.data /\ FreeNode(c, y).own = c.own
            /\ FreeNode(c, y).view_src = c.view_src /\ FreeNode(c, y).n_children = c.n_children
            /\ FreeNode(c, y).n_views = c.n_views /\ FreeNode(c, y).dropped = c.dropped
        BY <2>1, <4>1, <4>2, FreeingFrame
      <4>4. ASSUME NEW o PROVE o \in FreeNode(c, y).live <=> o \in c.live /\ o # c.own[y]
        BY <2>1, <4>1, <4>2, FreeingLive
      <4> QED BY <4>3, <4>4
    <3>2. c.own[y] = a.own[x] /\ b = FreeNode(c, y)
      BY <1>3, <1>10
    <3> QED BY <3>1, <3>2
  <2>3. /\ CountSound(graph, b, R \ {r})
        /\ \A k, t : Keeps(graph, b, k, t) <=> Keeps(graph, c, k, t)
        /\ LastKeeps(graph, b, D, p)
        /\ LastViews(graph, b, D, p)
        /\ Reusing(graph, b, D, R \ {r}, n, p)
    BY <1>2, <2>2, SameCounts
  <2>4. LiveDue(graph, b, D)
    BY <1>2, <1>3, <1>10, <2>2, <2>3 DEF LiveDue, NoneKeeps
  <2>5. NoLeak(graph, b, D)
    <3>1. \A o \in b.live : GroupKept(graph, c, D, o)
      BY <1>3, <1>5, <2>2
    <3> QED BY <2>2, <2>3, <3>1 DEF NoLeak, GroupKept
  <2>6. KeepSound(graph, b, D, p)
    BY <2>3, <2>4, <2>5 DEF KeepSound
  <2> QED BY <1>3, <1>4, <2>2, <2>3, <2>6 DEF Sound
<1>11. goal
  <2> HIDE DEF goal
  <2>1. CASE x \notin D
    BY <1>8, <1>9, <2>1
  <2>2. CASE x \in D /\ x = q
    BY <1>7, <1>9, <2>2
  <2>3. CASE x \in D /\ x # q
    <3>1. CASE b = c /\ GroupKept(graph, c, D, a.own[x])
      BY <1>9, <3>1
    <3>2. CASE \E y \in Plain(graph, D) :
                    b = FreeNode(c, y) /\ a.own[y] = a.own[x] /\ NoneKeeps(graph, c, D, a.own[x])
      BY <1>7, <1>10, <2>3, <3>2
    <3> QED BY <1>7, <2>3, <3>1, <3>2
  <2> QED BY <2>1, <2>2, <2>3
<1>12. Updated(a, b, D, R \ {r}, n, q, p, lo, hi)
  <2> HIDE DEF b, p, x, c
  <2> QED BY <1>11 DEF Updated
<1> QED BY <1>12 DEF x, b, p

-------------------------------------------------------------------------------
(* allocate_node *)

(* The greater of two numbers. *)
LEMMA MaxOfTwo ==
    ASSUME NEW x \in Int, NEW y \in Int
    PROVE  Max({x, y}) \in {x, y} /\ x <= Max({x, y}) /\ y <= Max({x, y})
<1>1. \E z \in {x, y} : \A w \in {x, y} : z >= w
  <2>1. CASE x >= y
    BY <2>1
  <2>2. CASE y >= x
    BY <2>2
  <2> QED BY <2>1, <2>2
<1>2. Max({x, y}) \in {x, y} /\ \A w \in {x, y} : Max({x, y}) >= w
  BY <1>1 DEF Max
<1> QED BY <1>2

(* What ggml_tallocr_alloc changes, when it finds a block. *)
LEMMA AllocFields ==
    ASSUME NEW g, WellFormed(g), NEW a \in Allocs(g), Table(a.blocks), NEW t \in DOMAIN g,
           NEW buffer \in Nat, BestFit(a.blocks, AllocSize(g, t)) # 0, a.own[t] = t,
           \A x \in Nat : InFree(a.blocks, x) => buffer <= x
    PROVE  LET b == Alloc(g, buffer, a, t)
               i == BestFit(a.blocks, AllocSize(g, t))
           IN  /\ b \in Allocs(g)
               /\ i \in 1 .. Len(a.blocks) /\ a.blocks[i].size >= AllocSize(g, t)
               /\ a.blocks[i].addr \in Nat
               /\ b.blocks = Taken(a.blocks, i, AllocSize(g, t))
               /\ b.data[t] = a.blocks[i].addr
               /\ \A s \in DOMAIN g : s # t => b.data[s] = a.data[s]
               /\ b.own = a.own /\ \A s : s \in b.live <=> s \in a.live \/ s = t
               /\ b.view_src = a.view_src /\ b.n_children = a.n_children
               /\ b.n_views = a.n_views /\ b.dropped = a.dropped /\ b.failed = a.failed
<1> DEFINE n == AllocSize(g, t)
           i == BestFit(a.blocks, n)
           block == a.blocks[i]
           blocks == Taken(a.blocks, i, n)
           data == [a.data EXCEPT ![t] = block.addr]
           own == [a.own EXCEPT ![t] = t]
           max_size == Max({a.max_size, block.addr - buffer + n})
           live == a.live \cup {t}
           b == [a EXCEPT !.data = data, !.own = own, !.blocks = blocks, !.max_size = max_size, !.live = live]
<1>1. n \in Nat \ {0}
  BY Sizes
<1>2. a.blocks \in Seq(Blocks)
  BY DEF Allocs
<1>3. i \in 1 .. Len(a.blocks) /\ block.size >= n
  BY <1>1, <1>2, BestFitFacts
<1>4. block \in Blocks /\ block.addr \in Nat /\ block.size \in Nat
  <2> HIDE DEF i, n
  <2>1. i \in DOMAIN a.blocks
    BY <1>2, <1>3
  <2>2. block \in Blocks
    BY <1>2, <2>1
  <2> QED BY <2>2 DEF Blocks
<1>5. Alloc(g, buffer, a, t) = b
  <2>1. i # 0
    OBVIOUS
  <2>2. Alloc(g, buffer, a, t) =
            [a EXCEPT
                !.data[t] = block.addr,
                !.own[t] = t,
                !.blocks = blocks,
                !.max_size = max_size,
                !.live = live]
    BY <2>1 DEF Alloc, Taken, Block
  <2> HIDE DEF blocks, max_size, live, block
  <2> QED BY <2>2
<1>6. blocks \in Seq(Blocks) /\ Table(blocks) /\ \A x \in Nat : block.addr <= x /\ x < block.addr + n => InFree(a.blocks, x)
  <2> HIDE DEF n, i
  <2> QED BY <1>1, <1>3, TakenFacts DEF Table
<1>7. buffer <= block.addr
  BY <1>1, <1>4, <1>6
<1>8. max_size \in Nat
  <2>1. block.addr - buffer + n \in Nat
    BY <1>1, <1>4, <1>7
  <2>2. a.max_size \in Nat
    BY DEF Allocs
  <2> DEFINE e == block.addr - buffer + n
             m == a.max_size
  <2>3. max_size = Max({m, e})
    OBVIOUS
  <2>4. e \in Int /\ e \in Nat /\ m \in Int /\ m \in Nat
    BY <2>1, <2>2
  <2> HIDE DEF e, m, max_size
  <2>5. Max({m, e}) \in {m, e} /\ m <= Max({m, e})
    BY <2>4, MaxOfTwo
  <2> QED BY <2>3, <2>4, <2>5
<1>9. data \in [DOMAIN g -> Int]
  BY <1>4 DEF Allocs
<1>10. own = a.own /\ own \in [DOMAIN g -> DOMAIN g]
  BY DEF Allocs
<1>11. live \in SUBSET DOMAIN g
  BY DEF Allocs
<1>12. data[t] = block.addr /\ \A s \in DOMAIN g : s # t => data[s] = a.data[s]
  BY DEF Allocs
<1>13. \A s : s \in live <=> s \in a.live \/ s = t
  OBVIOUS
<1> HIDE DEF n, i, block, blocks, data, own, max_size, live
<1>14. b \in Allocs(g)
  BY <1>6, <1>8, <1>9, <1>10, <1>11 DEF Allocs
<1>15. /\ b.blocks = blocks /\ b.data = data /\ b.own = own /\ b.live = live
       /\ b.view_src = a.view_src /\ b.n_children = a.n_children
       /\ b.n_views = a.n_views /\ b.dropped = a.dropped /\ b.failed = a.failed
  BY DEF Allocs
<1> HIDE DEF b
<1>16. /\ b \in Allocs(g)
       /\ i \in 1 .. Len(a.blocks) /\ block.size >= n
       /\ block.addr \in Nat
       /\ b.blocks = blocks
       /\ b.data[t] = block.addr
       /\ \A s \in DOMAIN g : s # t => b.data[s] = a.data[s]
       /\ b.own = a.own /\ \A s : s \in b.live <=> s \in a.live \/ s = t
       /\ b.view_src = a.view_src /\ b.n_children = a.n_children
       /\ b.n_views = a.n_views /\ b.dropped = a.dropped /\ b.failed = a.failed
  BY <1>3, <1>4, <1>10, <1>12, <1>13, <1>14, <1>15
<1> QED BY <1>5, <1>16 DEF i, block, blocks, n

(* A tensor none of whose reads is counted is still needed. *)
LEMMA UnreadKeeps ==
    ASSUME NEW g, WellFormed(g), NEW a, NEW R, CountSound(g, a, R), NEW t \in DOMAIN g,
           ReadsOf(g, t) \subseteq R
    PROVE  Keeps(g, a, 0, t)
<1>1. t # 0
  BY Shaped
<1>2. CASE ~Read(g, t)
  BY <1>2 DEF Keeps
<1>3. CASE Read(g, t)
  <2>1. PICK s \in ReadsOf(g, t) : s \in R
    BY <1>3 DEF Read
  <2>2. SrcOf(g, s) = t
    BY <2>1, ReadsFinite DEF ReadsIn
  <2>3. a.n_children[t] > 0
    BY <2>1, <2>2, StillRead
  <2> QED BY <1>1, <2>3 DEF Keeps
<1> QED BY <1>2, <1>3

(* Tensor t is placed; the others stay where they are. *)
PlacedSound(g, a, b, D, R, t, n, q, lo, hi) ==
    /\ Sound(g, b, D \cup {t}, R, n, q, lo, hi)
    /\ \A s \in DOMAIN g : s # t => b.data[s] = a.data[s]
    /\ \A s \in DOMAIN g : Keeps(g, b, q, s) => Keeps(g, a, 0, s)

(* ggml_tallocr_alloc keeps the allocator sound. *)
LEMMA AllocSound ==
    ASSUME NEW g, WellFormed(g), NEW a, NEW D, NEW R, NEW n, NEW m, NEW lo \in Int, NEW hi \in Int,
           Sound(g, a, D, R, n, 0, lo, hi), NEW t \in DOMAIN g, t \notin D, g[t].view_src = NoTensor,
           ReadsOf(g, t) \subseteq R, NEW buffer \in Nat, buffer <= lo,
           BestFit(a.blocks, AllocSize(g, t)) # 0
    PROVE  PlacedSound(g, a, Alloc(g, buffer, a, t), D, R, t, m, 0, lo, hi)
<1> DEFINE b == Alloc(g, buffer, a, t)
           E == D \cup {t}
           k == AllocSize(g, t)
           i == BestFit(a.blocks, k)
<1>1. /\ DataSound(g, a, D) /\ LiveSound(g, a, D, lo, hi) /\ CountSound(g, a, R)
      /\ LiveDue(g, a, D) /\ LastKeeps(g, a, D, 0) /\ NoLeak(g, a, D) /\ LastViews(g, a, D, 0)
  BY DEF Sound, KeepSound
<1>2. a \in Allocs(g) /\ a.own[t] = t /\ Table(a.blocks) /\ D \subseteq DOMAIN g /\ a.view_src[t] = NoTensor
  BY <1>1 DEF DataSound, LiveSound
<1>3. \A x \in Nat : InFree(a.blocks, x) => buffer <= x
  <2> SUFFICES ASSUME NEW x \in Nat, InFree(a.blocks, x) PROVE buffer <= x
    OBVIOUS
  <2>1. lo <= x
    BY <1>1 DEF LiveSound
  <2> QED BY <2>1
<1>4. k \in Nat \ {0}
  BY Sizes
<1>5. /\ b \in Allocs(g)
      /\ i \in 1 .. Len(a.blocks) /\ a.blocks[i].size >= k
      /\ a.blocks[i].addr \in Nat
      /\ b.blocks = Taken(a.blocks, i, k)
      /\ b.data[t] = a.blocks[i].addr
      /\ \A s \in DOMAIN g : s # t => b.data[s] = a.data[s]
      /\ b.own = a.own /\ \A s : s \in b.live <=> s \in a.live \/ s = t
      /\ b.view_src = a.view_src /\ b.n_children = a.n_children
      /\ b.n_views = a.n_views /\ b.dropped = a.dropped
  <2>1. LET f == Alloc(g, buffer, a, t)
            j == BestFit(a.blocks, AllocSize(g, t))
        IN  /\ f \in Allocs(g)
            /\ j \in 1 .. Len(a.blocks) /\ a.blocks[j].size >= AllocSize(g, t)
            /\ a.blocks[j].addr \in Nat
            /\ f.blocks = Taken(a.blocks, j, AllocSize(g, t))
            /\ f.data[t] = a.blocks[j].addr
            /\ \A s \in DOMAIN g : s # t => f.data[s] = a.data[s]
            /\ f.own = a.own /\ \A s : s \in f.live <=> s \in a.live \/ s = t
            /\ f.view_src = a.view_src /\ f.n_children = a.n_children
            /\ f.n_views = a.n_views /\ f.dropped = a.dropped /\ f.failed = a.failed
    BY <1>2, <1>3, AllocFields
  <2> QED BY <2>1
<1> HIDE DEF b, k, i
<1>6. /\ Table(b.blocks)
      /\ \A x \in Nat : InFree(b.blocks, x) <=> InFree(a.blocks, x) /\ ~(b.data[t] <= x /\ x < b.data[t] + k)
      /\ \A x \in Nat : b.data[t] <= x /\ x < b.data[t] + k => InFree(a.blocks, x)
  BY <1>2, <1>4, <1>5, TakenFacts
<1>7. Top(g, b, t) = b.data[t] + k /\ b.data[t] \in Nat
  BY <1>5 DEF Top, k
<1>8. \A s \in D : s \in DOMAIN g /\ s # t /\ b.data[s] = a.data[s] /\ Top(g, b, s) = Top(g, a, s)
  BY <1>2, <1>5 DEF Top
<1>9. Plain(g, E) = Plain(g, D) \cup {t}
  BY DEF Plain
<1>10. \A s \in D : a.own[s] \in Plain(g, D) /\ a.own[s] \in D /\ a.own[s] # t
  BY <1>1 DEF DataSound, Plain
<1>11. DataSound(g, b, E)
  <2>1. \A s \in DOMAIN g : s \notin E => b.data[s] = Null /\ b.own[s] = s
    BY <1>1, <1>5 DEF DataSound
  <2>2. ASSUME NEW s \in E
        PROVE  /\ b.data[s] \in Nat
               /\ b.own[s] \in Plain(g, E) /\ b.own[b.own[s]] = b.own[s]
               /\ b.data[b.own[s]] <= b.data[s] /\ Top(g, b, s) <= Top(g, b, b.own[s])
    <3>1. CASE s \in D
      <4>1. /\ a.data[s] \in Nat
            /\ a.own[s] \in Plain(g, D) /\ a.own[a.own[s]] = a.own[s]
            /\ a.data[a.own[s]] <= a.data[s] /\ Top(g, a, s) <= Top(g, a, a.own[s])
        BY <1>1, <3>1 DEF DataSound
      <4> QED BY <1>5, <1>8, <1>9, <1>10, <3>1, <4>1
    <3>2. CASE s = t
      <4>1. Top(g, b, t) \in Nat
        BY <1>4, <1>7
      <4>2. b.own[t] = t /\ t \in Plain(g, E)
        BY <1>2, <1>5, <1>9
      <4>3. b.data[t] <= b.data[t] /\ Top(g, b, t) <= Top(g, b, t)
        BY <1>7, <4>1
      <4> QED BY <1>7, <3>2, <4>2, <4>3
    <3> QED BY <3>1, <3>2
  <2>3. ASSUME NEW s \in Plain(g, E)
        PROVE  /\ b.own[s] <= s /\ b.data[s] = b.data[b.own[s]]
               /\ b.view_src[s] = NoTensor => b.own[s] = s
    <3>1. CASE s \in Plain(g, D)
      <4>1. s \in D
        BY <3>1 DEF Plain
      <4> QED BY <1>1, <1>5, <1>8, <1>10, <3>1, <4>1 DEF DataSound
    <3>2. CASE s = t
      <4>1. t \in Nat
        BY Shaped
      <4> QED BY <1>2, <1>5, <3>2, <4>1
    <3> QED BY <1>9, <3>1, <3>2
  <2>4. \A s \in E : g[s].view_src # NoTensor =>
            /\ g[s].view_src \in E /\ b.own[s] = b.own[g[s].view_src]
            /\ b.data[s] = b.data[g[s].view_src] + g[s].offs
    BY <1>1, <1>5, <1>8 DEF DataSound
  <2>5. \A s \in DOMAIN g : g[s].view_src # NoTensor => b.view_src[s] = g[s].view_src
    BY <1>1, <1>5 DEF DataSound
  <2>6. \A s \in DOMAIN g : g[s].view_src = NoTensor /\ b.view_src[s] # NoTensor =>
            /\ s \in E /\ g[s].kind = "inplace"
            /\ b.view_src[s] \in Plain(g, E) /\ b.view_src[s] < s /\ b.own[s] = b.own[b.view_src[s]]
    BY <1>1, <1>5, <1>9 DEF DataSound
  <2>7. E \subseteq DOMAIN g
    BY <1>2
  <2> HIDE DEF E
  <2> QED BY <1>5, <2>1, <2>2, <2>3, <2>4, <2>5, <2>6, <2>7 DEF DataSound
<1>12. \A s \in a.live : s \in D /\ s # t /\ (\A x : InTensor(g, b, s, x) <=> InTensor(g, a, s, x))
  <2>1. \A s \in a.live : s \in D
    BY <1>1 DEF LiveSound, Plain
  <2> QED BY <1>8, <2>1 DEF InTensor
<1>13. \A x : InTensor(g, b, t, x) <=> b.data[t] <= x /\ x < b.data[t] + k
  BY <1>7 DEF InTensor
<1>14. LiveSound(g, b, E, lo, hi)
  <2>1. b.live \subseteq Plain(g, E)
    BY <1>1, <1>5, <1>9 DEF LiveSound
  <2>2. ASSUME NEW s \in b.live PROVE b.own[s] = s /\ lo <= b.data[s] /\ Top(g, b, s) <= hi
    <3>1. CASE s \in a.live
      BY <1>1, <1>5, <1>8, <1>12, <3>1 DEF LiveSound
    <3>2. CASE s = t
      <4>1. InFree(a.blocks, b.data[t]) /\ InFree(a.blocks, b.data[t] + k - 1)
        <5>1. b.data[t] <= b.data[t] /\ b.data[t] < b.data[t] + k
          BY <1>4, <1>7
        <5>2. /\ b.data[t] + k - 1 \in Nat
              /\ b.data[t] <= b.data[t] + k - 1 /\ b.data[t] + k - 1 < b.data[t] + k
          BY <1>4, <1>7
        <5> QED BY <1>6, <1>7, <5>1, <5>2
      <4>2. lo <= b.data[t] /\ b.data[t] + k - 1 < hi
        <5>1. b.data[t] + k - 1 \in Nat
          BY <1>4, <1>7
        <5> QED BY <1>1, <1>7, <4>1, <5>1 DEF LiveSound
      <4>3. Top(g, b, t) <= hi
        BY <1>4, <1>7, <4>2
      <4> QED BY <1>2, <1>5, <3>2, <4>2, <4>3
    <3> QED BY <1>5, <3>1, <3>2
  <2>3. ASSUME NEW s \in a.live PROVE Disjoint(g, b, s, t) /\ Disjoint(g, b, t, s)
    <3>1. \A x \in Nat : ~(InTensor(g, b, s, x) /\ InTensor(g, b, t, x))
      BY <1>1, <1>6, <1>12, <1>13 DEF LiveSound
    <3>2. b.data[s] \in Nat /\ Top(g, b, s) \in Nat /\ b.data[s] < Top(g, b, s)
      <4>1. s \in E
        BY <1>12
      <4> QED BY <1>11, <4>1, Inside
    <3>3. Top(g, b, t) \in Nat /\ b.data[t] < Top(g, b, t)
      BY <1>4, <1>7
    <3>4. CASE b.data[s] <= b.data[t]
      <4>1. ~InTensor(g, b, s, b.data[t])
        BY <1>7, <3>1, <3>2, <3>3 DEF InTensor
      <4>2. Top(g, b, s) <= b.data[t]
        BY <1>7, <3>2, <3>4, <4>1 DEF InTensor
      <4> QED BY <4>2 DEF Disjoint
    <3>5. CASE b.data[t] <= b.data[s]
      <4>1. ~InTensor(g, b, t, b.data[s])
        BY <1>7, <3>1, <3>2, <3>3 DEF InTensor
      <4>2. Top(g, b, t) <= b.data[s]
        BY <1>7, <3>2, <3>3, <3>5, <4>1 DEF InTensor
      <4> QED BY <4>2 DEF Disjoint
    <3> QED BY <1>7, <3>2, <3>4, <3>5
  <2>4. ASSUME NEW r \in b.live, NEW s \in b.live, r # s PROVE Disjoint(g, b, r, s)
    <3>1. CASE r \in a.live /\ s \in a.live
      <4>1. Disjoint(g, a, r, s)
        BY <1>1, <2>4, <3>1 DEF LiveSound
      <4> QED BY <1>8, <1>12, <3>1, <4>1 DEF Disjoint
    <3> QED BY <1>5, <2>3, <2>4, <3>1
  <2>5. ASSUME NEW x \in Nat, InFree(b.blocks, x)
        PROVE  lo <= x /\ x < hi /\ \A s \in b.live : ~InTensor(g, b, s, x)
    <3>1. InFree(a.blocks, x) /\ ~InTensor(g, b, t, x)
      BY <1>6, <1>13, <2>5
    <3>2. lo <= x /\ x < hi /\ \A s \in a.live : ~InTensor(g, a, s, x)
      BY <1>1, <3>1 DEF LiveSound
    <3> QED BY <1>5, <1>12, <3>1, <3>2
  <2>6. ASSUME ~PartOf(g, b), NEW x \in Nat, lo <= x, x < hi
        PROVE  InFree(b.blocks, x) \/ \E s \in b.live : InTensor(g, b, s, x)
    <3>1. ~PartOf(g, a)
      BY <1>5, <2>6 DEF PartOf
    <3>2. InFree(a.blocks, x) \/ \E s \in a.live : InTensor(g, a, s, x)
      BY <1>1, <2>6, <3>1 DEF LiveSound
    <3> QED BY <1>5, <1>6, <1>12, <1>13, <3>2
  <2> QED BY <1>6, <2>1, <2>2, <2>4, <2>5, <2>6 DEF LiveSound
<1>15. CountSound(g, b, R)
  BY <1>1, <1>5 DEF CountSound, Views
<1>16. \A s : Keeps(g, b, 0, s) <=> Keeps(g, a, 0, s)
  BY <1>5 DEF Keeps
<1>17. KeepSound(g, b, E, 0)
  <2>1. \A s \in Plain(g, D) : s \in D
    BY DEF Plain
  <2>2. LiveDue(g, b, E)
    BY <1>1, <1>2, <1>5, <1>9, <1>16 DEF LiveDue
  <2>3. LastKeeps(g, b, E, 0)
    <3> SUFFICES ASSUME NEW r \in Plain(g, E), NEW s \in Plain(g, E), r < s, b.own[r] = b.own[s]
                 PROVE  ~Keeps(g, b, 0, r)
      BY DEF LastKeeps
    <3>1. r # s
      <4>1. r \in Nat /\ s \in Nat
        <5>1. DOMAIN g = 1 .. Len(g) /\ Len(g) \in Nat
          BY Shaped
        <5>2. r \in DOMAIN g /\ s \in DOMAIN g
          BY <1>2, <1>9, <2>1
        <5> QED BY <5>1, <5>2
      <4> QED BY <4>1
    <3>2. r \in Plain(g, D) /\ s \in Plain(g, D)
      BY <1>2, <1>5, <1>9, <1>10, <2>1, <3>1
    <3>3. ~Keeps(g, a, 0, r)
      BY <1>1, <1>5, <3>2 DEF LastKeeps
    <3> QED BY <1>16, <3>3
  <2>4. NoLeak(g, b, E)
    <3>1. Keeps(g, b, 0, t)
      BY <1>1, <1>16, UnreadKeeps
    <3>2. t \in Plain(g, E) /\ b.own[t] = t
      BY <1>2, <1>5, <1>9
    <3>3. \A o \in a.live : \E s \in Plain(g, E) : b.own[s] = o /\ Keeps(g, b, 0, s)
      BY <1>1, <1>5, <1>9, <1>16 DEF NoLeak
    <3> QED BY <1>5, <3>1, <3>2, <3>3 DEF NoLeak
  <2>5. LastViews(g, b, E, 0)
    BY <1>1, <1>2, <1>5, <1>9 DEF LastViews
  <2> QED BY <2>2, <2>3, <2>4, <2>5 DEF KeepSound
<1>18. Reusing(g, b, E, R, m, 0)
  BY DEF Reusing
<1>19. Sound(g, b, E, R, m, 0, lo, hi)
  BY <1>11, <1>14, <1>15, <1>17, <1>18 DEF Sound
<1>20. PlacedSound(g, a, b, D, R, t, m, 0, lo, hi)
  BY <1>5, <1>16, <1>19 DEF PlacedSound
<1> QED BY <1>20 DEF b

(* So does allocate_node for a view. *)
LEMMA ViewSound ==
    ASSUME WellFormed(graph), NEW a, NEW D, NEW R, NEW n, NEW m, NEW lo \in Int, NEW hi \in Int,
           Sound(graph, a, D, R, n, 0, lo, hi), NEW t \in DOMAIN graph, t \notin D,
           graph[t].kind = "view", graph[t].view_src \in D
    PROVE  PlacedSound(graph, a, AllocateNode(a, t), D, R, t, m, 0, lo, hi)
<1> DEFINE b == AllocateNode(a, t)
           E == D \cup {t}
           root == graph[t].view_src
           data == [a.data EXCEPT ![t] = a.data[root] + graph[t].offs]
           own == [a.own EXCEPT ![t] = a.own[root]]
<1>1. /\ DataSound(graph, a, D) /\ LiveSound(graph, a, D, lo, hi) /\ CountSound(graph, a, R)
      /\ LiveDue(graph, a, D) /\ LastKeeps(graph, a, D, 0) /\ NoLeak(graph, a, D) /\ LastViews(graph, a, D, 0)
  BY DEF Sound, KeepSound
<1>2. a \in Allocs(graph) /\ a.data[t] = Null /\ D \subseteq DOMAIN graph
  BY <1>1 DEF DataSound
<1>3. /\ root \in D /\ root \in DOMAIN graph /\ root # t /\ graph[root].view_src = NoTensor
      /\ root \in Plain(graph, D) /\ graph[t].offs \in Nat /\ root # NoTensor
      /\ graph[t].offs + AllocSize(graph, t) <= AllocSize(graph, root)
      /\ AllocSize(graph, t) \in Nat \ {0} /\ AllocSize(graph, root) \in Nat \ {0}
  <2>1. graph[t].view_src # NoTensor
    BY Shaped
  <2>2. graph[t].view_src \in DOMAIN graph
    BY <1>2
  <2> QED BY <2>1, <2>2, Shaped, Sizes DEF Plain
<1>4. b = [a EXCEPT !.data = data, !.own = own]
  <2>1. b = [a EXCEPT !.data[t] = a.data[root] + graph[t].offs, !.own[t] = a.own[root]]
    BY <1>2 DEF AllocateNode
  <2> HIDE DEF b
  <2> QED BY <2>1
<1>5. data \in [DOMAIN graph -> Int] /\ own \in [DOMAIN graph -> DOMAIN graph]
  <2>1. a.data \in [DOMAIN graph -> Int] /\ a.own \in [DOMAIN graph -> DOMAIN graph]
    BY <1>2 DEF Allocs
  <2>2. a.data[root] \in Int /\ a.own[root] \in DOMAIN graph /\ a.data[root] + graph[t].offs \in Int
    BY <1>3, <2>1
  <2> HIDE DEF root
  <2> QED BY <2>1, <2>2
<1>6. /\ data[t] = a.data[root] + graph[t].offs /\ own[t] = a.own[root]
      /\ \A s \in DOMAIN graph : s # t => data[s] = a.data[s] /\ own[s] = a.own[s]
  BY <1>2 DEF Allocs
<1> HIDE DEF b, data, own, root
<1>7. b \in Allocs(graph)
  BY <1>2, <1>4, <1>5 DEF Allocs
<1>8. /\ b.data = data /\ b.own = own
      /\ b.blocks = a.blocks /\ b.live = a.live
      /\ b.view_src = a.view_src /\ b.n_children = a.n_children
      /\ b.n_views = a.n_views /\ b.dropped = a.dropped
  BY <1>2, <1>4 DEF Allocs
<1>9. \A s \in D : s \in DOMAIN graph /\ s # t /\ b.data[s] = a.data[s] /\ b.own[s] = a.own[s]
                   /\ Top(graph, b, s) = Top(graph, a, s)
  BY <1>2, <1>6, <1>8 DEF Top
<1>10. Plain(graph, E) = Plain(graph, D) /\ graph[t].view_src = root
  <2>1. graph[t].view_src # NoTensor
    BY Shaped
  <2> QED BY <2>1 DEF Plain, root
<1>11. \A s \in D : a.own[s] \in Plain(graph, D) /\ a.own[s] \in D
  BY <1>1 DEF DataSound, Plain
<1>12. DataSound(graph, b, E)
  <2>1. \A s \in DOMAIN graph : s \notin E => b.data[s] = Null /\ b.own[s] = s
    BY <1>1, <1>6, <1>8 DEF DataSound
  <2>2. ASSUME NEW s \in D
        PROVE  /\ b.data[s] \in Nat
               /\ b.own[s] \in Plain(graph, E) /\ b.own[b.own[s]] = b.own[s]
               /\ b.data[b.own[s]] <= b.data[s] /\ Top(graph, b, s) <= Top(graph, b, b.own[s])
    <3>1. /\ a.data[s] \in Nat
          /\ a.own[s] \in Plain(graph, D) /\ a.own[a.own[s]] = a.own[s]
          /\ a.data[a.own[s]] <= a.data[s] /\ Top(graph, a, s) <= Top(graph, a, a.own[s])
      BY <1>1 DEF DataSound
    <3> QED BY <1>9, <1>10, <1>11, <3>1
  <2>3. /\ b.data[t] \in Nat
        /\ b.own[t] \in Plain(graph, E) /\ b.own[b.own[t]] = b.own[t]
        /\ b.data[b.own[t]] <= b.data[t] /\ Top(graph, b, t) <= Top(graph, b, b.own[t])
    <3>1. b.own[t] = b.own[root] /\ b.data[t] = b.data[root] + graph[t].offs
      BY <1>3, <1>6, <1>8, <1>9
    <3>2. /\ b.data[root] \in Nat
          /\ b.own[root] \in Plain(graph, E) /\ b.own[b.own[root]] = b.own[root]
          /\ b.data[b.own[root]] <= b.data[root] /\ Top(graph, b, root) <= Top(graph, b, b.own[root])
      BY <1>3, <2>2
    <3>3. b.own[root] \in DOMAIN graph
      BY <1>3, <1>7 DEF Allocs
    <3>4. b.data[b.own[root]] \in Int /\ Top(graph, b, b.own[root]) \in Int
      BY <1>7, <3>3, Sizes DEF Allocs, Top
    <3>5. Top(graph, b, t) <= Top(graph, b, root) /\ Top(graph, b, t) \in Int /\ Top(graph, b, root) \in Int
      BY <1>3, <3>1, <3>2 DEF Top
    <3> QED BY <1>3, <3>1, <3>2, <3>4, <3>5
  <2>4. \A s \in Plain(graph, E) :
            /\ b.own[s] <= s /\ b.data[s] = b.data[b.own[s]]
            /\ b.view_src[s] = NoTensor => b.own[s] = s
    <3>1. \A s \in Plain(graph, D) : s \in D
      BY DEF Plain
    <3> QED BY <1>1, <1>8, <1>9, <1>10, <1>11, <3>1 DEF DataSound
  <2>5. \A s \in E : graph[s].view_src # NoTensor =>
            /\ graph[s].view_src \in E /\ b.own[s] = b.own[graph[s].view_src]
            /\ b.data[s] = b.data[graph[s].view_src] + graph[s].offs
    <3>1. b.own[t] = b.own[root] /\ b.data[t] = b.data[root] + graph[t].offs
      BY <1>3, <1>6, <1>8, <1>9
    <3> QED BY <1>1, <1>3, <1>9, <1>10, <3>1 DEF DataSound
  <2>6. \A s \in DOMAIN graph : graph[s].view_src # NoTensor => b.view_src[s] = graph[s].view_src
    BY <1>1, <1>8 DEF DataSound
  <2>7. \A s \in DOMAIN graph : graph[s].view_src = NoTensor /\ b.view_src[s] # NoTensor =>
            /\ s \in E /\ graph[s].kind = "inplace"
            /\ b.view_src[s] \in Plain(graph, E) /\ b.view_src[s] < s /\ b.own[s] = b.own[b.view_src[s]]
    <3>1. \A s \in Plain(graph, D) : s \in D
      BY DEF Plain
    <3> QED BY <1>1, <1>8, <1>9, <1>10, <3>1 DEF DataSound
  <2>8. E \subseteq DOMAIN graph
    BY <1>2
  <2> HIDE DEF E
  <2>9. \A s \in E :
        /\ b.data[s] \in Nat
        /\ b.own[s] \in Plain(graph, E) /\ b.own[b.own[s]] = b.own[s]
        /\ b.data[b.own[s]] <= b.data[s] /\ Top(graph, b, s) <= Top(graph, b, b.own[s])
    BY <2>2, <2>3 DEF E
  <2> QED BY <1>7, <2>1, <2>4, <2>5, <2>6, <2>7, <2>8, <2>9 DEF DataSound
<1>13. \A s \in a.live : s \in D /\ (\A x : InTensor(graph, b, s, x) <=> InTensor(graph, a, s, x))
  <2>1. \A s \in a.live : s \in D
    BY <1>1 DEF LiveSound, Plain
  <2> QED BY <1>9, <2>1 DEF InTensor
<1>14. LiveSound(graph, b, E, lo, hi)
  <2>1. b.live \subseteq Plain(graph, E) /\ Table(b.blocks)
    BY <1>1, <1>8, <1>10 DEF LiveSound
  <2>2. \A s \in b.live : b.own[s] = s /\ lo <= b.data[s] /\ Top(graph, b, s) <= hi
    BY <1>1, <1>8, <1>9, <1>13 DEF LiveSound
  <2>3. \A r, s \in b.live : r # s => Disjoint(graph, b, r, s)
    BY <1>1, <1>8, <1>9, <1>13 DEF LiveSound, Disjoint
  <2>4. \A x \in Nat : InFree(b.blocks, x) =>
            lo <= x /\ x < hi /\ \A s \in b.live : ~InTensor(graph, b, s, x)
    BY <1>1, <1>8, <1>13 DEF LiveSound
  <2>5. ASSUME ~PartOf(graph, b) PROVE ~PartOf(graph, a)
    BY <1>6, <1>8, <2>5 DEF PartOf
  <2>6. ~PartOf(graph, b) => \A x \in Nat : lo <= x /\ x < hi =>
            InFree(b.blocks, x) \/ \E s \in b.live : InTensor(graph, b, s, x)
    BY <1>1, <1>8, <1>13, <2>5 DEF LiveSound
  <2> HIDE DEF E
  <2> QED BY <2>1, <2>2, <2>3, <2>4, <2>6 DEF LiveSound
<1>15. CountSound(graph, b, R)
  BY <1>1, <1>8 DEF CountSound, Views
<1>16. \A s : Keeps(graph, b, 0, s) <=> Keeps(graph, a, 0, s)
  BY <1>8 DEF Keeps
<1>17. KeepSound(graph, b, E, 0)
  <2>1. \A s \in Plain(graph, D) : s \in D
    BY DEF Plain
  <2>2. LiveDue(graph, b, E)
    BY <1>1, <1>8, <1>9, <1>10, <1>16, <2>1 DEF LiveDue
  <2>3. LastKeeps(graph, b, E, 0)
    BY <1>1, <1>9, <1>10, <1>16, <2>1 DEF LastKeeps
  <2>4. NoLeak(graph, b, E)
    BY <1>1, <1>8, <1>9, <1>10, <1>16, <2>1 DEF NoLeak
  <2>5. LastViews(graph, b, E, 0)
    BY <1>1, <1>8, <1>10 DEF LastViews
  <2> QED BY <2>2, <2>3, <2>4, <2>5 DEF KeepSound
<1>18. Reusing(graph, b, E, R, m, 0)
  BY DEF Reusing
<1>19. \A s \in DOMAIN graph : s # t => b.data[s] = a.data[s] /\ b.own[s] = a.own[s]
  BY <1>6, <1>8
<1>20. Sound(graph, b, E, R, m, 0, lo, hi)
  BY <1>12, <1>14, <1>15, <1>17, <1>18 DEF Sound
<1>21. PlacedSound(graph, a, b, D, R, t, m, 0, lo, hi)
  BY <1>16, <1>19, <1>20 DEF PlacedSound
<1> QED BY <1>21 DEF b

(* allocate_node in place of parent x: the node becomes a view of x, or of *)
(* what x views.                                                           *)
Owner(a, x) == IF a.view_src[x] = NoTensor THEN x ELSE a.view_src[x]
InPlaced(a, t, x) ==
    [a EXCEPT !.view_src[t] = Owner(a, x), !.n_views[Owner(a, x)] = @ + 1,
              !.data[t] = a.data[Owner(a, x)], !.own[t] = a.own[Owner(a, x)]]

(* What it changes. *)
LEMMA InPlaceFields ==
    ASSUME NEW g, WellFormed(g), NEW a \in Allocs(g), NEW t \in DOMAIN g, NEW x, Owner(a, x) \in DOMAIN g
    PROVE  /\ InPlaced(a, t, x) \in Allocs(g)
           /\ \A s \in DOMAIN g : InPlaced(a, t, x).view_src[s] = IF s = t THEN Owner(a, x) ELSE a.view_src[s]
           /\ \A s \in DOMAIN g : InPlaced(a, t, x).n_views[s] =
                IF s = Owner(a, x) THEN a.n_views[s] + 1 ELSE a.n_views[s]
           /\ \A s \in DOMAIN g : InPlaced(a, t, x).data[s] = IF s = t THEN a.data[Owner(a, x)] ELSE a.data[s]
           /\ \A s \in DOMAIN g : InPlaced(a, t, x).own[s] = IF s = t THEN a.own[Owner(a, x)] ELSE a.own[s]
           /\ InPlaced(a, t, x).blocks = a.blocks /\ InPlaced(a, t, x).live = a.live
           /\ InPlaced(a, t, x).n_children = a.n_children /\ InPlaced(a, t, x).dropped = a.dropped
<1> DEFINE owner == Owner(a, x)
           b == InPlaced(a, t, x)
           view_src == [a.view_src EXCEPT ![t] = owner]
           n_views == [a.n_views EXCEPT ![owner] = @ + 1]
           data == [a.data EXCEPT ![t] = a.data[owner]]
           own == [a.own EXCEPT ![t] = a.own[owner]]
<1>1. b = [a EXCEPT !.view_src = view_src, !.n_views = n_views, !.data = data, !.own = own]
  BY DEF InPlaced
<1> HIDE DEF owner
<1>2. owner \in DOMAIN g /\ owner \in Int
  <2>1. owner \in DOMAIN g
    BY DEF owner
  <2> QED BY <2>1, Shaped
<1>3. /\ a.view_src \in [DOMAIN g -> Int] /\ a.n_views \in [DOMAIN g -> Int]
      /\ a.data \in [DOMAIN g -> Int] /\ a.own \in [DOMAIN g -> DOMAIN g]
  BY DEF Allocs
<1>4. /\ view_src \in [DOMAIN g -> Int] /\ n_views \in [DOMAIN g -> Int]
      /\ data \in [DOMAIN g -> Int] /\ own \in [DOMAIN g -> DOMAIN g]
  BY <1>2, <1>3
<1>5. /\ \A s \in DOMAIN g : view_src[s] = IF s = t THEN owner ELSE a.view_src[s]
      /\ \A s \in DOMAIN g : n_views[s] = IF s = owner THEN a.n_views[s] + 1 ELSE a.n_views[s]
      /\ \A s \in DOMAIN g : data[s] = IF s = t THEN a.data[owner] ELSE a.data[s]
      /\ \A s \in DOMAIN g : own[s] = IF s = t THEN a.own[owner] ELSE a.own[s]
  BY <1>2, <1>3
<1> HIDE DEF b, view_src, n_views, data, own
<1>6. b \in Allocs(g)
  BY <1>1, <1>4 DEF Allocs
<1>7. /\ b.view_src = view_src /\ b.n_views = n_views /\ b.data = data /\ b.own = own
      /\ b.blocks = a.blocks /\ b.live = a.live
      /\ b.n_children = a.n_children /\ b.dropped = a.dropped
  BY <1>1 DEF Allocs
<1>8. /\ b \in Allocs(g)
      /\ \A s \in DOMAIN g : b.view_src[s] = IF s = t THEN owner ELSE a.view_src[s]
      /\ \A s \in DOMAIN g : b.n_views[s] = IF s = owner THEN a.n_views[s] + 1 ELSE a.n_views[s]
      /\ \A s \in DOMAIN g : b.data[s] = IF s = t THEN a.data[owner] ELSE a.data[s]
      /\ \A s \in DOMAIN g : b.own[s] = IF s = t THEN a.own[owner] ELSE a.own[s]
      /\ b.blocks = a.blocks /\ b.live = a.live
      /\ b.n_children = a.n_children /\ b.dropped = a.dropped
  BY <1>5, <1>6, <1>7
<1> QED BY <1>8 DEF b, owner

(* A parent in whose memory the node can work: itself, or what it views,   *)
(* is the last that may still be needed of that memory, and only by it.    *)
LEMMA ReusableFacts ==
    ASSUME WellFormed(graph), NEW a, NEW D, NEW R, NEW m, NEW lo \in Int, NEW hi \in Int,
           Sound(graph, a, D, R, m, 0, lo, hi), NEW r \in R, Reusable(a, r[1], SrcOf(graph, r))
    PROVE  LET x == SrcOf(graph, r)
               owner == Owner(a, x)
           IN  /\ x \in D /\ x < r[1] /\ x \in Nat /\ x # 0 /\ a.n_children[x] = 1 /\ a.n_views[x] = 0
               /\ x \notin a.dropped
               /\ owner \in Plain(graph, D) /\ owner \in DOMAIN graph /\ owner <= x /\ owner # NoTensor
               /\ a.own[owner] = a.own[x] /\ a.own[x] \in a.live
               /\ a.data[owner] = a.data[x] /\ AllocSize(graph, r[1]) = AllocSize(graph, x)
               /\ \A s \in Plain(graph, D) : a.own[s] = a.own[x] => ~Keeps(graph, a, x, s)
               /\ \A s \in DOMAIN graph : a.view_src[s] = owner => s \in a.dropped \/ s = x
<1> DEFINE x == SrcOf(graph, r)
           n == r[1]
           owner == Owner(a, x)
           root == a.view_src[x]
           top == IF graph[x].view_src = NoTensor THEN x ELSE graph[x].view_src
<1>1. /\ DataSound(graph, a, D) /\ LiveSound(graph, a, D, lo, hi) /\ CountSound(graph, a, R)
      /\ KeepSound(graph, a, D, 0)
  BY DEF Sound
<1>2. /\ x \in DOMAIN graph /\ x < n /\ x \in Nat /\ x # 0 /\ Read(graph, x)
      /\ a.n_children[x] > 0 /\ x \notin a.dropped
  <2>1. x \in DOMAIN graph /\ x < n /\ Read(graph, x) /\ a.n_children[x] > 0 /\ x \notin a.dropped
    BY <1>1, StillRead
  <2> QED BY <2>1, Shaped
<1>3. /\ a.data[x] # Null
      /\ a.n_children[x] = 1 /\ a.n_views[x] = 0
      /\ graph[n].shape = graph[x].shape
      /\ root # NoTensor => a.n_views[root] = 1 /\ a.n_children[root] = 0 /\ a.data[root] = a.data[x]
  BY DEF Reusable
<1>4. x \in D
  BY <1>1, <1>2, <1>3 DEF DataSound
<1>5. Reusing(graph, a, D, R, n, 0)
  BY DEF Reusing
<1>6. /\ top \in Plain(graph, D) /\ a.own[top] = a.own[x]
      /\ a.own[x] \in a.live
      /\ \A t \in Plain(graph, D) : a.own[t] = a.own[x] => t <= top
      /\ \A t \in Plain(graph, D) : a.own[t] = a.own[x] /\ t # top => ~Keeps(graph, a, 0, t)
  <2>1. x # 0
    BY <1>2
  <2> QED BY <1>1, <1>4, <1>5, <2>1, TopKeeps
<1> HIDE DEF x
<1>7. root # NoTensor => root \in DOMAIN graph /\ root < x /\ root \in Plain(graph, D) /\ a.own[x] = a.own[root]
  BY <1>1, <1>2, <1>4, NoViewsOfViews
<1>8. /\ owner \in Plain(graph, D) /\ owner \in DOMAIN graph /\ owner <= x /\ owner # NoTensor
      /\ a.own[owner] = a.own[x] /\ a.data[owner] = a.data[x]
  <2>1. CASE root = NoTensor
    <3>1. owner = x
      BY <2>1 DEF Owner
    <3>2. graph[x].view_src = NoTensor
      BY <1>1, <1>2, <2>1 DEF DataSound
    <3> QED BY <1>2, <1>4, <3>1, <3>2 DEF Plain, NoTensor
  <2>2. CASE root # NoTensor
    <3>1. owner = root
      BY <2>2 DEF Owner
    <3>2. root <= x
      <4>1. root \in Nat
        BY <1>7, <2>2, Shaped
      <4> QED BY <1>2, <1>7, <2>2, <4>1
    <3> QED BY <1>3, <1>7, <2>2, <3>1, <3>2
  <2> QED BY <2>1, <2>2
<1>9. AllocSize(graph, n) = AllocSize(graph, x)
  BY <1>3 DEF AllocSize
<1>10. ASSUME NEW s \in DOMAIN graph, a.view_src[s] = owner PROVE s \in a.dropped \/ s = x
  <2>1. CASE root = NoTensor
    <3>1. Views(graph, a, x) = {} /\ owner = x
      BY <1>1, <1>2, <1>3, <2>1, Counts DEF Owner
    <3> QED BY <1>10, <3>1 DEF Views
  <2>2. CASE root # NoTensor
    <3>1. owner = root /\ x \in Views(graph, a, root)
      BY <1>2, <2>2 DEF Owner, Views
    <3>2. \A y, z \in Views(graph, a, root) : y = z
      BY <1>1, <1>3, <1>7, <2>2, Counts
    <3> QED BY <1>10, <3>1, <3>2 DEF Views
  <2> QED BY <2>1, <2>2
<1>11. ASSUME NEW s \in Plain(graph, D), a.own[s] = a.own[x] PROVE ~Keeps(graph, a, x, s)
  <2>1. s \in DOMAIN graph /\ s # 0 /\ s # NoTensor /\ graph[s].view_src = NoTensor
    <3>1. s \in DOMAIN graph /\ graph[s].view_src = NoTensor
      BY <1>1 DEF DataSound, Plain
    <3> QED BY <3>1, Shaped DEF NoTensor
  <2>2. CASE s # top
    <3>1. ~Keeps(graph, a, 0, s)
      BY <1>6, <1>11, <2>2
    <3>2. \A z \in DOMAIN graph : z # 0
      BY Shaped
    <3> QED BY <2>1, <3>1, <3>2 DEF Keeps
  <2>3. CASE s = top
    <3>1. Read(graph, s)
      BY <1>2, <2>3, Shaped
    <3>2. ~(a.n_children[s] > 0 /\ s # x)
      <4>1. CASE graph[x].view_src = NoTensor
        BY <2>3, <4>1
      <4>2. CASE graph[x].view_src # NoTensor
        <5>1. root = s /\ root # NoTensor
          BY <1>1, <1>2, <2>3, <4>2 DEF DataSound
        <5>2. a.n_children[s] = 0
          BY <1>3, <5>1
        <5> QED BY <5>2
      <4> QED BY <4>1, <4>2
    <3>3. ASSUME NEW z \in DOMAIN graph, graph[z].view_src = s, z \notin a.dropped, z # x PROVE FALSE
      <4>1. a.view_src[z] = s
        BY <1>1, <2>1, <3>3 DEF DataSound
      <4>2. z \in Views(graph, a, s)
        BY <3>3, <4>1 DEF Views
      <4>3. CASE graph[x].view_src = NoTensor
        <5>1. Views(graph, a, x) = {} /\ s = x
          BY <1>1, <1>2, <1>3, <2>3, <4>3, Counts
        <5> QED BY <4>2, <5>1
      <4>4. CASE graph[x].view_src # NoTensor
        <5>1. root = s /\ root # NoTensor
          BY <1>1, <1>2, <2>3, <4>4 DEF DataSound
        <5>2. x \in Views(graph, a, s)
          BY <1>2, <5>1 DEF Views
        <5>3. a.n_views[s] = 1
          BY <1>3, <5>1
        <5> QED BY <1>1, <2>1, <3>3, <4>2, <5>2, <5>3, Counts
      <4> QED BY <4>3, <4>4
    <3> QED BY <3>1, <3>2, <3>3 DEF Keeps
  <2> QED BY <2>2, <2>3
<1> HIDE DEF owner
<1>12. /\ x \in D /\ x < n /\ x \in Nat /\ x # 0 /\ a.n_children[x] = 1 /\ a.n_views[x] = 0
       /\ x \notin a.dropped
       /\ owner \in Plain(graph, D) /\ owner \in DOMAIN graph /\ owner <= x /\ owner # NoTensor
       /\ a.own[owner] = a.own[x] /\ a.own[x] \in a.live
       /\ a.data[owner] = a.data[x] /\ AllocSize(graph, n) = AllocSize(graph, x)
  BY <1>2, <1>3, <1>4, <1>6, <1>8, <1>9
<1> QED BY <1>10, <1>11, <1>12 DEF x, owner

(* allocate_node in place of a parent keeps the allocator sound: the       *)
(* parent's memory is the node's now, and the parent is not needed.        *)
LEMMA InPlaceSound ==
    ASSUME WellFormed(graph), NEW a, NEW D, NEW R, NEW m, NEW lo \in Int, NEW hi \in Int,
           Sound(graph, a, D, R, m, 0, lo, hi), NEW r \in R, Reusable(a, r[1], SrcOf(graph, r)),
           r[1] \notin D, graph[r[1]].kind = "inplace",
           \A t \in D : t < r[1] \/ graph[t].input
    PROVE  LET n == r[1]
               x == SrcOf(graph, r)
           IN  /\ PlacedSound(graph, a, InPlaced(a, n, x), D, R, n, n, x, lo, hi)
               /\ InPlaced(a, n, x).data[n] = InPlaced(a, n, x).data[x]
               /\ AllocSize(graph, n) = AllocSize(graph, x)
<1> DEFINE n == r[1]
           x == SrcOf(graph, r)
           owner == Owner(a, x)
           b == InPlaced(a, n, x)
           E == D \cup {n}
<1>1. /\ DataSound(graph, a, D) /\ LiveSound(graph, a, D, lo, hi) /\ CountSound(graph, a, R)
      /\ LiveDue(graph, a, D) /\ LastKeeps(graph, a, D, 0) /\ NoLeak(graph, a, D) /\ LastViews(graph, a, D, 0)
  BY DEF Sound, KeepSound
<1>2. /\ x \in D /\ x < n /\ x \in Nat /\ x # 0 /\ a.n_children[x] = 1 /\ a.n_views[x] = 0
      /\ x \notin a.dropped
      /\ owner \in Plain(graph, D) /\ owner \in DOMAIN graph /\ owner <= x /\ owner # NoTensor
      /\ a.own[owner] = a.own[x] /\ a.own[x] \in a.live
      /\ a.data[owner] = a.data[x] /\ AllocSize(graph, n) = AllocSize(graph, x)
  BY ReusableFacts
<1>3. \A s \in Plain(graph, D) : a.own[s] = a.own[x] => ~Keeps(graph, a, x, s)
  BY ReusableFacts
<1>4. \A s \in DOMAIN graph : a.view_src[s] = owner => s \in a.dropped \/ s = x
  BY ReusableFacts
<1>5. \E i \in DOMAIN graph[n].src : <<n, i>> \in R /\ graph[n].src[i] = x
  <2>1. r \in Reads(graph)
    BY <1>1 DEF CountSound
  <2>2. r[2] \in DOMAIN graph[n].src /\ r = <<n, r[2]>>
    BY <2>1, ReadsFinite
  <2> QED BY <2>2 DEF SrcOf
<1>6. /\ n \in DOMAIN graph /\ n \in Nat /\ n # 0
      /\ n \notin D /\ graph[n].kind = "inplace" /\ graph[n].view_src = NoTensor
  <2>1. n \in DOMAIN graph
    BY <1>1, StillRead
  <2>2. graph[n].view_src = NoTensor
    BY <2>1, Shaped
  <2> QED BY <2>1, <2>2, Shaped
<1>7. a \in Allocs(graph) /\ D \subseteq DOMAIN graph /\ a.own[n] = n /\ a.view_src[n] = NoTensor
  BY <1>1, <1>6 DEF DataSound
<1>8. n \notin a.dropped
  BY <1>1, <1>7 DEF CountSound
<1>9. \A t \in D : t < n \/ graph[t].input
  OBVIOUS
<1> HIDE DEF n, x
<1>10. /\ b \in Allocs(graph)
       /\ \A s \in DOMAIN graph : b.view_src[s] = IF s = n THEN owner ELSE a.view_src[s]
       /\ \A s \in DOMAIN graph : b.n_views[s] = IF s = owner THEN a.n_views[s] + 1 ELSE a.n_views[s]
       /\ \A s \in DOMAIN graph : b.data[s] = IF s = n THEN a.data[owner] ELSE a.data[s]
       /\ \A s \in DOMAIN graph : b.own[s] = IF s = n THEN a.own[owner] ELSE a.own[s]
       /\ b.blocks = a.blocks /\ b.live = a.live
       /\ b.n_children = a.n_children /\ b.dropped = a.dropped
  BY <1>2, <1>6, <1>7, InPlaceFields
<1> HIDE DEF owner, b
<1>11. /\ b.view_src[n] = owner /\ b.data[n] = a.data[x] /\ b.own[n] = a.own[x]
       /\ \A s \in DOMAIN graph : s # n =>
            b.view_src[s] = a.view_src[s] /\ b.data[s] = a.data[s] /\ b.own[s] = a.own[s]
  BY <1>2, <1>6, <1>10
<1>12. \A s \in D : s \in DOMAIN graph /\ s # n /\ b.data[s] = a.data[s] /\ b.own[s] = a.own[s]
                    /\ b.view_src[s] = a.view_src[s] /\ Top(graph, b, s) = Top(graph, a, s)
  BY <1>6, <1>7, <1>11 DEF Top
<1>13. Plain(graph, E) = Plain(graph, D) \cup {n} /\ \A s \in Plain(graph, D) : s \in D
  BY <1>6 DEF Plain
<1>14. \A s \in D : a.own[s] \in Plain(graph, D) /\ a.own[s] \in D
  BY <1>1 DEF DataSound, Plain
<1>15. a.own[x] < n /\ a.own[x] \in Nat
  <2>1. a.own[owner] <= owner /\ a.own[owner] \in DOMAIN graph
    BY <1>1, <1>2, <1>7, <1>14 DEF DataSound
  <2>2. a.own[owner] \in Nat /\ owner \in Nat
    BY <1>2, <2>1, Shaped
  <2> QED BY <1>2, <1>6, <2>1, <2>2
<1>16. DataSound(graph, b, E)
  <2>1. \A s \in DOMAIN graph : s \notin E => b.data[s] = Null /\ b.own[s] = s
    BY <1>1, <1>11 DEF DataSound
  <2>2. ASSUME NEW s \in D
        PROVE  /\ b.data[s] \in Nat
               /\ b.own[s] \in Plain(graph, E) /\ b.own[b.own[s]] = b.own[s]
               /\ b.data[b.own[s]] <= b.data[s] /\ Top(graph, b, s) <= Top(graph, b, b.own[s])
    <3>1. /\ a.data[s] \in Nat
          /\ a.own[s] \in Plain(graph, D) /\ a.own[a.own[s]] = a.own[s]
          /\ a.data[a.own[s]] <= a.data[s] /\ Top(graph, a, s) <= Top(graph, a, a.own[s])
      BY <1>1 DEF DataSound
    <3> QED BY <1>12, <1>13, <1>14, <3>1
  <2>3. /\ b.data[n] \in Nat
        /\ b.own[n] \in Plain(graph, E) /\ b.own[b.own[n]] = b.own[n]
        /\ b.data[b.own[n]] <= b.data[n] /\ Top(graph, b, n) <= Top(graph, b, b.own[n])
    <3>1. b.own[n] = b.own[x] /\ b.data[n] = b.data[x] /\ Top(graph, b, n) = Top(graph, b, x)
      BY <1>2, <1>11, <1>12 DEF Top
    <3> QED BY <1>2, <2>2, <3>1
  <2>4. ASSUME NEW s \in Plain(graph, E)
        PROVE  /\ b.own[s] <= s /\ b.data[s] = b.data[b.own[s]]
               /\ b.view_src[s] = NoTensor => b.own[s] = s
    <3>1. CASE s \in Plain(graph, D)
      BY <1>1, <1>12, <1>13, <1>14, <3>1 DEF DataSound
    <3>2. CASE s = n
      <4>1. b.own[n] <= n
        BY <1>6, <1>11, <1>15
      <4>2. a.data[owner] = a.data[a.own[owner]]
        BY <1>1, <1>2 DEF DataSound
      <4>3. b.data[n] = b.data[b.own[n]]
        BY <1>2, <1>11, <1>12, <1>14, <4>2
      <4> QED BY <1>2, <1>11, <3>2, <4>1, <4>3
    <3> QED BY <1>13, <3>1, <3>2
  <2>5. \A s \in E : graph[s].view_src # NoTensor =>
            /\ graph[s].view_src \in E /\ b.own[s] = b.own[graph[s].view_src]
            /\ b.data[s] = b.data[graph[s].view_src] + graph[s].offs
    BY <1>1, <1>6, <1>12 DEF DataSound
  <2>6. \A s \in DOMAIN graph : graph[s].view_src # NoTensor => b.view_src[s] = graph[s].view_src
    BY <1>1, <1>6, <1>11 DEF DataSound
  <2>7. ASSUME NEW s \in DOMAIN graph, graph[s].view_src = NoTensor, b.view_src[s] # NoTensor
        PROVE  /\ s \in E /\ graph[s].kind = "inplace"
               /\ b.view_src[s] \in Plain(graph, E) /\ b.view_src[s] < s /\ b.own[s] = b.own[b.view_src[s]]
    <3>1. CASE s = n
      <4>1. owner < n
        <5>1. owner \in Nat
          BY <1>2, Shaped
        <5> QED BY <1>2, <1>6, <5>1
      <4>2. owner \in D
        BY <1>2, <1>13
      <4> QED BY <1>2, <1>6, <1>11, <1>12, <1>13, <3>1, <4>1, <4>2
    <3>2. CASE s # n
      <4>1. /\ s \in D /\ graph[s].kind = "inplace"
            /\ a.view_src[s] \in Plain(graph, D) /\ a.view_src[s] < s /\ a.own[s] = a.own[a.view_src[s]]
        BY <1>1, <1>11, <2>7, <3>2 DEF DataSound
      <4> QED BY <1>12, <1>13, <4>1
    <3> QED BY <3>1, <3>2
  <2>8. E \subseteq DOMAIN graph
    BY <1>6, <1>7
  <2>9. \A s \in E :
        /\ b.data[s] \in Nat
        /\ b.own[s] \in Plain(graph, E) /\ b.own[b.own[s]] = b.own[s]
        /\ b.data[b.own[s]] <= b.data[s] /\ Top(graph, b, s) <= Top(graph, b, b.own[s])
    BY <2>2, <2>3
  <2> HIDE DEF E
  <2> QED BY <1>10, <2>1, <2>4, <2>5, <2>6, <2>7, <2>8, <2>9 DEF DataSound
<1>17. \A s \in a.live : s \in D /\ (\A y : InTensor(graph, b, s, y) <=> InTensor(graph, a, s, y))
  <2>1. \A s \in a.live : s \in D
    BY <1>1 DEF LiveSound, Plain
  <2> QED BY <1>12, <2>1 DEF InTensor
<1>18. LiveSound(graph, b, E, lo, hi)
  <2>1. b.live \subseteq Plain(graph, E) /\ Table(b.blocks)
    BY <1>1, <1>10, <1>13 DEF LiveSound
  <2>2. \A s \in b.live : b.own[s] = s /\ lo <= b.data[s] /\ Top(graph, b, s) <= hi
    BY <1>1, <1>10, <1>12, <1>17 DEF LiveSound
  <2>3. \A t, s \in b.live : t # s => Disjoint(graph, b, t, s)
    BY <1>1, <1>10, <1>12, <1>17 DEF LiveSound, Disjoint
  <2>4. \A y \in Nat : InFree(b.blocks, y) =>
            lo <= y /\ y < hi /\ \A s \in b.live : ~InTensor(graph, b, s, y)
    BY <1>1, <1>10, <1>17 DEF LiveSound
  <2>5. ASSUME ~PartOf(graph, b) PROVE ~PartOf(graph, a)
    <3> SUFFICES ASSUME NEW t \in DOMAIN graph, graph[t].kind = "inplace",
                        AllocSize(graph, t) < AllocSize(graph, a.own[t])
                 PROVE  FALSE
      BY DEF PartOf
    <3>1. t # n
      <4>1. AllocSize(graph, n) \in Nat
        BY <1>6, Sizes
      <4> QED BY <1>7, <4>1
    <3> QED BY <1>11, <2>5, <3>1 DEF PartOf
  <2>6. ~PartOf(graph, b) => \A y \in Nat : lo <= y /\ y < hi =>
            InFree(b.blocks, y) \/ \E s \in b.live : InTensor(graph, b, s, y)
    BY <1>1, <1>10, <1>17, <2>5 DEF LiveSound
  <2> HIDE DEF E
  <2> QED BY <2>1, <2>2, <2>3, <2>4, <2>6 DEF LiveSound
<1>19. CountSound(graph, b, R)
  <2>1. ASSUME NEW t \in DOMAIN graph PROVE b.n_views[t] = Cardinality(Views(graph, b, t))
    <3>1. a.n_views[t] = Cardinality(Views(graph, a, t)) /\ IsFiniteSet(Views(graph, a, t))
      BY <1>1, Counts DEF CountSound
    <3>2. t # NoTensor
      BY Shaped DEF NoTensor
    <3>3. CASE t = owner
      <4>1. Views(graph, b, t) = Views(graph, a, t) \cup {n}
        BY <1>6, <1>8, <1>10, <1>11, <3>3 DEF Views
      <4>2. n \notin Views(graph, a, t)
        BY <1>7, <3>2 DEF Views
      <4>3. Cardinality(Views(graph, b, t)) = Cardinality(Views(graph, a, t)) + 1
        BY <3>1, <4>1, <4>2, FS_AddElement
      <4> QED BY <1>10, <3>1, <3>3, <4>3
    <3>4. CASE t # owner
      <4>1. Views(graph, b, t) = Views(graph, a, t)
        BY <1>7, <1>10, <1>11, <3>2, <3>4 DEF Views
      <4> QED BY <1>10, <3>1, <3>4, <4>1
    <3> QED BY <3>3, <3>4
  <2>2. \A t \in b.dropped : b.n_children[t] = 0 /\ b.view_src[t] # NoTensor
    <3>1. \A t \in a.dropped : t \in DOMAIN graph /\ t # n
      BY <1>7, <1>8 DEF Allocs
    <3> QED BY <1>1, <1>10, <1>11, <3>1 DEF CountSound
  <2>3. /\ R \subseteq Reads(graph)
        /\ \A t \in DOMAIN graph : b.n_children[t] = Cardinality(ReadsIn(graph, R, t))
        /\ \A t \in DOMAIN graph : graph[t].view_src # NoTensor /\ Read(graph, t) /\ b.n_children[t] = 0
                => t \in b.dropped
    BY <1>1, <1>10 DEF CountSound
  <2> QED BY <2>1, <2>2, <2>3 DEF CountSound
<1>20. \A p, s : Keeps(graph, b, p, s) <=> Keeps(graph, a, p, s)
  BY <1>10 DEF Keeps
<1>21. \A s \in DOMAIN graph : Keeps(graph, a, x, s) => Keeps(graph, a, 0, s)
  <2>1. \A s \in DOMAIN graph : s # 0
    BY Shaped
  <2> QED BY <2>1 DEF Keeps
<1>22. \A t \in Plain(graph, D) : n < t => a.own[t] = t /\ a.view_src[t] = NoTensor /\ t > a.own[x]
  <2> SUFFICES ASSUME NEW t \in Plain(graph, D), n < t
               PROVE  a.own[t] = t /\ a.view_src[t] = NoTensor /\ t > a.own[x]
    OBVIOUS
  <2>1. t \in D /\ t \in DOMAIN graph /\ graph[t].view_src = NoTensor /\ t \in Nat
    <3>1. t \in D /\ t \in DOMAIN graph /\ graph[t].view_src = NoTensor
      BY <1>7 DEF Plain
    <3> QED BY <3>1, Shaped
  <2>2. graph[t].input
    <3>1. ~(t < n)
      BY <1>6, <2>1
    <3> QED BY <1>9, <2>1, <3>1
  <2>3. graph[t].kind # "inplace"
    BY <2>1, <2>2 DEF WellFormed
  <2>4. a.view_src[t] = NoTensor
    BY <1>1, <2>1, <2>3 DEF DataSound
  <2>5. a.own[t] = t
    BY <1>1, <2>4 DEF DataSound
  <2> QED BY <1>6, <1>15, <2>1, <2>4, <2>5
<1>23. KeepSound(graph, b, E, x)
  <2>1. \A s \in Plain(graph, D) : s \in D /\ s \in DOMAIN graph
    BY <1>7 DEF Plain
  <2>2. LiveDue(graph, b, E)
    BY <1>1, <1>2, <1>10, <1>11, <1>12, <1>13, <1>20 DEF LiveDue
  <2>3. LastKeeps(graph, b, E, x)
    <3> SUFFICES ASSUME NEW s \in Plain(graph, E), NEW t \in Plain(graph, E), s < t, b.own[s] = b.own[t]
                 PROVE  ~Keeps(graph, a, x, s)
      BY <1>20 DEF LastKeeps
    <3>1. CASE s \in Plain(graph, D) /\ t \in Plain(graph, D)
      BY <1>1, <1>12, <1>21, <2>1, <3>1 DEF LastKeeps
    <3>2. CASE s \in Plain(graph, D) /\ t = n
      BY <1>3, <1>11, <1>12, <2>1, <3>2
    <3>3. CASE s = n /\ t \in Plain(graph, D)
      <4>1. a.own[t] = a.own[x]
        BY <1>11, <1>12, <2>1, <3>3
      <4>2. t \in Nat /\ t = a.own[x] /\ t > a.own[x]
        <5>1. t \in Nat
          BY <2>1, <3>3, Shaped
        <5> QED BY <1>22, <3>3, <4>1, <5>1
      <4> QED BY <1>15, <4>2
    <3>4. ~(s = n /\ t = n)
      BY <1>6
    <3> QED BY <1>13, <3>1, <3>2, <3>3, <3>4
  <2>4. NoLeak(graph, b, E)
    <3> SUFFICES ASSUME NEW o \in a.live
                 PROVE  \E t \in Plain(graph, E) : b.own[t] = o /\ Keeps(graph, b, 0, t)
      BY <1>10 DEF NoLeak
    <3>1. PICK t \in Plain(graph, D) : a.own[t] = o /\ Keeps(graph, a, 0, t)
      BY <1>1 DEF NoLeak
    <3>2. t \in Plain(graph, E) /\ b.own[t] = o /\ Keeps(graph, b, 0, t)
      BY <1>12, <1>13, <1>20, <2>1, <3>1
    <3> QED BY <3>2
  <2>5. LastViews(graph, b, E, x)
    <3> SUFFICES ASSUME NEW s \in Plain(graph, E), NEW t \in Plain(graph, E), s < t,
                        b.view_src[s] = b.view_src[t], b.view_src[s] # NoTensor
                 PROVE  s \in a.dropped \/ s = x
      BY <1>10 DEF LastViews
    <3>1. CASE s \in Plain(graph, D) /\ t \in Plain(graph, D)
      <4>1. s \in a.dropped \/ s = 0
        BY <1>1, <1>12, <2>1, <3>1 DEF LastViews
      <4> QED BY <2>1, <3>1, <4>1, Shaped
    <3>2. CASE s \in Plain(graph, D) /\ t = n
      BY <1>4, <1>11, <1>12, <2>1, <3>2
    <3>3. CASE s = n /\ t \in Plain(graph, D)
      BY <1>11, <1>12, <1>22, <2>1, <3>3
    <3>4. ~(s = n /\ t = n)
      BY <1>6
    <3> QED BY <1>13, <3>1, <3>2, <3>3, <3>4
  <2> QED BY <2>2, <2>3, <2>4, <2>5 DEF KeepSound
<1>24. Reusing(graph, b, E, R, n, x)
  <2>1. n \in Plain(graph, E) /\ x \in E /\ x \in DOMAIN graph /\ x # n
    BY <1>2, <1>12, <1>13
  <2>2. b.own[x] = b.own[n]
    BY <1>2, <1>11, <1>12
  <2>3. b.view_src[n] = IF b.view_src[x] = NoTensor THEN x ELSE b.view_src[x]
    BY <1>2, <1>11, <1>12 DEF owner, Owner
  <2>4. b.view_src[x] # NoTensor => b.n_views[x] = 0
    <3> SUFFICES ASSUME b.view_src[x] # NoTensor PROVE b.n_views[x] = 0
      OBVIOUS
    <3>1. owner = a.view_src[x] /\ a.view_src[x] # NoTensor
      BY <1>2, <1>12 DEF owner, Owner
    <3>2. owner < x
      BY <1>1, <2>1, <3>1, NoViewsOfViews
    <3>3. owner # x
      BY <1>2, <3>2
    <3> QED BY <1>2, <1>10, <2>1, <3>3
  <2>5. n \notin b.dropped /\ x \notin b.dropped /\ b.n_children[x] = 1
    BY <1>2, <1>8, <1>10
  <2> QED BY <1>2, <1>5, <2>1, <2>2, <2>3, <2>4, <2>5 DEF Reusing
<1>25. Sound(graph, b, E, R, n, x, lo, hi)
  BY <1>16, <1>18, <1>19, <1>23, <1>24 DEF Sound
<1>26. PlacedSound(graph, a, b, D, R, n, n, x, lo, hi)
  BY <1>11, <1>20, <1>21, <1>25 DEF PlacedSound
<1>27. b.data[n] = b.data[x]
  BY <1>2, <1>11, <1>12
<1> QED BY <1>2, <1>26, <1>27 DEF n, x, b

-------------------------------------------------------------------------------
(* The node that is next *)

(* What is allocated before node v is: the inputs, and the nodes before v; *)
(* and the reads from v on.                                                *)
Placed(g, v) ==
    {t \in DOMAIN g : g[t].kind # "external" /\ (g[t].input \/ (g[t].kind # "leaf" /\ t < v))}
ReadsFrom(g, v) == {r \in Reads(g) : r[1] >= v}

(* What is allocated once node n is, and which reads are left. *)
LEMMA PlacedNext ==
    ASSUME NEW g, WellFormed(g), NEW n \in DOMAIN g, g[n].kind # "leaf"
    PROVE  /\ Placed(g, n) \subseteq DOMAIN g
           /\ Placed(g, n + 1) = IF g[n].kind = "external" THEN Placed(g, n) ELSE Placed(g, n) \cup {n}
           /\ ReadsFrom(g, n + 1) = {r \in ReadsFrom(g, n) : r[1] # n}
<1>1. Len(g) \in Nat /\ DOMAIN g = 1 .. Len(g) /\ n \in Nat
  BY Shaped
<1>2. \A r \in Reads(g) : r[1] \in DOMAIN g /\ r[1] \in Nat
  BY <1>1, ReadsFinite
<1>3. Placed(g, n) \subseteq DOMAIN g
  BY DEF Placed
<1>4. Placed(g, n + 1) = IF g[n].kind = "external" THEN Placed(g, n) ELSE Placed(g, n) \cup {n}
  <2>1. \A t \in DOMAIN g : t < n + 1 <=> t < n \/ t = n
    BY <1>1
  <2> QED BY <2>1 DEF Placed
<1>5. ReadsFrom(g, n + 1) = {r \in ReadsFrom(g, n) : r[1] # n}
  <2>1. \A r \in Reads(g) : r[1] >= n + 1 <=> r[1] >= n /\ r[1] # n
    BY <1>1, <1>2
  <2> QED BY <2>1 DEF ReadsFrom
<1> QED BY <1>3, <1>4, <1>5

(* All that is allocated comes before the next node, but for inputs. *)
LEMMA PlacedBefore ==
    ASSUME NEW g, NEW n, NEW t \in Placed(g, n)
    PROVE  t < n \/ g[t].input
BY DEF Placed

(* No read of a node is counted before it. *)
LEMMA ReadsAhead ==
    ASSUME NEW g, WellFormed(g), NEW n \in DOMAIN g
    PROVE  ReadsOf(g, n) \subseteq ReadsFrom(g, n + 1) /\ ReadsOf(g, n) \subseteq ReadsFrom(g, n)
<1>1. Len(g) \in Nat /\ DOMAIN g = 1 .. Len(g) /\ n \in Nat
  BY Shaped
<1>2. ASSUME NEW r \in ReadsOf(g, n) PROVE r \in ReadsFrom(g, n + 1) /\ r \in ReadsFrom(g, n)
  <2>1. r \in Reads(g) /\ SrcOf(g, r) = n
    BY ReadsFinite DEF ReadsIn
  <2>2. n \in 1 .. r[1] - 1 /\ r[1] \in DOMAIN g
    BY <2>1, ReadsFinite
  <2>3. r[1] \in Nat /\ r[1] >= n + 1 /\ r[1] >= n
    BY <1>1, <2>2
  <2> QED BY <2>1, <2>3 DEF ReadsFrom
<1> QED BY <1>2

(* What is read and comes before the next node is allocated. *)
LEMMA PlacedRead ==
    ASSUME NEW g, WellFormed(g), NEW n, NEW t \in DOMAIN g, t < n, Read(g, t), g[t].kind # "external"
    PROVE  t \in Placed(g, n)
<1>1. g[t].kind = "leaf" => g[t].input
  BY DEF WellFormed
<1> QED BY <1>1 DEF Placed

(* The srcs of the next node are allocated. *)
LEMMA PlacedSrc ==
    ASSUME NEW g, WellFormed(g), NEW n \in DOMAIN g, g[n].kind # "leaf", NEW i \in DOMAIN g[n].src
    PROVE  /\ g[n].src[i] \in Placed(g, n) \/ g[g[n].src[i]].kind = "external"
           /\ <<n, i>> \in ReadsFrom(g, n) /\ SrcOf(g, <<n, i>>) = g[n].src[i]
           /\ g[n].src[i] \in DOMAIN g /\ g[n].src[i] < n
<1>1. Len(g) \in Nat /\ DOMAIN g = 1 .. Len(g) /\ n \in Nat
  BY Shaped
<1>2. <<n, i>> \in Reads(g)
  BY DEF Reads
<1>3. SrcOf(g, <<n, i>>) = g[n].src[i]
  BY DEF SrcOf
<1>4. g[n].src[i] \in 1 .. n - 1
  <2>1. <<n, i>>[1] = n
    OBVIOUS
  <2> QED BY <1>2, <1>3, <2>1, ReadsFinite
<1>5. Read(g, g[n].src[i])
  <2>1. <<n, i>> \in ReadsOf(g, g[n].src[i])
    BY <1>2, <1>3, ReadsFinite DEF ReadsIn
  <2> QED BY <2>1 DEF Read
<1>6. g[n].src[i] \in DOMAIN g /\ g[n].src[i] < n
  BY <1>1, <1>4
<1>7. <<n, i>> \in ReadsFrom(g, n)
  BY <1>1, <1>2 DEF ReadsFrom
<1>8. g[g[n].src[i]].kind # "external" => g[n].src[i] \in Placed(g, n)
  BY <1>5, <1>6, PlacedRead
<1> QED BY <1>3, <1>6, <1>7, <1>8

(* What a view views is allocated before it. *)
LEMMA PlacedRoot ==
    ASSUME NEW g, WellFormed(g), NEW n \in DOMAIN g, g[n].kind = "view"
    PROVE  g[n].view_src \in Placed(g, n)
<1>1. g[n].view_src # NoTensor
  BY Shaped
<1> QED BY <1>1, Shaped, PlacedRead

(* Between two nodes no parent is worked in place of. *)
LEMMA AnyNode ==
    ASSUME NEW g, NEW a, NEW D, NEW R, NEW n, NEW m, NEW lo, NEW hi, Sound(g, a, D, R, n, 0, lo, hi)
    PROVE  Sound(g, a, D, R, m, 0, lo, hi)
BY DEF Sound, Reusing

(* What allocate_node does for the node that is next. *)
NodeSound(a, b, n, q, lo, hi) ==
    /\ Sound(graph, b, Placed(graph, n + 1), ReadsFrom(graph, n), n, q, lo, hi)
    /\ \A s \in Placed(graph, n) : b.data[s] = a.data[s]
    /\ \A s \in DOMAIN graph : Keeps(graph, b, q, s) => Keeps(graph, a, 0, s)
    /\ q # 0 => /\ graph[n].kind = "inplace" /\ b.data[n] = b.data[q]
                /\ AllocSize(graph, n) = AllocSize(graph, q)

(* The four cases of allocate_node: a view, in place, memory of its own,   *)
(* or a tensor of another buffer.                                          *)
LEMMA NodeStep ==
    ASSUME WellFormed(graph), NEW n \in DOMAIN graph, graph[n].kind # "leaf", NEW a,
           NEW lo \in Int, NEW hi \in Int, base \in Nat, base <= lo,
           Sound(graph, a, Placed(graph, n), ReadsFrom(graph, n), 0, 0, lo, hi)
    PROVE  \/ AllocateNode(a, n) = [a EXCEPT !.failed = TRUE]
           \/ \E q : NodeSound(a, AllocateNode(a, n), n, q, lo, hi)
<1> DEFINE b == AllocateNode(a, n)
           D == Placed(graph, n)
           E == Placed(graph, n + 1)
           R == ReadsFrom(graph, n)
           reusable == {i \in DOMAIN graph[n].src : Reusable(a, n, graph[n].src[i])}
<1>1. /\ D \subseteq DOMAIN graph
      /\ \A t \in D : t < n \/ graph[t].input
      /\ E = IF graph[n].kind = "external" THEN D ELSE D \cup {n}
      /\ ReadsOf(graph, n) \subseteq R
      /\ \A i \in DOMAIN graph[n].src :
            <<n, i>> \in R /\ SrcOf(graph, <<n, i>>) = graph[n].src[i]
      /\ graph[n].kind = "view" => graph[n].view_src \in D
  <2>1. D \subseteq DOMAIN graph /\ E = IF graph[n].kind = "external" THEN D ELSE D \cup {n}
    BY PlacedNext
  <2>2. \A t \in D : t < n \/ graph[t].input
    BY PlacedBefore
  <2>3. ReadsOf(graph, n) \subseteq R
    BY ReadsAhead
  <2>4. \A i \in DOMAIN graph[n].src :
            <<n, i>> \in R /\ SrcOf(graph, <<n, i>>) = graph[n].src[i]
    BY PlacedSrc
  <2>5. graph[n].kind = "view" => graph[n].view_src \in D
    BY PlacedRoot
  <2> HIDE DEF D, E, R
  <2> QED BY <2>1, <2>2, <2>3, <2>4, <2>5
<1>2. Sound(graph, a, D, R, n, 0, lo, hi)
  BY AnyNode
<1>3. DataSound(graph, a, D)
  BY <1>2 DEF Sound
<1>4. n \in Nat
  BY Shaped
<1> HIDE DEF D, E, R
<1>5. n \in D <=> a.data[n] # Null
  BY <1>3 DEF DataSound, Null
<1>6. CASE n \in D \/ graph[n].kind = "external"
  <2>1. b = a
    BY <1>5, <1>6 DEF AllocateNode
  <2>2. E = D
    BY <1>1, <1>6
  <2>3. NodeSound(a, b, n, 0, lo, hi)
    BY <1>2, <2>1, <2>2 DEF NodeSound, D, E, R
  <2> QED BY <2>3
<1>7. CASE n \notin D /\ graph[n].kind = "view"
  <2>1. E = D \cup {n}
    BY <1>1, <1>7
  <2>2. n \in DOMAIN graph /\ n \notin D /\ graph[n].kind = "view" /\ graph[n].view_src \in D
    BY <1>1, <1>7
  <2>3. PlacedSound(graph, a, b, D, R, n, n, 0, lo, hi)
    BY <1>2, <2>2, ViewSound
  <2>4. NodeSound(a, b, n, 0, lo, hi)
    BY <1>1, <2>1, <2>2, <2>3 DEF NodeSound, PlacedSound, D, E, R
  <2> QED BY <2>4
<1>8. CASE n \notin D /\ graph[n].kind = "inplace" /\ reusable # {}
  <2> DEFINE i == Min(reusable)
             x == graph[n].src[i]
             r == <<n, i>>
  <2>1. i \in reusable
    <3>1. reusable \in SUBSET Nat
      <4>1. graph[n].src \in Seq(1 .. n - 1)
        BY DEF WellFormed
      <4> QED BY <4>1
    <3> HIDE DEF reusable
    <3> QED BY <1>8, <3>1, MinOf
  <2>2. i \in DOMAIN graph[n].src /\ Reusable(a, n, x)
    BY <2>1
  <2>3. a.data[n] = Null
    BY <1>5, <1>8
  <2>4. b = InPlaced(a, n, x)
    BY <1>8, <2>3 DEF AllocateNode, InPlaced, Owner
  <2> HIDE DEF b, i
  <2>5. r \in R /\ SrcOf(graph, r) = x /\ r[1] = n
    BY <1>1, <2>2
  <2>6. E = D \cup {n}
    BY <1>1, <1>8
  <2> HIDE DEF x, r
  <2>7. /\ PlacedSound(graph, a, InPlaced(a, n, x), D, R, n, n, x, lo, hi)
        /\ InPlaced(a, n, x).data[n] = InPlaced(a, n, x).data[x]
        /\ AllocSize(graph, n) = AllocSize(graph, x)
    <3>1. Reusable(a, r[1], SrcOf(graph, r)) /\ r[1] \notin D /\ graph[r[1]].kind = "inplace"
      BY <1>8, <2>2, <2>5 DEF x
    <3>2. \A t \in D : t < r[1] \/ graph[t].input
      BY <1>1, <2>5
    <3>3. LET m == r[1]
              y == SrcOf(graph, r)
          IN  /\ PlacedSound(graph, a, InPlaced(a, m, y), D, R, m, m, y, lo, hi)
              /\ InPlaced(a, m, y).data[m] = InPlaced(a, m, y).data[y]
              /\ AllocSize(graph, m) = AllocSize(graph, y)
      BY <1>2, <2>5, <3>1, <3>2, InPlaceSound
    <3> QED BY <2>5, <3>3
  <2>8. NodeSound(a, b, n, x, lo, hi)
    BY <1>1, <1>8, <2>4, <2>6, <2>7 DEF NodeSound, PlacedSound, D, E, R
  <2> QED BY <2>8 DEF b
<1>9. CASE n \notin D /\ graph[n].kind \notin {"external", "view"} /\ ~(graph[n].kind = "inplace" /\ reusable # {})
  <2>1. b = Alloc(graph, base, a, n)
    BY <1>5, <1>9 DEF AllocateNode
  <2>2. CASE BestFit(a.blocks, AllocSize(graph, n)) = 0
    BY <2>1, <2>2 DEF Alloc
  <2>3. CASE BestFit(a.blocks, AllocSize(graph, n)) # 0
    <3>1. graph[n].view_src = NoTensor
      BY <1>9, Shaped
    <3>2. E = D \cup {n}
      BY <1>1, <1>9
    <3>3. PlacedSound(graph, a, Alloc(graph, base, a, n), D, R, n, n, 0, lo, hi)
      BY <1>1, <1>2, <1>9, <2>3, <3>1, AllocSound
    <3> HIDE DEF b
    <3>4. NodeSound(a, b, n, 0, lo, hi)
      BY <1>1, <1>9, <2>1, <3>2, <3>3 DEF NodeSound, PlacedSound, D, E, R
    <3> QED BY <3>4 DEF b
  <2> QED BY <2>2, <2>3
<1> QED BY <1>6, <1>7, <1>8, <1>9

-------------------------------------------------------------------------------
(* What is computed is not overwritten *)

(* WrittenAt and Writes, for any graph. *)
Root(g, t) == IF g[t].view_src = NoTensor THEN t ELSE g[t].view_src
Written(g, t) == IF g[Root(g, t)].kind = "leaf" THEN 0 ELSE Root(g, t)
WritesIn(g, w) == g[w].kind \in {"op", "inplace"}

(* Before node v, the memory of a tensor that may still be needed is       *)
(* disjoint from that of all that was computed after it. SrcsIntact is not *)
(* inductive without it: it is about tensors whose reader is yet to come.  *)
Intact(g, a, D, v, q) ==
    \A s \in Plain(g, D) : Keeps(g, a, q, s) =>
        \A w \in (Written(g, s) + 1) .. v - 1 : WritesIn(g, w) => Disjoint(g, a, w, s)

(* SrcsIntact for node n: no kernel from the one that writes a src of n up *)
(* to n overwrites it, but n itself in place.                              *)
SrcsApart(g, a, n) ==
    \A i \in DOMAIN g[n].src : a.data[g[n].src[i]] # Null =>
        \A w \in (Written(g, g[n].src[i]) + 1) .. n : WritesIn(g, w) =>
            \/ Disjoint(g, a, w, g[n].src[i])
            \/ /\ w = n /\ g[n].kind = "inplace" /\ a.data[n] = a.data[g[n].src[i]]
               /\ AllocSize(g, n) = AllocSize(g, g[n].src[i])

(* Tensors in the memory of different tensors do not overlap. *)
LEMMA OthersDisjoint ==
    ASSUME NEW g, WellFormed(g), NEW a, NEW D, NEW lo \in Int, NEW hi \in Int,
           DataSound(g, a, D), LiveSound(g, a, D, lo, hi),
           NEW s \in D, NEW t \in D, a.own[s] # a.own[t], a.own[s] \in a.live, a.own[t] \in a.live
    PROVE  Disjoint(g, a, s, t)
<1>1. /\ a.data[s] \in Nat /\ Top(g, a, s) \in Nat
      /\ a.data[a.own[s]] \in Nat /\ Top(g, a, a.own[s]) \in Nat
      /\ a.data[a.own[s]] <= a.data[s] /\ Top(g, a, s) <= Top(g, a, a.own[s])
  BY Inside
<1>2. /\ a.data[t] \in Nat /\ Top(g, a, t) \in Nat
      /\ a.data[a.own[t]] \in Nat /\ Top(g, a, a.own[t]) \in Nat
      /\ a.data[a.own[t]] <= a.data[t] /\ Top(g, a, t) <= Top(g, a, a.own[t])
  BY Inside
<1>3. Top(g, a, a.own[s]) <= a.data[a.own[t]] \/ Top(g, a, a.own[t]) <= a.data[a.own[s]]
  BY DEF LiveSound, Disjoint
<1>4. Top(g, a, s) <= a.data[t] \/ Top(g, a, t) <= a.data[s]
  BY <1>1, <1>2, <1>3
<1> QED BY <1>4 DEF Disjoint

(* The memory of a tensor that is still needed stays disjoint from that of *)
(* all that was computed after it, the node that is next included.         *)
LEMMA NodeIntact ==
    ASSUME WellFormed(graph), NEW n \in DOMAIN graph, graph[n].kind # "leaf", NEW a, NEW b, NEW q,
           NEW lo \in Int, NEW hi \in Int, NodeSound(a, b, n, q, lo, hi),
           DataSound(graph, a, Placed(graph, n)), Intact(graph, a, Placed(graph, n), n, 0)
    PROVE  Intact(graph, b, Placed(graph, n + 1), n + 1, q)
<1> DEFINE D == Placed(graph, n)
           E == Placed(graph, n + 1)
           R == ReadsFrom(graph, n)
<1>1. /\ DataSound(graph, b, E) /\ LiveSound(graph, b, E, lo, hi) /\ CountSound(graph, b, R)
      /\ LiveDue(graph, b, E) /\ LastKeeps(graph, b, E, q)
  BY DEF NodeSound, Sound, KeepSound
<1>2. /\ \A s \in D : b.data[s] = a.data[s]
      /\ \A s \in DOMAIN graph : Keeps(graph, b, q, s) => Keeps(graph, a, 0, s)
  BY DEF NodeSound
<1>3. /\ D \subseteq DOMAIN graph /\ E \subseteq DOMAIN graph
      /\ E = IF graph[n].kind = "external" THEN D ELSE D \cup {n}
      /\ \A t \in D : t < n \/ graph[t].input
      /\ ReadsOf(graph, n) \subseteq R
  <2>1. /\ D \subseteq DOMAIN graph
        /\ E = IF graph[n].kind = "external" THEN D ELSE D \cup {n}
    BY PlacedNext
  <2>2. \A t \in D : t < n \/ graph[t].input
    BY PlacedBefore
  <2>3. ReadsOf(graph, n) \subseteq R
    BY ReadsAhead
  <2> HIDE DEF D, E, R
  <2> QED BY <2>1, <2>2, <2>3
<1>4. \A t \in DOMAIN graph : t \in Nat /\ t # 0
  BY Shaped
<1>5. \A w \in DOMAIN graph : w < n /\ WritesIn(graph, w) => w \in D
  BY DEF Placed, WritesIn
<1>6. Intact(graph, a, D, n, 0)
  OBVIOUS
<1> SUFFICES ASSUME NEW s \in Plain(graph, E), Keeps(graph, b, q, s),
                    NEW w \in (Written(graph, s) + 1) .. (n + 1) - 1, WritesIn(graph, w)
             PROVE  Disjoint(graph, b, w, s)
  BY DEF Intact
<1> HIDE DEF D, E, R
<1>7. s \in E /\ s \in DOMAIN graph /\ graph[s].view_src = NoTensor /\ s \in Nat
  BY <1>3, <1>4 DEF Plain
<1>8. Written(graph, s) = IF graph[s].kind = "leaf" THEN 0 ELSE s
  BY <1>7 DEF Written, Root
<1>9. w \in 1 .. n /\ w \in Nat /\ Written(graph, s) < w
  BY <1>4, <1>7, <1>8
<1>10. w \in DOMAIN graph
  <2>1. Len(graph) \in Nat /\ DOMAIN graph = 1 .. Len(graph)
    BY Shaped
  <2> QED BY <1>9, <2>1
<1>11. s # n
  <2>1. SUFFICES ASSUME s = n PROVE FALSE
    OBVIOUS
  <2>2. Written(graph, s) = n
    BY <1>8, <2>1
  <2> QED BY <1>4, <1>9, <2>2
<1>12. s \in D /\ s \in Plain(graph, D)
  <2>1. s \in D
    BY <1>3, <1>7, <1>11
  <2> QED BY <1>7, <2>1 DEF Plain
<1>13. CASE w < n
  <2>1. Keeps(graph, a, 0, s) /\ w \in D
    BY <1>2, <1>5, <1>7, <1>10, <1>13
  <2>2. w \in (Written(graph, s) + 1) .. n - 1
    BY <1>4, <1>9, <1>13
  <2>3. Disjoint(graph, a, w, s)
    BY <1>6, <1>12, <2>1, <2>2 DEF Intact
  <2> QED BY <1>2, <1>12, <2>1, <2>3 DEF Disjoint, Top
<1>14. CASE w = n
  <2>1. n \in E /\ n \in Plain(graph, E)
    <3>1. graph[n].kind \notin {"external", "view"}
      BY <1>14 DEF WritesIn
    <3>2. graph[n].view_src = NoTensor
      BY <3>1, Shaped
    <3> QED BY <1>3, <3>1, <3>2 DEF Plain
  <2>2. Keeps(graph, b, 0, n)
    BY <1>1, <1>3, UnreadKeeps
  <2>3. Keeps(graph, b, 0, s)
    BY <1>4, <1>7 DEF Keeps
  <2>4. b.own[s] # b.own[n]
    <3>1. CASE s < n
      BY <1>1, <2>1, <3>1 DEF LastKeeps
    <3>2. CASE n < s
      <4>1. graph[s].input
        <5>1. ~(s < n)
          BY <1>4, <1>7, <3>2
        <5> QED BY <1>3, <1>12, <5>1
      <4>2. graph[s].kind # "inplace"
        BY <1>7, <4>1 DEF WellFormed
      <4>3. b.view_src[s] = NoTensor
        BY <1>1, <1>7, <4>2 DEF DataSound
      <4>4. b.own[s] = s
        BY <1>1, <4>3 DEF DataSound
      <4>5. b.own[n] <= n /\ b.own[n] \in DOMAIN graph
        BY <1>1, <1>3, <2>1 DEF DataSound, Plain
      <4> QED BY <1>4, <1>7, <3>2, <4>4, <4>5
    <3>3. s < n \/ n < s
      BY <1>4, <1>7, <1>11
    <3> QED BY <3>1, <3>2, <3>3
  <2>5. b.own[s] \in b.live /\ b.own[n] \in b.live
    BY <1>1, <2>1, <2>2, <2>3 DEF LiveDue
  <2> QED BY <1>1, <1>7, <1>14, <2>1, <2>4, <2>5, OthersDisjoint
<1>15. w < n \/ w = n
  BY <1>4, <1>9
<1> QED BY <1>13, <1>14, <1>15

(* A src is intact when its reader computes. *)
LEMMA NodeSrcs ==
    ASSUME WellFormed(graph), NEW n \in DOMAIN graph, graph[n].kind # "leaf", NEW a, NEW b, NEW q,
           NEW lo \in Int, NEW hi \in Int, NodeSound(a, b, n, q, lo, hi),
           DataSound(graph, a, Placed(graph, n)), CountSound(graph, a, ReadsFrom(graph, n)),
           Intact(graph, a, Placed(graph, n), n, 0),
           Intact(graph, b, Placed(graph, n + 1), n + 1, q)
    PROVE  SrcsApart(graph, b, n)
<1> DEFINE D == Placed(graph, n)
           E == Placed(graph, n + 1)
           R == ReadsFrom(graph, n)
<1> SUFFICES ASSUME NEW i \in DOMAIN graph[n].src, b.data[graph[n].src[i]] # Null,
                    NEW w \in (Written(graph, graph[n].src[i]) + 1) .. n, WritesIn(graph, w),
                    ~(/\ w = n /\ graph[n].kind = "inplace" /\ b.data[n] = b.data[graph[n].src[i]]
                      /\ AllocSize(graph, n) = AllocSize(graph, graph[n].src[i]))
             PROVE  Disjoint(graph, b, w, graph[n].src[i])
  BY DEF SrcsApart
<1> DEFINE t == graph[n].src[i]
           s == Root(graph, t)
           r == <<n, i>>
<1>1. /\ DataSound(graph, a, D) /\ CountSound(graph, a, R) /\ Intact(graph, a, D, n, 0)
      /\ DataSound(graph, b, E) /\ CountSound(graph, b, R) /\ Intact(graph, b, E, n + 1, q)
      /\ \A x \in D : b.data[x] = a.data[x]
      /\ q # 0 => /\ graph[n].kind = "inplace" /\ b.data[n] = b.data[q]
                  /\ AllocSize(graph, n) = AllocSize(graph, q)
  BY DEF NodeSound, Sound
<1>2. r \in R /\ SrcOf(graph, r) = t /\ r[1] = n
  <2>1. \A j \in DOMAIN graph[n].src :
            <<n, j>> \in ReadsFrom(graph, n) /\ SrcOf(graph, <<n, j>>) = graph[n].src[j]
    BY PlacedSrc
  <2>2. <<n, i>>[1] = n
    OBVIOUS
  <2> QED BY <2>1, <2>2
<1>3. /\ D \subseteq DOMAIN graph /\ E \subseteq D \cup {n} /\ \A x \in D : x \in E
  <2>1. /\ D \subseteq DOMAIN graph
        /\ E = IF graph[n].kind = "external" THEN D ELSE D \cup {n}
    BY PlacedNext
  <2> HIDE DEF D, E, R
  <2> QED BY <2>1
<1>4. /\ \A x \in DOMAIN graph : x \in Nat /\ x # 0
      /\ Len(graph) \in Nat /\ DOMAIN graph = 1 .. Len(graph)
  BY Shaped
<1>5. \A x \in DOMAIN graph : x < n /\ WritesIn(graph, x) => x \in D
  BY DEF Placed, WritesIn
<1>6. /\ w \in (Written(graph, t) + 1) .. n /\ b.data[t] # Null /\ WritesIn(graph, w)
      /\ ~(/\ w = n /\ graph[n].kind = "inplace" /\ b.data[n] = b.data[t]
           /\ AllocSize(graph, n) = AllocSize(graph, t))
  OBVIOUS
<1> HIDE DEF D, E, R, t, r
<1>7. /\ t \in DOMAIN graph /\ t < n /\ Read(graph, t)
      /\ a.n_children[t] > 0 /\ t \notin a.dropped
      /\ b.n_children[t] > 0 /\ t \notin b.dropped
  BY <1>1, <1>2, StillRead
<1>8. t \in E /\ t \in D
  <2>1. t \in E
    BY <1>1, <1>6, <1>7 DEF DataSound
  <2> QED BY <1>3, <1>4, <1>7, <2>1
<1>9. /\ s \in Plain(graph, E) /\ s \in DOMAIN graph /\ Written(graph, s) = Written(graph, t)
      /\ b.data[s] <= b.data[t] /\ Top(graph, b, t) <= Top(graph, b, s)
      /\ b.data[s] \in Nat /\ b.data[t] \in Nat /\ Top(graph, b, s) \in Nat /\ Top(graph, b, t) \in Nat
  <2>1. CASE graph[t].view_src = NoTensor
    <3>1. s = t
      BY <2>1 DEF Root
    <3>2. b.data[t] \in Nat /\ Top(graph, b, t) \in Nat
      BY <1>1, <1>8, Inside
    <3>3. b.data[t] <= b.data[t] /\ Top(graph, b, t) <= Top(graph, b, t)
      BY <3>2
    <3> QED BY <1>7, <1>8, <2>1, <3>1, <3>2, <3>3 DEF Plain
  <2>2. CASE graph[t].view_src # NoTensor
    <3>1. s = graph[t].view_src /\ s \in DOMAIN graph /\ graph[s].view_src = NoTensor /\ graph[t].offs \in Nat
      BY <1>7, <2>2, Shaped DEF Root
    <3>2. s \in E /\ b.data[t] = b.data[s] + graph[t].offs
      BY <1>1, <1>8, <2>2, <3>1 DEF DataSound
    <3>3. graph[t].offs + AllocSize(graph, t) <= AllocSize(graph, s)
      BY <1>7, <2>2, <3>1, Sizes
    <3>4. /\ b.data[s] \in Nat /\ b.data[t] \in Nat /\ Top(graph, b, s) \in Nat /\ Top(graph, b, t) \in Nat
          /\ AllocSize(graph, s) \in Nat /\ AllocSize(graph, t) \in Nat
      BY <1>1, <1>8, <3>2, Inside
    <3>5. Written(graph, s) = Written(graph, t)
      BY <3>1 DEF Written, Root
    <3>6. b.data[s] <= b.data[t] /\ Top(graph, b, t) <= Top(graph, b, s)
      BY <3>1, <3>2, <3>3, <3>4 DEF Top
    <3> HIDE DEF s
    <3> QED BY <3>1, <3>2, <3>4, <3>5, <3>6 DEF Plain
  <2> QED BY <2>1, <2>2
<1>10. s \in D /\ s \in Plain(graph, D) /\ s < n
  <2>1. graph[t].view_src # NoTensor => graph[t].view_src < t /\ graph[t].view_src \in DOMAIN graph
    BY <1>7, Shaped
  <2>2. s < n
    BY <1>4, <1>7, <2>1 DEF Root
  <2>3. s \in E
    BY <1>9 DEF Plain
  <2>4. s \in D
    BY <1>3, <1>4, <1>9, <2>2, <2>3
  <2> QED BY <1>9, <2>2, <2>4 DEF Plain
<1>11. /\ w \in (Written(graph, s) + 1) .. n /\ w \in DOMAIN graph
       /\ Written(graph, s) \in Nat
  <2>1. Written(graph, s) \in Nat
    BY <1>4, <1>9 DEF Written, Plain, Root
  <2> QED BY <1>4, <1>6, <1>9, <2>1
<1>12. Keeps(graph, a, 0, s)
  BY <1>4, <1>7 DEF Keeps, Root
<1>13. Disjoint(graph, b, w, s)
  <2>1. CASE w < n
    <3>1. w \in (Written(graph, s) + 1) .. n - 1
      BY <1>4, <1>11, <2>1
    <3>2. Disjoint(graph, a, w, s)
      BY <1>1, <1>6, <1>10, <1>12, <3>1 DEF Intact
    <3>3. w \in D
      BY <1>5, <1>6, <1>11, <2>1
    <3> QED BY <1>1, <1>10, <3>2, <3>3 DEF Disjoint, Top
  <2>2. CASE w = n
    <3>1. w \in (Written(graph, s) + 1) .. (n + 1) - 1
      BY <1>4, <1>11
    <3>2. t # q
      <4>1. SUFFICES ASSUME t = q PROVE FALSE
        OBVIOUS
      <4>2. q # 0
        BY <1>4, <1>7, <4>1
      <4> QED BY <1>1, <1>6, <2>2, <4>1, <4>2
    <3>3. Keeps(graph, b, q, s)
      BY <1>7, <3>2 DEF Keeps, Root
    <3>4. s \in Plain(graph, E)
      BY <1>9
    <3> HIDE DEF s
    <3> QED BY <1>1, <1>6, <3>1, <3>3, <3>4 DEF Intact
  <2> QED BY <1>4, <1>11, <2>1, <2>2
<1>14. b.data[w] \in Int /\ Top(graph, b, w) \in Int
  <2>1. AllocSize(graph, w) \in Nat
    BY <1>11, Sizes
  <2>2. b.data[w] \in Int
    BY <1>1, <1>11 DEF DataSound, Allocs
  <2> QED BY <2>1, <2>2 DEF Top
<1>15. Disjoint(graph, b, w, t)
  <2> HIDE DEF s
  <2> QED BY <1>9, <1>13, <1>14 DEF Disjoint
<1> QED BY <1>15 DEF t

-------------------------------------------------------------------------------
(* A round of ggml_tallocr_alloc_graph_impl *)

(* The recursive functions of a round: all of their values satisfy its     *)
(* equation.                                                               *)
Allocates(srcs, a, f) ==
    f = [k \in 0 .. Len(srcs) |-> IF k = 0 THEN a ELSE AllocateNode(f[k - 1], srcs[k])]
Updates(srcs, a, N, f) ==
    f = [k \in 0 .. N |-> IF k = 0 THEN a ELSE UpdateParent(f[k - 1], srcs[k])]

(* AllocateRound is the last value of such a function. *)
LEMMA RoundByNodes ==
    ASSUME NEW a, NEW n
    PROVE  AllocateRound(a, n) =
            AllocateNode((CHOOSE f : Allocates(graph[n].src, a, f))[Len(graph[n].src)], n)
BY DEF AllocateRound, Allocates

(* So is UpdateParents. *)
LEMMA UpdatesByParents ==
    ASSUME NEW a, NEW n
    PROVE  UpdateParents(a, n) =
            (CHOOSE f : Updates(graph[n].src, a, Len(graph[n].src), f))[Len(graph[n].src)]
BY DEF UpdateParents, Updates

(* The srcs are allocated when their reader is: its round allocates it. *)
LEMMA RoundIsNode ==
    ASSUME NEW a, NEW n, NEW N \in Nat, N = Len(graph[n].src),
           \A k \in 1 .. N : AllocateNode(a, graph[n].src[k]) = a
    PROVE  AllocateRound(a, n) = AllocateNode(a, n)
<1> DEFINE srcs == graph[n].src
           c == [k \in 0 .. N |-> a]
           f == CHOOSE g : Allocates(srcs, a, g)
           S == {k \in Nat : k <= N => f[k] = a}
<1>1. Allocates(srcs, a, c)
  <2>1. \A k \in 0 .. N : c[k] = IF k = 0 THEN a ELSE AllocateNode(c[k - 1], srcs[k])
    <3> SUFFICES ASSUME NEW k \in 0 .. N, k # 0 PROVE a = AllocateNode(c[k - 1], srcs[k])
      OBVIOUS
    <3>1. c[k - 1] = a
      OBVIOUS
    <3> QED BY <3>1
  <2> DEFINE d == [k \in 0 .. N |-> IF k = 0 THEN a ELSE AllocateNode(c[k - 1], srcs[k])]
  <2>2. \A k \in 0 .. N : c[k] = d[k]
    <3> HIDE DEF c
    <3> QED BY <2>1
  <2>3. c = d
    <3>1. c = [k \in 0 .. N |-> c[k]] /\ d = [k \in 0 .. N |-> d[k]]
      OBVIOUS
    <3> HIDE DEF c, d
    <3> QED BY <2>2, <3>1
  <2> HIDE DEF c
  <2> QED BY <2>3 DEF Allocates
<1>2. Allocates(srcs, a, f)
  <2> HIDE DEF c, srcs
  <2> QED BY <1>1
<1> HIDE DEF f, c
<1>3. \A k \in 0 .. N : f[k] = IF k = 0 THEN a ELSE AllocateNode(f[k - 1], srcs[k])
  BY <1>2 DEF Allocates
<1>4. 0 \in S
  BY <1>3
<1>5. ASSUME NEW k \in Nat, k \in S PROVE k + 1 \in S
  <2> SUFFICES ASSUME k + 1 <= N PROVE f[k + 1] = a
    OBVIOUS
  <2>1. f[k] = a
    BY <1>5
  <2>2. k + 1 \in 0 .. N /\ k + 1 # 0 /\ k + 1 \in 1 .. N /\ (k + 1) - 1 = k
    OBVIOUS
  <2>3. f[k + 1] = AllocateNode(f[k], srcs[k + 1])
    BY <1>3, <2>2
  <2> QED BY <2>1, <2>2, <2>3
<1>6. f[N] = a
  <2> HIDE DEF S
  <2>1. Nat \subseteq S
    BY <1>4, <1>5, NatSetInduction
  <2> QED BY <2>1 DEF S
<1>7. AllocateRound(a, n) = AllocateNode(f[N], n)
  BY RoundByNodes DEF f
<1> QED BY <1>6, <1>7

(* There is a function of the updates, by induction on the number of       *)
(* parents.                                                                *)
LEMMA UpdatesExist ==
    ASSUME NEW srcs, NEW a, NEW N \in Nat
    PROVE  \E f : Updates(srcs, a, N, f)
<1> DEFINE S == {m \in Nat : \E f : Updates(srcs, a, m, f)}
<1>1. 0 \in S
  <2> DEFINE f == [k \in 0 .. 0 |-> a]
  <2>1. f = [k \in 0 .. 0 |-> IF k = 0 THEN a ELSE UpdateParent(f[k - 1], srcs[k])]
    OBVIOUS
  <2> HIDE DEF f
  <2>2. Updates(srcs, a, 0, f)
    BY <2>1 DEF Updates
  <2> QED BY <2>2
<1>2. ASSUME NEW m \in Nat, m \in S PROVE m + 1 \in S
  <2>1. PICK f : Updates(srcs, a, m, f)
    BY <1>2
  <2> DEFINE v == UpdateParent(f[m], srcs[m + 1])
             g == [k \in 0 .. m + 1 |-> IF k <= m THEN f[k] ELSE v]
             h == [k \in 0 .. m + 1 |-> IF k = 0 THEN a ELSE UpdateParent(g[k - 1], srcs[k])]
  <2>2. \A k \in 0 .. m : f[k] = IF k = 0 THEN a ELSE UpdateParent(f[k - 1], srcs[k])
    BY <2>1 DEF Updates
  <2>3. ASSUME NEW k \in 0 .. m + 1 PROVE g[k] = h[k]
    <3>1. CASE k = 0
      <4>1. g[0] = f[0] /\ h[0] = a
        OBVIOUS
      <4>2. f[0] = a
        BY <2>2
      <4> QED BY <3>1, <4>1, <4>2
    <3>2. CASE k # 0 /\ k <= m
      <4>1. g[k] = f[k] /\ g[k - 1] = f[k - 1]
        BY <3>2
      <4>2. h[k] = UpdateParent(g[k - 1], srcs[k])
        BY <3>2
      <4> QED BY <2>2, <3>2, <4>1, <4>2
    <3>3. CASE k = m + 1
      <4>1. g[m + 1] = v /\ g[m] = f[m]
        OBVIOUS
      <4>2. (m + 1) - 1 = m /\ m + 1 # 0 /\ m + 1 \in 0 .. m + 1
        OBVIOUS
      <4>3. h[m + 1] = UpdateParent(g[m], srcs[m + 1])
        <5> HIDE DEF g
        <5> QED BY <4>2
      <4> QED BY <3>3, <4>1, <4>3
    <3> QED BY <3>1, <3>2, <3>3
  <2>4. g = h
    <3>1. g = [k \in 0 .. m + 1 |-> g[k]] /\ h = [k \in 0 .. m + 1 |-> h[k]]
      OBVIOUS
    <3> HIDE DEF g, h
    <3> QED BY <2>3, <3>1
  <2>5. Updates(srcs, a, m + 1, g)
    <3> HIDE DEF g
    <3> QED BY <2>4 DEF Updates
  <2> HIDE DEF g
  <2> QED BY <2>5
<1> HIDE DEF S
<1>3. N \in S
  BY <1>1, <1>2, NatSetInduction
<1> QED BY <1>3 DEF S

(* After the first k parents of n. *)
ReadsAfter(n, k) == {r \in ReadsFrom(graph, n) : r[1] # n \/ r[2] > k}
(* What holds after the first k parents. *)
UpdatedSound(b, q, c, n, k, p, lo, hi) ==
    /\ Sound(graph, c, Placed(graph, n + 1), ReadsAfter(n, k), n, p, lo, hi)
    /\ c.data = b.data /\ c.own = b.own /\ c.view_src = b.view_src
    /\ \A s \in DOMAIN graph : Keeps(graph, c, p, s) => Keeps(graph, b, q, s)

(* It holds after the next one. *)
LEMMA UpdatingNext ==
    ASSUME WellFormed(graph), NEW n \in DOMAIN graph, graph[n].kind # "leaf", NEW b, NEW q, NEW c,
           NEW lo \in Int, NEW hi \in Int, NEW k \in Nat, k + 1 \in DOMAIN graph[n].src, NEW p,
           UpdatedSound(b, q, c, n, k, p, lo, hi)
    PROVE  \E o : UpdatedSound(b, q, UpdateParent(c, graph[n].src[k + 1]), n, k + 1, o, lo, hi)
<1> DEFINE D == Placed(graph, n + 1)
           R == ReadsAfter(n, k)
           i == k + 1
           r == <<n, i>>
           x == graph[n].src[i]
           d == UpdateParent(c, x)
           o == IF p = x THEN 0 ELSE p
<1>1. /\ Sound(graph, c, D, R, n, p, lo, hi)
      /\ c.data = b.data /\ c.own = b.own /\ c.view_src = b.view_src
      /\ \A s \in DOMAIN graph : Keeps(graph, c, p, s) => Keeps(graph, b, q, s)
  BY DEF UpdatedSound
<1>2. /\ x \in Placed(graph, n) \/ graph[x].kind = "external"
      /\ r \in ReadsFrom(graph, n) /\ SrcOf(graph, r) = x
  BY PlacedSrc
<1>3. x \in D \/ graph[x].kind = "external"
  <2>1. D = IF graph[n].kind = "external" THEN Placed(graph, n) ELSE Placed(graph, n) \cup {n}
    BY PlacedNext
  <2> HIDE DEF D, x
  <2> QED BY <1>2, <2>1
<1>4. r[1] = n /\ r[2] = i /\ r \in R
  BY <1>2 DEF ReadsAfter
<1>5. ReadsOf(graph, n) \subseteq R
  <2> SUFFICES ASSUME NEW y \in ReadsOf(graph, n) PROVE y \in R
    OBVIOUS
  <2>1. y \in ReadsFrom(graph, n + 1) /\ y \in ReadsFrom(graph, n)
    BY ReadsAhead
  <2>2. y[1] # n
    <3>1. ReadsFrom(graph, n + 1) = {z \in ReadsFrom(graph, n) : z[1] # n}
      BY PlacedNext
    <3> QED BY <2>1, <3>1
  <2> QED BY <2>1, <2>2 DEF ReadsAfter
<1>6. R \ {r} = ReadsAfter(n, i)
  <2>1. ASSUME NEW y \in ReadsFrom(graph, n)
        PROVE  y # r <=> ~(y[1] = n /\ y[2] = i)
    <3>1. y \in Reads(graph)
      BY DEF ReadsFrom
    <3>2. y = <<y[1], y[2]>>
      BY <3>1, ReadsFinite
    <3> QED BY <3>2
  <2>2. ASSUME NEW y \in ReadsFrom(graph, n), y[1] = n
        PROVE  y[2] > k /\ y[2] # i <=> y[2] > i
    <3>1. y \in Reads(graph)
      BY DEF ReadsFrom
    <3>2. y[2] \in DOMAIN graph[n].src
      BY <2>2, <3>1, ReadsFinite
    <3>3. graph[n].src \in Seq(1 .. n - 1)
      BY DEF WellFormed
    <3>4. y[2] \in Nat
      BY <3>2, <3>3
    <3> QED BY <3>4
  <2> HIDE DEF r, i
  <2> QED BY <2>1, <2>2 DEF ReadsAfter
<1> HIDE DEF D, R, r, x, i
<1>7. /\ Sound(graph, d, D, R \ {r}, n, o, lo, hi)
      /\ d.data = c.data /\ d.own = c.own /\ d.view_src = c.view_src
      /\ \A s \in DOMAIN graph : Keeps(graph, d, o, s) => Keeps(graph, c, p, s)
  <2>1. SrcOf(graph, r) \in D \/ graph[SrcOf(graph, r)].kind = "external"
    BY <1>2, <1>3
  <2>2. LET y == SrcOf(graph, r)
        IN  Updated(c, UpdateParent(c, y), D, R \ {r}, n, p, IF p = y THEN 0 ELSE p, lo, hi)
    BY <1>1, <1>4, <1>5, <2>1, Updating
  <2>3. Updated(c, d, D, R \ {r}, n, p, o, lo, hi)
    BY <1>2, <2>2
  <2> HIDE DEF d, o
  <2> QED BY <2>3 DEF Updated
<1> HIDE DEF d, o
<1>8. UpdatedSound(b, q, d, n, i, o, lo, hi)
  BY <1>1, <1>6, <1>7 DEF UpdatedSound, D
<1> QED BY <1>8 DEF d, x, i

(* An assertion of the allocator has failed: llama.cpp aborts. *)
Failed(a) == "failed" \in DOMAIN a /\ a.failed = TRUE

(* f has what each update of a parent of n leaves. *)
Steps(b, n, N, f) ==
    /\ f[0] = b /\ f[N] = UpdateParents(b, n)
    /\ \A k \in 1 .. N : f[k] = UpdateParent(f[k - 1], graph[n].src[k])

(* The updates of all of n's parents, one after the other. *)
LEMMA UpdatesValues ==
    ASSUME NEW b, NEW n, NEW N \in Nat, N = Len(graph[n].src)
    PROVE  \E f : Steps(b, n, N, f)
<1> DEFINE f == CHOOSE g : Updates(graph[n].src, b, N, g)
<1>1. Updates(graph[n].src, b, N, f)
  BY UpdatesExist
<1>2. UpdateParents(b, n) = f[N]
  BY UpdatesByParents DEF f
<1> HIDE DEF f
<1>3. \A k \in 0 .. N : f[k] = IF k = 0 THEN b ELSE UpdateParent(f[k - 1], graph[n].src[k])
  BY <1>1 DEF Updates
<1>4. f[0] = b
  BY <1>3
<1>5. \A k \in 1 .. N : f[k] = UpdateParent(f[k - 1], graph[n].src[k])
  BY <1>3
<1>6. Steps(b, n, N, f)
  BY <1>2, <1>4, <1>5 DEF Steps
<1> QED BY <1>6

(* What failed has failed: free_node does not undo it, *)
LEMMA FreeStillFailed ==
    ASSUME NEW a, NEW t, Failed(a)
    PROVE  Failed(FreeNode(a, t))
BY DEF FreeNode, Failed

(* nor does the update of a parent, *)
LEMMA StillFailed ==
    ASSUME NEW a, NEW x, Failed(a)
    PROVE  Failed(UpdateParent(a, x))
<1> DEFINE b == [a EXCEPT !.n_children[x] = @ - 1]
           root == a.view_src[x]
           c == [b EXCEPT !.n_views[root] = @ - 1, !.dropped = @ \cup {x}]
           d == UpdateParent(a, x)
<1>1. Failed(b)
  BY DEF Failed
<1>2. Failed(c)
  <2> HIDE DEF b
  <2> QED BY <1>1 DEF Failed
<1>3. \/ d = b \/ d = FreeNode(b, x) \/ d = FreeNode(c, root) \/ d = c
  BY DEF UpdateParent
<1>4. Failed(FreeNode(b, x)) /\ Failed(FreeNode(c, root))
  <2> HIDE DEF b, c
  <2> QED BY <1>1, <1>2, FreeStillFailed
<1> HIDE DEF b, c, d, root
<1> QED BY <1>1, <1>2, <1>3, <1>4 DEF d

(* nor do those of all of them. *)
LEMMA UpdatesFail ==
    ASSUME NEW b, NEW n, NEW N \in Nat, N = Len(graph[n].src), Failed(b)
    PROVE  Failed(UpdateParents(b, n))
<1>1. PICK f : /\ f[0] = b /\ f[N] = UpdateParents(b, n)
               /\ \A k \in 1 .. N : f[k] = UpdateParent(f[k - 1], graph[n].src[k])
  <2>1. \E f : Steps(b, n, N, f)
    BY UpdatesValues
  <2> QED BY <2>1 DEF Steps
<1> DEFINE S == {k \in Nat : k <= N => Failed(f[k])}
<1>2. 0 \in S
  BY <1>1
<1>3. ASSUME NEW k \in Nat, k \in S PROVE k + 1 \in S
  <2> SUFFICES ASSUME k + 1 <= N PROVE Failed(f[k + 1])
    OBVIOUS
  <2>1. k + 1 \in 1 .. N /\ (k + 1) - 1 = k /\ k <= N
    OBVIOUS
  <2>2. f[k + 1] = UpdateParent(f[k], graph[n].src[k + 1])
    BY <1>1, <2>1
  <2> QED BY <1>3, <2>1, <2>2, StillFailed
<1> HIDE DEF S
<1>4. Nat \subseteq S
  BY <1>2, <1>3, NatSetInduction
<1> QED BY <1>1, <1>4 DEF S

(* After all of n's parents: nothing is left of a parent used again. *)
LEMMA UpdatingAll ==
    ASSUME WellFormed(graph), NEW n \in DOMAIN graph, graph[n].kind # "leaf", NEW b, NEW q,
           NEW lo \in Int, NEW hi \in Int,
           Sound(graph, b, Placed(graph, n + 1), ReadsFrom(graph, n), n, q, lo, hi)
    PROVE  UpdatedSound(b, q, UpdateParents(b, n), n, Len(graph[n].src), 0, lo, hi)
<1> DEFINE N == Len(graph[n].src)
<1>1. N \in Nat /\ DOMAIN graph[n].src = 1 .. N
  <2>1. graph[n].src \in Seq(1 .. n - 1)
    BY DEF WellFormed
  <2> QED BY <2>1
<1>2. PICK f : /\ f[0] = b /\ f[N] = UpdateParents(b, n)
               /\ \A k \in 1 .. N : f[k] = UpdateParent(f[k - 1], graph[n].src[k])
  <2>1. N = Len(graph[n].src)
    OBVIOUS
  <2> HIDE DEF N
  <2>2. \E f : Steps(b, n, N, f)
    BY <1>1, <2>1, UpdatesValues
  <2> QED BY <2>2 DEF Steps
<1> HIDE DEF N
<1> DEFINE S == {k \in Nat : k <= N => \E p : UpdatedSound(b, q, f[k], n, k, p, lo, hi)}
<1>3. 0 \in S
  <2>1. ReadsAfter(n, 0) = ReadsFrom(graph, n)
    <3> SUFFICES ASSUME NEW r \in ReadsFrom(graph, n) PROVE r[1] # n \/ r[2] > 0
      BY DEF ReadsAfter
    <3>1. r \in Reads(graph)
      BY DEF ReadsFrom
    <3>2. r[2] \in DOMAIN graph[r[1]].src
      BY <3>1, ReadsFinite
    <3> QED BY <1>1, <3>2
  <2>2. UpdatedSound(b, q, f[0], n, 0, q, lo, hi)
    BY <1>2, <2>1 DEF UpdatedSound
  <2> QED BY <2>2
<1>4. ASSUME NEW k \in Nat, k \in S PROVE k + 1 \in S
  <2> SUFFICES ASSUME k + 1 <= N PROVE \E p : UpdatedSound(b, q, f[k + 1], n, k + 1, p, lo, hi)
    OBVIOUS
  <2>1. k + 1 \in 1 .. N /\ (k + 1) - 1 = k /\ k <= N
    BY <1>1
  <2>2. PICK p : UpdatedSound(b, q, f[k], n, k, p, lo, hi)
    BY <1>4, <2>1
  <2>3. f[k + 1] = UpdateParent(f[k], graph[n].src[k + 1])
    BY <1>2, <2>1
  <2>4. \E o : UpdatedSound(b, q, UpdateParent(f[k], graph[n].src[k + 1]), n, k + 1, o, lo, hi)
    BY <1>1, <2>1, <2>2, UpdatingNext
  <2> QED BY <2>3, <2>4
<1>5. PICK p : UpdatedSound(b, q, f[N], n, N, p, lo, hi)
  <2> HIDE DEF S
  <2>1. Nat \subseteq S
    BY <1>3, <1>4, NatSetInduction
  <2>2. N <= N
    BY <1>1
  <2> QED BY <1>1, <2>1, <2>2 DEF S
<1>6. p = 0
  <2>1. SUFFICES ASSUME p # 0 PROVE FALSE
    OBVIOUS
  <2>2. \E i \in DOMAIN graph[n].src : <<n, i>> \in ReadsAfter(n, N)
    BY <1>5, <2>1 DEF UpdatedSound, Sound, Reusing
  <2>3. PICK i \in 1 .. N : <<n, i>> \in ReadsAfter(n, N)
    BY <1>1, <2>2
  <2>4. i > N
    <3>1. <<n, i>>[1] = n /\ <<n, i>>[2] = i
      OBVIOUS
    <3> QED BY <2>3, <3>1 DEF ReadsAfter
  <2> QED BY <1>1, <2>3, <2>4
<1> QED BY <1>2, <1>5, <1>6 DEF N

(* After all of n's parents the reads from the next node on are left. *)
LEMMA AllUpdated ==
    ASSUME WellFormed(graph), NEW n \in DOMAIN graph, graph[n].kind # "leaf"
    PROVE  ReadsAfter(n, Len(graph[n].src)) = ReadsFrom(graph, n + 1)
<1>1. ReadsFrom(graph, n + 1) = {r \in ReadsFrom(graph, n) : r[1] # n}
  BY PlacedNext
<1>2. ASSUME NEW r \in ReadsFrom(graph, n), r[1] = n PROVE ~(r[2] > Len(graph[n].src))
  <2>1. r \in Reads(graph)
    BY DEF ReadsFrom
  <2>2. r[2] \in DOMAIN graph[n].src
    BY <1>2, <2>1, ReadsFinite
  <2>3. graph[n].src \in Seq(1 .. n - 1)
    BY DEF WellFormed
  <2>4. r[2] \in 1 .. Len(graph[n].src) /\ Len(graph[n].src) \in Nat
    BY <2>2, <2>3
  <2> QED BY <2>4
<1> QED BY <1>1, <1>2 DEF ReadsAfter

(* Before node v is allocated. *)
At(g, a, v, lo, hi) ==
    /\ Sound(g, a, Placed(g, v), ReadsFrom(g, v), 0, 0, lo, hi)
    /\ Intact(g, a, Placed(g, v), v, 0)
    /\ \A m \in DOMAIN g : m < v => SrcsApart(g, a, m)

(* What a node reads stays apart when later nodes are allocated: its data  *)
(* does not move.                                                          *)
LEMMA SrcsStayApart ==
    ASSUME WellFormed(graph), NEW n \in DOMAIN graph, graph[n].kind # "leaf", NEW m \in DOMAIN graph, m < n,
           NEW a, NEW b, SrcsApart(graph, a, m), DataSound(graph, b, Placed(graph, n + 1)),
           \A s \in Placed(graph, n) : b.data[s] = a.data[s]
    PROVE  SrcsApart(graph, b, m)
<1> DEFINE D == Placed(graph, n)
           E == Placed(graph, n + 1)
<1> SUFFICES ASSUME NEW i \in DOMAIN graph[m].src, b.data[graph[m].src[i]] # Null,
                    NEW w \in (Written(graph, graph[m].src[i]) + 1) .. m, WritesIn(graph, w)
             PROVE  \/ Disjoint(graph, b, w, graph[m].src[i])
                    \/ /\ w = m /\ graph[m].kind = "inplace" /\ b.data[m] = b.data[graph[m].src[i]]
                       /\ AllocSize(graph, m) = AllocSize(graph, graph[m].src[i])
  BY DEF SrcsApart
<1> DEFINE t == graph[m].src[i]
<1>1. /\ \A x \in DOMAIN graph : x \in Nat /\ x # 0
      /\ Len(graph) \in Nat /\ DOMAIN graph = 1 .. Len(graph)
  BY Shaped
<1>2. graph[m].kind # "leaf"
  <2>1. SUFFICES ASSUME graph[m].kind = "leaf" PROVE FALSE
    OBVIOUS
  <2>2. graph[m].src = <<>>
    BY <2>1 DEF WellFormed
  <2> QED BY <2>2
<1>3. t \in DOMAIN graph /\ t < m /\ (t \in Placed(graph, m) \/ graph[t].kind = "external")
  <2> HIDE DEF D, E
  <2>1. /\ graph[m].src[i] \in Placed(graph, m) \/ graph[graph[m].src[i]].kind = "external"
        /\ <<m, i>> \in ReadsFrom(graph, m) /\ SrcOf(graph, <<m, i>>) = graph[m].src[i]
        /\ graph[m].src[i] \in DOMAIN graph /\ graph[m].src[i] < m
    BY <1>2, PlacedSrc
  <2> QED BY <2>1
<1>4. t \in E
  BY <1>3 DEF DataSound
<1>5. t \in D
  BY <1>1, <1>3, <1>4 DEF Placed
<1>6. w \in DOMAIN graph /\ w < n
  <2>1. Written(graph, t) \in Nat
    <3>1. CASE graph[t].view_src = NoTensor
      BY <1>1, <1>3, <3>1 DEF Written, Root
    <3>2. CASE graph[t].view_src # NoTensor
      <4>1. graph[t].view_src \in DOMAIN graph
        BY <1>3, <3>2, Shaped
      <4> QED BY <1>1, <3>2, <4>1 DEF Written, Root
    <3> QED BY <3>1, <3>2
  <2>2. w \in (Written(graph, t) + 1) .. m
    OBVIOUS
  <2> HIDE DEF t
  <2> QED BY <1>1, <2>1, <2>2
<1>7. w \in D
  BY <1>6 DEF Placed, WritesIn
<1>8. \/ Disjoint(graph, a, w, t)
      \/ /\ w = m /\ graph[m].kind = "inplace" /\ a.data[m] = a.data[t]
         /\ AllocSize(graph, m) = AllocSize(graph, t)
  <2>1. a.data[t] # Null
    BY <1>5
  <2> QED BY <2>1 DEF SrcsApart
<1>9. b.data[t] = a.data[t] /\ b.data[w] = a.data[w]
  BY <1>5, <1>7
<1> HIDE DEF t
<1>10. \/ Disjoint(graph, b, w, t)
       \/ /\ w = m /\ graph[m].kind = "inplace" /\ b.data[m] = b.data[t]
          /\ AllocSize(graph, m) = AllocSize(graph, t)
  BY <1>8, <1>9 DEF Disjoint, Top
<1> QED BY <1>10 DEF t

(* Its data is all that says whether tensors are apart. *)
LEMMA SameData ==
    ASSUME NEW g, NEW a, NEW b, NEW n, b.data = a.data
    PROVE  /\ \A s, t : Disjoint(g, b, s, t) <=> Disjoint(g, a, s, t)
           /\ SrcsApart(g, b, n) <=> SrcsApart(g, a, n)
<1>1. \A s, t : Disjoint(g, b, s, t) <=> Disjoint(g, a, s, t)
  BY DEF Disjoint, Top
<1>2. SrcsApart(g, b, n) <=> SrcsApart(g, a, n)
  BY DEF SrcsApart, Disjoint, Top
<1> QED BY <1>1, <1>2

(* A round of ggml_tallocr_alloc_graph_impl. *)
LEMMA RoundStep ==
    ASSUME WellFormed(graph), NEW n \in DOMAIN graph, graph[n].kind # "leaf", NEW a,
           NEW lo \in Int, NEW hi \in Int, base \in Nat, base <= lo, At(graph, a, n, lo, hi)
    PROVE  LET c == UpdateParents(AllocateRound(a, n), n)
           IN  Failed(c) \/ At(graph, c, n + 1, lo, hi)
<1> DEFINE D == Placed(graph, n)
           E == Placed(graph, n + 1)
           R == ReadsFrom(graph, n)
           N == Len(graph[n].src)
           b == AllocateNode(a, n)
           c == UpdateParents(b, n)
<1>1. /\ Sound(graph, a, D, R, 0, 0, lo, hi) /\ Intact(graph, a, D, n, 0)
      /\ \A m \in DOMAIN graph : m < n => SrcsApart(graph, a, m)
  BY DEF At
<1>2. DataSound(graph, a, D) /\ CountSound(graph, a, R) /\ a \in Allocs(graph)
  BY <1>1 DEF Sound, DataSound
<1>3. N \in Nat /\ DOMAIN graph[n].src = 1 .. N
  <2>1. graph[n].src \in Seq(1 .. n - 1)
    BY DEF WellFormed
  <2> QED BY <2>1
<1>4. \A k \in 1 .. N : AllocateNode(a, graph[n].src[k]) = a
  <2> SUFFICES ASSUME NEW k \in DOMAIN graph[n].src PROVE AllocateNode(a, graph[n].src[k]) = a
    BY <1>3
  <2> DEFINE t == graph[n].src[k]
  <2>1. t \in D \/ graph[t].kind = "external"
    BY PlacedSrc
  <2>2. t \in D => a.data[t] # Null
    BY <1>2 DEF DataSound, Null
  <2> HIDE DEF D, t
  <2>3. AllocateNode(a, t) = a
    BY <2>1, <2>2 DEF AllocateNode
  <2> QED BY <2>3 DEF t
<1>5. AllocateRound(a, n) = b
  <2>1. N = Len(graph[n].src)
    OBVIOUS
  <2> HIDE DEF N
  <2> QED BY <1>3, <1>4, <2>1, RoundIsNode
<1>6. CASE b = [a EXCEPT !.failed = TRUE]
  <2>1. Failed(b)
    BY <1>2, <1>6 DEF Allocs, Failed
  <2>2. N = Len(graph[n].src)
    OBVIOUS
  <2> HIDE DEF N, b
  <2>3. Failed(c)
    BY <1>3, <2>1, <2>2, UpdatesFail
  <2> QED BY <1>5, <2>3
<1>7. CASE \E q : NodeSound(a, b, n, q, lo, hi)
  <2>1. PICK q : NodeSound(a, b, n, q, lo, hi)
    BY <1>7
  <2>2. /\ Sound(graph, b, E, R, n, q, lo, hi)
        /\ \A s \in D : b.data[s] = a.data[s]
    BY <2>1 DEF NodeSound
  <2> HIDE DEF b, c, N
  <2>3. Intact(graph, b, E, n + 1, q)
    BY <1>1, <1>2, <2>1, NodeIntact
  <2>4. SrcsApart(graph, b, n)
    BY <1>1, <1>2, <2>1, <2>3, NodeSrcs
  <2>5. UpdatedSound(b, q, c, n, N, 0, lo, hi)
    BY <2>2, UpdatingAll DEF c, N
  <2>6. ReadsAfter(n, N) = ReadsFrom(graph, n + 1)
    BY AllUpdated DEF N
  <2>7. /\ Sound(graph, c, E, ReadsFrom(graph, n + 1), n, 0, lo, hi)
        /\ c.data = b.data
        /\ \A s \in DOMAIN graph : Keeps(graph, c, 0, s) => Keeps(graph, b, q, s)
    BY <2>5, <2>6 DEF UpdatedSound
  <2>8. Sound(graph, c, E, ReadsFrom(graph, n + 1), 0, 0, lo, hi)
    <3> HIDE DEF E
    <3> QED BY <2>7, AnyNode
  <2>9. DataSound(graph, c, E) /\ E \subseteq DOMAIN graph
    BY <2>8 DEF Sound, DataSound
  <2>10. Intact(graph, c, E, n + 1, 0)
    <3>1. \A s \in Plain(graph, E) : Keeps(graph, c, 0, s) => Keeps(graph, b, q, s)
      BY <2>7, <2>9 DEF Plain
    <3>2. \A s, t : Disjoint(graph, c, s, t) <=> Disjoint(graph, b, s, t)
      BY <2>7, SameData
    <3> HIDE DEF E
    <3> QED BY <2>3, <3>1, <3>2 DEF Intact
  <2>11. ASSUME NEW m \in DOMAIN graph, m < n + 1 PROVE SrcsApart(graph, c, m)
    <3>1. CASE m = n
      BY <2>4, <2>7, <3>1, SameData
    <3>2. CASE m < n
      <4>1. \A s \in D : c.data[s] = a.data[s]
        BY <2>2, <2>7
      <4>2. SrcsApart(graph, a, m)
        BY <1>1, <3>2
      <4> QED BY <2>9, <3>2, <4>1, <4>2, SrcsStayApart
    <3>3. m \in Nat /\ n \in Nat
      BY Shaped
    <3> QED BY <2>11, <3>1, <3>2, <3>3
  <2>12. At(graph, c, n + 1, lo, hi)
    BY <2>8, <2>10, <2>11 DEF At
  <2> QED BY <1>5, <2>12 DEF c
<1>8. \/ b = [a EXCEPT !.failed = TRUE]
      \/ \E q : NodeSound(a, b, n, q, lo, hi)
  BY <1>1, NodeStep
<1> QED BY <1>6, <1>7, <1>8

-------------------------------------------------------------------------------
(* The beginning of a graph *)

(* Between t and the next node there are only leafs. *)
LeafsUpTo(g, u, v) == \A m \in DOMAIN g : u <= m /\ m < v => g[m].kind = "leaf"

(* NextNode is a node, or the end, and only leafs come before it. *)
LEMMA NextNodeFacts ==
    ASSUME NEW g, WellFormed(g), NEW t \in 0 .. Len(g)
    PROVE  LET v == NextNode(g, t)
           IN  /\ v \in t + 1 .. Len(g) + 1
               /\ v \in DOMAIN g => g[v].kind # "leaf"
               /\ LeafsUpTo(g, t + 1, v)
<1> DEFINE S == {n \in DOMAIN g : n > t /\ g[n].kind # "leaf"} \cup {Len(g) + 1}
           v == NextNode(g, t)
<1>1. Len(g) \in Nat /\ DOMAIN g = 1 .. Len(g)
  BY Shaped
<1>2. S \in SUBSET Nat /\ S # {}
  BY <1>1
<1>3. v = Min(S)
  BY DEF NextNode
<1>4. v \in S /\ \A y \in S : v <= y
  <2> HIDE DEF S, v
  <2> QED BY <1>2, <1>3, MinOf
<1> HIDE DEF v
<1>5. v \in t + 1 .. Len(g) + 1
  BY <1>1, <1>4
<1>6. v \in DOMAIN g => g[v].kind # "leaf"
  <2>1. Len(g) + 1 \notin DOMAIN g
    BY <1>1
  <2> QED BY <1>4, <2>1
<1>7. LeafsUpTo(g, t + 1, v)
  <2> SUFFICES ASSUME NEW m \in DOMAIN g, t + 1 <= m, m < v, g[m].kind # "leaf" PROVE FALSE
    BY DEF LeafsUpTo
  <2>1. m > t
    BY <1>1
  <2>2. m \in S
    BY <2>1
  <2>3. v <= m
    BY <1>4, <2>2
  <2> HIDE DEF S
  <2> QED BY <1>1, <1>5, <2>3
<1> QED BY <1>5, <1>6, <1>7 DEF v

(* Leafs change nothing. *)
LEMMA Skip ==
    ASSUME NEW g, WellFormed(g), NEW u \in Nat, NEW v \in 0 .. Len(g) + 1, u <= v, NEW a,
           NEW lo, NEW hi, LeafsUpTo(g, u, v), At(g, a, u, lo, hi)
    PROVE  At(g, a, v, lo, hi)
<1>1. /\ \A x \in DOMAIN g : x \in Nat
      /\ \A x \in DOMAIN g : g[x].kind = "leaf" => g[x].src = <<>>
  <2>1. \A x \in DOMAIN g : x \in Nat
    BY Shaped
  <2>2. \A x \in DOMAIN g : g[x].kind = "leaf" => g[x].src = <<>>
    BY DEF WellFormed
  <2> QED BY <2>1, <2>2
<1>2. Placed(g, v) = Placed(g, u)
  <2>1. \A x \in DOMAIN g : g[x].kind # "leaf" => (x < v <=> x < u)
    BY <1>1 DEF LeafsUpTo
  <2> QED BY <2>1 DEF Placed
<1>3. ReadsFrom(g, v) = ReadsFrom(g, u)
  <2> SUFFICES ASSUME NEW r \in Reads(g) PROVE r[1] >= v <=> r[1] >= u
    BY DEF ReadsFrom
  <2>1. r[1] \in DOMAIN g /\ r[2] \in DOMAIN g[r[1]].src
    BY ReadsFinite
  <2>2. g[r[1]].kind # "leaf"
    <3>1. SUFFICES ASSUME g[r[1]].kind = "leaf" PROVE FALSE
      OBVIOUS
    <3>2. r[2] \in DOMAIN <<>>
      BY <1>1, <2>1, <3>1
    <3> QED BY <3>2
  <2> QED BY <1>1, <2>1, <2>2 DEF LeafsUpTo
<1>4. Intact(g, a, Placed(g, v), v, 0)
  <2> SUFFICES ASSUME NEW s \in Plain(g, Placed(g, v)), Keeps(g, a, 0, s),
                      NEW w \in (Written(g, s) + 1) .. v - 1, WritesIn(g, w)
               PROVE  Disjoint(g, a, w, s)
    BY DEF Intact
  <2>1. s \in DOMAIN g
    BY DEF Plain, Placed
  <2>2. Written(g, s) \in Nat
    BY <1>1, <2>1 DEF Written, Root, Plain
  <2>3. w \in Nat /\ w >= 1 /\ w < v
    BY <2>2
  <2>4. w \in DOMAIN g
    <3>1. Len(g) \in Nat /\ DOMAIN g = 1 .. Len(g)
      BY Shaped
    <3> QED BY <2>3, <3>1
  <2>5. w < u
    BY <2>3, <2>4 DEF LeafsUpTo, WritesIn
  <2>6. w \in (Written(g, s) + 1) .. u - 1
    BY <2>2, <2>3, <2>5
  <2> QED BY <1>2, <2>6 DEF At, Intact
<1>5. ASSUME NEW m \in DOMAIN g, m < v PROVE SrcsApart(g, a, m)
  <2>1. CASE m < u
    BY <2>1 DEF At
  <2>2. CASE m >= u
    <3>1. g[m].src = <<>>
      BY <1>1, <1>5, <2>2 DEF LeafsUpTo
    <3> QED BY <3>1 DEF SrcsApart
  <2> QED BY <1>1, <2>1, <2>2
<1>6. Sound(g, a, Placed(g, v), ReadsFrom(g, v), 0, 0, lo, hi)
  BY <1>2, <1>3 DEF At
<1> QED BY <1>4, <1>5, <1>6 DEF At

(* The buffer loses less than an alignment at its beginning. *)
LEMMA Offset ==
    ASSUME NEW buffer \in Nat
    PROVE  AlignedOffset(buffer, 0) \in 0 .. Align - 1
<1>1. Align \in Nat \ {0}
  BY AlignAssumption
<1>2. (buffer + 0) % Align \in 0 .. Align - 1
  BY <1>1
<1>3. Align - ((buffer + 0) % Align) \in Nat
  BY <1>1, <1>2
<1>4. (Align - ((buffer + 0) % Align)) % Align \in 0 .. Align - 1
  <2> DEFINE k == Align - ((buffer + 0) % Align)
  <2>1. k \in Nat
    BY <1>3
  <2> HIDE DEF k
  <2>2. k % Align \in 0 .. Align - 1
    BY <1>1, <2>1
  <2> QED BY <2>2 DEF k
<1> QED BY <1>1, <1>4 DEF AlignedOffset

(* The inputs among the first t tensors. *)
InputsUpTo(g, t) == {x \in DOMAIN g : g[x].input /\ x <= t}

(* ggml_tallocr_reset: the whole buffer is free and nothing is allocated,  *)
(* but all reads are to come.                                              *)
LEMMA FreshSound ==
    ASSUME NEW g, WellFormed(g), NEW buffer \in Nat, NEW bytes \in Nat, AlignedOffset(buffer, 0) < bytes
    PROVE  Sound(g, Fresh(g, buffer, bytes), {}, Reads(g), 0, 0,
                 buffer + AlignedOffset(buffer, 0), buffer + bytes)
<1> DEFINE lo == buffer + AlignedOffset(buffer, 0)
           hi == buffer + bytes
           block == Block(lo, bytes - AlignedOffset(buffer, 0))
           a == Fresh(g, buffer, bytes)
<1>1. lo \in Nat /\ hi \in Nat /\ lo < hi /\ bytes - AlignedOffset(buffer, 0) \in Nat \ {0}
  <2>1. AlignedOffset(buffer, 0) \in Nat
    BY Offset, AlignAssumption
  <2> QED BY <2>1
<1>2. block \in Blocks /\ block.addr = lo /\ End(block) = hi
  <2> DEFINE n == AlignedOffset(buffer, 0)
  <2>1. n \in Nat
    BY Offset, AlignAssumption
  <2> HIDE DEF n
  <2> QED BY <1>1, <2>1 DEF Blocks, Block, End, n
<1>3. /\ a.blocks = <<block>> /\ a.max_size = 0 /\ a.failed = FALSE
      /\ a.data = [t \in DOMAIN g |-> Null]
      /\ a.view_src = [t \in DOMAIN g |-> g[t].view_src]
      /\ a.n_children = [t \in DOMAIN g |-> Cardinality(ReadsOf(g, t))]
      /\ a.n_views = [t \in DOMAIN g |-> Cardinality({n \in DOMAIN g : g[n].view_src = t})]
      /\ a.live = {} /\ a.own = [t \in DOMAIN g |-> t] /\ a.dropped = {}
  BY DEF Fresh
<1>14. a = [blocks |-> a.blocks, max_size |-> a.max_size, failed |-> a.failed, data |-> a.data,
             view_src |-> a.view_src, n_children |-> a.n_children, n_views |-> a.n_views,
             live |-> a.live, own |-> a.own, dropped |-> a.dropped]
  BY DEF Fresh
<1> HIDE DEF a, block
<1>4. \A t \in DOMAIN g :
        /\ Cardinality(ReadsOf(g, t)) \in Nat /\ (Cardinality(ReadsOf(g, t)) = 0 <=> ReadsOf(g, t) = {})
        /\ Cardinality({n \in DOMAIN g : g[n].view_src = t}) \in Nat
  <2> SUFFICES ASSUME NEW t \in DOMAIN g
               PROVE  /\ Cardinality(ReadsOf(g, t)) \in Nat
                      /\ (Cardinality(ReadsOf(g, t)) = 0 <=> ReadsOf(g, t) = {})
                      /\ Cardinality({n \in DOMAIN g : g[n].view_src = t}) \in Nat
    OBVIOUS
  <2>1. IsFiniteSet(ReadsOf(g, t))
    <3>1. ReadsOf(g, t) \subseteq Reads(g)
      BY ReadsFinite DEF ReadsIn
    <3> QED BY <3>1, ReadsFinite, FS_Subset
  <2>2. IsFiniteSet({n \in DOMAIN g : g[n].view_src = t})
    <3> DEFINE V == {n \in DOMAIN g : g[n].view_src = t}
    <3>1. V \subseteq DOMAIN g
      OBVIOUS
    <3> HIDE DEF V
    <3>2. IsFiniteSet(V)
      BY <3>1, ReadsFinite, FS_Subset
    <3> QED BY <3>2 DEF V
  <2>3. Cardinality(ReadsOf(g, t)) \in Nat /\ (Cardinality(ReadsOf(g, t)) = 0 <=> ReadsOf(g, t) = {})
    BY <2>1, FewElements
  <2>4. Cardinality({n \in DOMAIN g : g[n].view_src = t}) \in Nat
    BY <2>2, FS_CardinalityType
  <2> QED BY <2>3, <2>4
<1>5. \A t \in DOMAIN g : g[t].view_src \in Int /\ t \in Nat /\ t # 0
  <2>1. \A t \in DOMAIN g : t \in Nat /\ t # 0
    BY Shaped
  <2>2. \A t \in DOMAIN g : g[t].view_src \in Int
    BY <2>1, Shaped DEF NoTensor
  <2> QED BY <2>1, <2>2
<1>6. a \in Allocs(g)
  <2>1. <<block>> \in Seq(Blocks)
    BY <1>2
  <2>2. a.failed \in BOOLEAN
    BY <1>3
  <2>3. a.blocks \in Seq(Blocks) /\ a.max_size \in Nat
    BY <1>3, <2>1
  <2>4. a.live \in SUBSET DOMAIN g /\ a.dropped \in SUBSET DOMAIN g
    BY <1>3
  <2>5. a.data \in [DOMAIN g -> Int] /\ a.view_src \in [DOMAIN g -> Int] /\ a.own \in [DOMAIN g -> DOMAIN g]
    BY <1>3, <1>5 DEF Null
  <2>6. a.n_children \in [DOMAIN g -> Int]
    <3> DEFINE Count(t) == Cardinality(ReadsOf(g, t))
    <3>1. a.n_children = [t \in DOMAIN g |-> Count(t)] /\ \A t \in DOMAIN g : Count(t) \in Nat
      BY <1>3, <1>4
    <3> HIDE DEF Count
    <3> QED BY <3>1
  <2>7. a.n_views \in [DOMAIN g -> Int]
    <3> DEFINE Count(t) == Cardinality({n \in DOMAIN g : g[n].view_src = t})
    <3>1. a.n_views = [t \in DOMAIN g |-> Count(t)] /\ \A t \in DOMAIN g : Count(t) \in Nat
      BY <1>3, <1>4
    <3> HIDE DEF Count
    <3> QED BY <3>1
  <2> QED BY <1>14, <2>2, <2>3, <2>4, <2>5, <2>6, <2>7 DEF Allocs
<1>7. DataSound(g, a, {})
  BY <1>3, <1>6 DEF DataSound, Plain
<1>8. \A x \in Nat : InFree(a.blocks, x) <=> lo <= x /\ x < hi
  <2>1. DOMAIN <<block>> = {1} /\ <<block>>[1] = block
    OBVIOUS
  <2> HIDE DEF lo, hi
  <2> QED BY <1>2, <1>3, <2>1 DEF InFree, In
<1>9. Table(a.blocks)
  <2>1. <<block>> \in Seq(Blocks) /\ DOMAIN <<block>> = {1}
    BY <1>2
  <2> QED BY <1>3, <2>1 DEF Table
<1>10. LiveSound(g, a, {}, lo, hi)
  <2> HIDE DEF lo, hi
  <2> QED BY <1>3, <1>8, <1>9 DEF LiveSound, Plain
<1>11. CountSound(g, a, Reads(g))
  <2>1. \A t \in DOMAIN g : a.n_children[t] = Cardinality(ReadsIn(g, Reads(g), t))
    BY <1>3, ReadsFinite
  <2>2. \A t \in DOMAIN g : a.n_views[t] = Cardinality(Views(g, a, t))
    <3> SUFFICES ASSUME NEW t \in DOMAIN g PROVE a.n_views[t] = Cardinality(Views(g, a, t))
      OBVIOUS
    <3>1. Views(g, a, t) = {n \in DOMAIN g : g[n].view_src = t}
      BY <1>3 DEF Views
    <3> QED BY <1>3, <3>1
  <2>3. \A t \in DOMAIN g : Read(g, t) => a.n_children[t] # 0
    BY <1>3, <1>4 DEF Read
  <2> QED BY <1>3, <2>1, <2>2, <2>3 DEF CountSound
<1>12. KeepSound(g, a, {}, 0)
  BY <1>3 DEF KeepSound, LiveDue, LastKeeps, NoLeak, LastViews, Plain
<1>13. Sound(g, a, {}, Reads(g), 0, 0, lo, hi)
  BY <1>7, <1>10, <1>11, <1>12 DEF Sound, Reusing
<1> QED BY <1>13 DEF a

(* The recursive function of Built: the callback of llama_build_graph      *)
(* allocates the inputs.                                                   *)
AfterInput(g, buffer, a, t) == IF g[t].input THEN Alloc(g, buffer, a, t) ELSE a
Builds(g, buffer, bytes, N, f) ==
    f = [t \in 0 .. N |-> IF t = 0 THEN Fresh(g, buffer, bytes) ELSE AfterInput(g, buffer, f[t - 1], t)]

(* Built is the last value of such a function. *)
LEMMA BuiltByInputs ==
    ASSUME NEW g, NEW buffer, NEW bytes
    PROVE  Built(g, buffer, bytes) = (CHOOSE f : Builds(g, buffer, bytes, Len(g), f))[Len(g)]
BY DEF Built, Builds, AfterInput

(* There is such a function, by induction on the number of tensors. *)
LEMMA BuildsExist ==
    ASSUME NEW g, NEW buffer, NEW bytes, NEW N \in Nat
    PROVE  \E f : Builds(g, buffer, bytes, N, f)
<1> DEFINE a == Fresh(g, buffer, bytes)
           S == {m \in Nat : \E f : Builds(g, buffer, bytes, m, f)}
<1> HIDE DEF a
<1>1. 0 \in S
  <2> DEFINE f == [k \in 0 .. 0 |-> a]
  <2>1. f = [t \in 0 .. 0 |-> IF t = 0 THEN a ELSE AfterInput(g, buffer, f[t - 1], t)]
    OBVIOUS
  <2> HIDE DEF f
  <2>2. Builds(g, buffer, bytes, 0, f)
    BY <2>1 DEF Builds, a
  <2> QED BY <2>2
<1>2. ASSUME NEW m \in Nat, m \in S PROVE m + 1 \in S
  <2>1. PICK f : Builds(g, buffer, bytes, m, f)
    BY <1>2
  <2> DEFINE v == AfterInput(g, buffer, f[m], m + 1)
             e == [k \in 0 .. m + 1 |-> IF k <= m THEN f[k] ELSE v]
             h == [k \in 0 .. m + 1 |-> IF k = 0 THEN a ELSE AfterInput(g, buffer, e[k - 1], k)]
  <2>2. \A k \in 0 .. m : f[k] = IF k = 0 THEN a ELSE AfterInput(g, buffer, f[k - 1], k)
    BY <2>1 DEF Builds, a
  <2>3. ASSUME NEW k \in 0 .. m + 1 PROVE e[k] = h[k]
    <3>1. CASE k = 0
      <4>1. e[0] = f[0] /\ h[0] = a
        OBVIOUS
      <4>2. f[0] = a
        BY <2>2
      <4> QED BY <3>1, <4>1, <4>2
    <3>2. CASE k # 0 /\ k <= m
      <4>1. e[k] = f[k] /\ e[k - 1] = f[k - 1]
        BY <3>2
      <4>2. h[k] = AfterInput(g, buffer, e[k - 1], k)
        BY <3>2
      <4> QED BY <2>2, <3>2, <4>1, <4>2
    <3>3. CASE k = m + 1
      <4>1. e[m + 1] = v /\ e[m] = f[m]
        OBVIOUS
      <4>2. (m + 1) - 1 = m /\ m + 1 # 0 /\ m + 1 \in 0 .. m + 1
        OBVIOUS
      <4>3. h[m + 1] = AfterInput(g, buffer, e[m], m + 1)
        <5> HIDE DEF e
        <5> QED BY <4>2
      <4> QED BY <3>3, <4>1, <4>3
    <3> QED BY <3>1, <3>2, <3>3
  <2>4. e = h
    <3>1. e = [k \in 0 .. m + 1 |-> e[k]] /\ h = [k \in 0 .. m + 1 |-> h[k]]
      OBVIOUS
    <3> HIDE DEF e, h
    <3> QED BY <2>3, <3>1
  <2>5. Builds(g, buffer, bytes, m + 1, e)
    <3> HIDE DEF e
    <3> QED BY <2>4 DEF Builds, a
  <2> HIDE DEF e
  <2> QED BY <2>5
<1> HIDE DEF S
<1>3. N \in S
  BY <1>1, <1>2, NatSetInduction
<1> QED BY <1>3 DEF S

(* What failed has failed, for ggml_tallocr_alloc. *)
LEMMA AllocFails ==
    ASSUME NEW g, NEW buffer, NEW a, NEW t, Failed(a)
    PROVE  Failed(Alloc(g, buffer, a, t))
BY DEF Alloc, Failed

(* The inputs are allocated as the graph is built. *)
LEMMA InputSound ==
    ASSUME NEW g, WellFormed(g), NEW buffer \in Nat, NEW lo \in Int, NEW hi \in Int, buffer <= lo,
           NEW a, NEW k \in Nat, k + 1 \in DOMAIN g, Sound(g, a, InputsUpTo(g, k), Reads(g), 0, 0, lo, hi)
    PROVE  LET b == AfterInput(g, buffer, a, k + 1)
           IN  Failed(b) \/ Sound(g, b, InputsUpTo(g, k + 1), Reads(g), 0, 0, lo, hi)
<1> DEFINE t == k + 1
           D == InputsUpTo(g, k)
           b == AfterInput(g, buffer, a, t)
<1>1. t \in DOMAIN g /\ t \notin D
  BY DEF InputsUpTo
<1>2. InputsUpTo(g, t) = IF g[t].input THEN D \cup {t} ELSE D
  <2>1. \A x \in DOMAIN g : x <= t <=> x <= k \/ x = t
    BY Shaped
  <2> QED BY <1>1, <2>1 DEF InputsUpTo
<1>3. a \in Allocs(g)
  BY DEF Sound, DataSound
<1> HIDE DEF D, t
<1>4. CASE ~g[t].input
  BY <1>2, <1>4 DEF AfterInput, D, t
<1>5. CASE g[t].input
  <2>1. b = Alloc(g, buffer, a, t)
    BY <1>5 DEF AfterInput
  <2>2. CASE BestFit(a.blocks, AllocSize(g, t)) = 0
    <3>1. b = [a EXCEPT !.failed = TRUE]
      BY <2>1, <2>2 DEF Alloc
    <3> HIDE DEF b
    <3>2. Failed(b)
      BY <1>3, <3>1 DEF Allocs, Failed
    <3> QED BY <3>2 DEF b, t
  <2>3. CASE BestFit(a.blocks, AllocSize(g, t)) # 0
    <3>1. g[t].view_src = NoTensor
      BY <1>1, <1>5 DEF WellFormed
    <3>2. ReadsOf(g, t) \subseteq Reads(g)
      BY ReadsFinite DEF ReadsIn
    <3>3. Sound(g, a, D, Reads(g), 0, 0, lo, hi)
      BY DEF D
    <3>4. PlacedSound(g, a, Alloc(g, buffer, a, t), D, Reads(g), t, 0, 0, lo, hi)
      BY <1>1, <2>3, <3>1, <3>2, <3>3, AllocSound
    <3> HIDE DEF b
    <3>5. Sound(g, b, InputsUpTo(g, t), Reads(g), 0, 0, lo, hi)
      BY <1>2, <1>5, <2>1, <3>4 DEF PlacedSound
    <3> QED BY <3>5 DEF b, t
  <2> QED BY <2>2, <2>3
<1> QED BY <1>4, <1>5

(* The allocator when a graph is built, in a buffer that is large enough   *)
(* for its own alignment.                                                  *)
LEMMA BuiltSound ==
    ASSUME NEW g, WellFormed(g), NEW buffer \in Nat, NEW bytes \in Nat, AlignedOffset(buffer, 0) < bytes
    PROVE  \/ Failed(Built(g, buffer, bytes))
           \/ At(g, Built(g, buffer, bytes), 1, buffer + AlignedOffset(buffer, 0), buffer + bytes)
<1> DEFINE lo == buffer + AlignedOffset(buffer, 0)
           hi == buffer + bytes
           f == CHOOSE e : Builds(g, buffer, bytes, Len(g), e)
           S == {k \in Nat : k <= Len(g) =>
                    Failed(f[k]) \/ Sound(g, f[k], InputsUpTo(g, k), Reads(g), 0, 0, lo, hi)}
<1>1. Len(g) \in Nat /\ DOMAIN g = 1 .. Len(g)
  BY Shaped
<1>2. Builds(g, buffer, bytes, Len(g), f)
  BY <1>1, BuildsExist
<1>3. Built(g, buffer, bytes) = f[Len(g)]
  BY BuiltByInputs
<1> HIDE DEF f
<1>4. \A k \in 0 .. Len(g) :
        f[k] = IF k = 0 THEN Fresh(g, buffer, bytes) ELSE AfterInput(g, buffer, f[k - 1], k)
  BY <1>2 DEF Builds
<1>5. lo \in Int /\ hi \in Int /\ buffer <= lo
  <2>1. AlignedOffset(buffer, 0) \in Nat
    BY Offset, AlignAssumption
  <2> QED BY <2>1
<1>6. 0 \in S
  <2>1. f[0] = Fresh(g, buffer, bytes)
    BY <1>1, <1>4
  <2>2. InputsUpTo(g, 0) = {}
    BY <1>1 DEF InputsUpTo
  <2>3. Sound(g, f[0], InputsUpTo(g, 0), Reads(g), 0, 0, lo, hi)
    BY <2>1, <2>2, FreshSound
  <2> QED BY <2>3
<1> HIDE DEF lo, hi
<1>7. ASSUME NEW k \in Nat, k \in S PROVE k + 1 \in S
  <2> SUFFICES ASSUME k + 1 <= Len(g)
               PROVE  Failed(f[k + 1]) \/ Sound(g, f[k + 1], InputsUpTo(g, k + 1), Reads(g), 0, 0, lo, hi)
    OBVIOUS
  <2>1. k + 1 \in DOMAIN g /\ k + 1 \in 0 .. Len(g) /\ (k + 1) - 1 = k /\ k <= Len(g) /\ k + 1 # 0
    BY <1>1
  <2>2. f[k + 1] = AfterInput(g, buffer, f[k], k + 1)
    BY <1>4, <2>1
  <2>3. CASE Failed(f[k])
    BY <2>2, <2>3, AllocFails DEF AfterInput
  <2>4. CASE Sound(g, f[k], InputsUpTo(g, k), Reads(g), 0, 0, lo, hi)
    BY <1>5, <2>1, <2>2, <2>4, InputSound
  <2> QED BY <1>7, <2>1, <2>3, <2>4
<1>8. Failed(f[Len(g)]) \/ Sound(g, f[Len(g)], InputsUpTo(g, Len(g)), Reads(g), 0, 0, lo, hi)
  <2> HIDE DEF S
  <2>1. Nat \subseteq S
    BY <1>6, <1>7, NatSetInduction
  <2>2. Len(g) <= Len(g)
    BY <1>1
  <2> QED BY <1>1, <2>1, <2>2 DEF S
<1>9. InputsUpTo(g, Len(g)) = Placed(g, 1) /\ Reads(g) = ReadsFrom(g, 1)
  <2>1. \A x \in DOMAIN g : x <= Len(g) /\ ~(x < 1)
    BY <1>1
  <2>2. \A x \in DOMAIN g : g[x].input => g[x].kind # "external"
    BY DEF WellFormed
  <2>3. InputsUpTo(g, Len(g)) = Placed(g, 1)
    BY <2>1, <2>2 DEF InputsUpTo, Placed
  <2>4. \A r \in Reads(g) : r[1] >= 1
    BY <1>1, ReadsFinite
  <2> QED BY <2>3, <2>4 DEF ReadsFrom
<1> DEFINE a == f[Len(g)]
<1> HIDE DEF a
<1>10. ASSUME Sound(g, a, Placed(g, 1), ReadsFrom(g, 1), 0, 0, lo, hi)
       PROVE  At(g, a, 1, lo, hi)
  <2>1. Intact(g, a, Placed(g, 1), 1, 0)
    <3> SUFFICES ASSUME NEW s \in Plain(g, Placed(g, 1)), NEW w \in (Written(g, s) + 1) .. 1 - 1 PROVE FALSE
      BY DEF Intact
    <3>1. Written(g, s) \in Nat
      BY <1>1 DEF Written, Root, Plain, Placed
    <3> QED BY <3>1
  <2>2. \A m \in DOMAIN g : ~(m < 1)
    BY <1>1
  <2> QED BY <1>10, <2>1, <2>2 DEF At
<1> QED BY <1>3, <1>8, <1>9, <1>10 DEF a, lo, hi

-------------------------------------------------------------------------------
(* Building a graph *)

(* The graph before it is allocated: AddLeaf, AddOp and AddView built it. *)
Ordinary(g) == \A t \in DOMAIN g : g[t].kind # "external" /\ (g[t].kind = "leaf" => g[t].input)

(* Tensor t is one of x's srcs. *)
SrcIs(x, t) == \E i \in DOMAIN x.src : x.src[i] = t

(* A tensor that can come next in such a graph. *)
Fitting(g, x) ==
    /\ x.kind \in {"leaf", "op", "inplace", "view"}
    /\ x.src \in Seq(DOMAIN g)
    /\ NBytes(x.shape) \in Nat \ {0}
    /\ x.input \in BOOLEAN /\ (x.input => x.kind = "leaf")
    /\ x.kind = "leaf" => x.src = <<>> /\ x.input
    /\ IF x.kind = "view"
       THEN /\ x.view_src \in DOMAIN g /\ g[x.view_src].kind # "view"
            /\ Read(g, x.view_src) \/ SrcIs(x, x.view_src)
            /\ x.offs \in Nat /\ x.offs % Align = 0
            /\ x.offs + NBytes(x.shape) <= NBytes(g[x.view_src].shape)
       ELSE x.view_src = NoTensor /\ x.offs = 0

(* Any sequence is one of its own elements. *)
Sequence(g) == g \in Seq({g[t] : t \in DOMAIN g})

(* A graph with one tensor more. *)
LEMMA AppendedTensors ==
    ASSUME NEW g, WellFormed(g), NEW x, NEW h, h = Append(g, x)
    PROVE  /\ Len(h) = Len(g) + 1 /\ DOMAIN h = 1 .. Len(g) + 1
           /\ \A s \in DOMAIN g : s \in DOMAIN h /\ h[s] = g[s]
           /\ h[Len(g) + 1] = x
           /\ Sequence(h)
<1> DEFINE n == Len(g) + 1
<1>1. Len(g) \in Nat /\ DOMAIN g = 1 .. Len(g) /\ g \in Seq({g[s] : s \in DOMAIN g})
  BY DEF WellFormed
<1>2. /\ Len(h) = n /\ DOMAIN h = 1 .. n /\ h[n] = x /\ \A s \in DOMAIN g : h[s] = g[s]
      /\ h = [s \in 1 .. n |-> h[s]]
  <2> DEFINE S == {g[s] : s \in DOMAIN g}
             T == S \cup {x}
  <2>1. g \in Seq(T) /\ x \in T
    <3>1. g \in Seq(S)
      BY <1>1
    <3> HIDE DEF S
    <3>2. \A s \in 1 .. Len(g) : g[s] \in T
      BY <3>1
    <3> QED BY <3>1, <3>2
  <2> HIDE DEF T
  <2>2. h \in Seq(T) /\ Len(h) = n /\ h[n] = x /\ \A s \in DOMAIN g : h[s] = g[s]
    BY <1>1, <2>1, AppendProperties
  <2>3. h \in [1 .. n -> T]
    BY <2>2, LenProperties
  <2> QED BY <2>2, <2>3
<1>3. h \in Seq({h[s] : s \in DOMAIN h})
  <2> DEFINE V == {h[s] : s \in DOMAIN h}
  <2>1. \A s \in 1 .. n : h[s] \in V
    BY <1>2
  <2>2. h = [s \in 1 .. n |-> h[s]]
    BY <1>2
  <2> HIDE DEF V
  <2>3. h \in [1 .. n -> V]
    BY <2>1, <2>2
  <2>4. n \in Nat
    BY <1>1
  <2>5. h \in Seq(V)
    BY <2>3, <2>4, SeqDef
  <2> QED BY <2>5 DEF V
<1>4. \A s \in DOMAIN g : s \in DOMAIN h /\ s # n
  BY <1>1, <1>2
<1> QED BY <1>2, <1>3, <1>4 DEF Sequence

(* A tensor that some node has as a src. *)
LEMMA IsRead ==
    ASSUME NEW g, NEW t
    PROVE  Read(g, t) <=> \E m \in DOMAIN g : \E i \in DOMAIN g[m].src : g[m].src[i] = t
<1>1. \A r : r \in ReadsOf(g, t) <=>
        \E m \in DOMAIN g : \E i \in DOMAIN g[m].src : r = <<m, i>> /\ g[m].src[i] = t
  BY DEF ReadsOf
<1> QED BY <1>1 DEF Read

(* What is read in a graph with one tensor more. *)
LEMMA AppendedReads ==
    ASSUME NEW g, WellFormed(g), NEW x, NEW h, h = Append(g, x), NEW t
    PROVE  Read(h, t) <=> Read(g, t) \/ SrcIs(x, t)
<1> DEFINE n == Len(g) + 1
<1>1. Len(g) \in Nat /\ DOMAIN g = 1 .. Len(g)
  BY DEF WellFormed
<1>2. DOMAIN h = 1 .. n /\ (\A s \in DOMAIN g : s \in DOMAIN h /\ h[s] = g[s]) /\ h[n] = x
  BY AppendedTensors
<1>3. n \in DOMAIN h /\ \A s \in DOMAIN h : s = n \/ s \in DOMAIN g
  BY <1>1, <1>2
<1> HIDE DEF n
<1>4. (\E m \in DOMAIN h : \E i \in DOMAIN h[m].src : h[m].src[i] = t)
      <=> \/ \E m \in DOMAIN g : \E i \in DOMAIN g[m].src : g[m].src[i] = t
          \/ \E i \in DOMAIN x.src : x.src[i] = t
  BY <1>2, <1>3
<1> QED BY <1>4, IsRead DEF SrcIs

(* A graph stays well formed when a tensor that fits is added. *)
LEMMA Appended ==
    ASSUME NEW g, WellFormed(g), Ordinary(g), NEW x, Fitting(g, x), NEW h, h = Append(g, x)
    PROVE  WellFormed(h) /\ Ordinary(h)
<1> DEFINE n == Len(g) + 1
<1>1. Len(g) \in Nat /\ DOMAIN g = 1 .. Len(g)
  BY DEF WellFormed
<1>2. /\ DOMAIN h = 1 .. n /\ \A s \in DOMAIN g : s \in DOMAIN h /\ h[s] = g[s]
      /\ h[n] = x /\ Sequence(h)
  <2>1. DOMAIN h = 1 .. n /\ h[n] = x
    BY AppendedTensors
  <2>2. \A s \in DOMAIN g : s \in DOMAIN h /\ h[s] = g[s]
    BY AppendedTensors
  <2>3. Sequence(h)
    BY AppendedTensors
  <2> QED BY <2>1, <2>2, <2>3
<1>3. \A t : Read(h, t) <=> Read(g, t) \/ SrcIs(x, t)
  BY AppendedReads
<1>4. \A s \in DOMAIN h : s = n \/ s \in DOMAIN g
  BY <1>1, <1>2
<1>5. Ordinary(h)
  BY <1>2, <1>4 DEF Ordinary, Fitting
<1> DEFINE Formed(t) ==
        /\ h[t].kind \in {"leaf", "op", "inplace", "view", "external"}
        /\ h[t].src \in Seq(1 .. t - 1)
        /\ NBytes(h[t].shape) \in Nat \ {0}
        /\ h[t].input \in BOOLEAN
        /\ h[t].input => h[t].kind \in {"leaf", "op"}
        /\ h[t].kind = "leaf" => h[t].src = <<>> /\ (h[t].input \/ ~Read(h, t))
        /\ IF h[t].kind = "view"
           THEN LET root == h[t].view_src IN
                /\ root \in 1 .. t - 1 /\ Read(h, root)
                /\ h[root].kind \notin {"view", "external"}
                /\ h[t].offs \in Nat /\ h[t].offs % Align = 0
                /\ h[t].offs + NBytes(h[t].shape) <= NBytes(h[root].shape)
           ELSE h[t].view_src = NoTensor /\ h[t].offs = 0
<1>6. ASSUME NEW t \in DOMAIN g PROVE Formed(t)
  <2>1. h[t] = g[t] /\ (g[t].kind = "leaf" => g[t].input)
    BY <1>2 DEF Ordinary
  <2>2. /\ g[t].kind \in {"leaf", "op", "inplace", "view", "external"}
        /\ g[t].src \in Seq(1 .. t - 1)
        /\ NBytes(g[t].shape) \in Nat \ {0}
        /\ g[t].input \in BOOLEAN
        /\ g[t].input => g[t].kind \in {"leaf", "op"}
        /\ g[t].kind = "leaf" => g[t].src = <<>>
    BY DEF WellFormed
  <2>3. IF g[t].kind = "view"
        THEN LET root == g[t].view_src IN
             /\ root \in 1 .. t - 1 /\ Read(g, root)
             /\ g[root].kind \notin {"view", "external"}
             /\ g[t].offs \in Nat /\ g[t].offs % Align = 0
             /\ g[t].offs + NBytes(g[t].shape) <= NBytes(g[root].shape)
        ELSE g[t].view_src = NoTensor /\ g[t].offs = 0
    BY DEF WellFormed
  <2>4. \A root \in 1 .. t - 1 : h[root] = g[root]
    BY <1>1, <1>2
  <2> QED BY <1>3, <2>1, <2>2, <2>3, <2>4
<1>7. Formed(n)
  <2>1. DOMAIN g = 1 .. n - 1
    BY <1>1
  <2>2. /\ x.kind \in {"leaf", "op", "inplace", "view", "external"}
        /\ x.src \in Seq(1 .. n - 1)
        /\ NBytes(x.shape) \in Nat \ {0}
        /\ x.input \in BOOLEAN
        /\ x.input => x.kind \in {"leaf", "op"}
        /\ x.kind = "leaf" => x.src = <<>> /\ x.input
    BY <2>1 DEF Fitting
  <2>3. CASE x.kind = "view"
    <3> DEFINE root == x.view_src
    <3>1. /\ root \in DOMAIN g /\ g[root].kind # "view"
          /\ Read(g, root) \/ SrcIs(x, root)
          /\ x.offs \in Nat /\ x.offs % Align = 0
          /\ x.offs + NBytes(x.shape) <= NBytes(g[root].shape)
      BY <2>3 DEF Fitting
    <3> HIDE DEF root
    <3>2. h[root] = g[root] /\ g[root].kind # "external" /\ Read(h, root)
      BY <1>2, <1>3, <3>1 DEF Ordinary
    <3> QED BY <1>2, <2>1, <2>2, <2>3, <3>1, <3>2 DEF root
  <2>4. CASE x.kind # "view"
    <3>1. x.view_src = NoTensor /\ x.offs = 0
      BY <2>4 DEF Fitting
    <3> QED BY <1>2, <2>2, <2>4, <3>1
  <2> QED BY <2>3, <2>4
<1>8. \A t \in DOMAIN h : Formed(t)
  <2> HIDE DEF Formed
  <2> QED BY <1>4, <1>6, <1>7
<1>9. WellFormed(h)
  BY <1>2, <1>8 DEF WellFormed, Sequence
<1> QED BY <1>5, <1>9

(* A multiple of A and A. *)
LEMMA OneMore ==
    ASSUME NEW A \in Nat \ {0}, NEW n \in Nat, n % A = 0
    PROVE  (n + A) % A = 0
<1>1. PICK k \in Nat : n = A * k + (n % A)
  BY Multiple
<1>2. n + A = A * (k + 1)
  BY <1>1
<1>3. n + A \in Nat /\ (n + A) % A \in 0 .. A - 1
  BY Multiple
<1>4. PICK q \in Nat : n + A = A * q + ((n + A) % A)
  BY <1>3, Multiple
<1> DEFINE r == (n + A) % A
<1>5. A * (k + 1) = A * q + r /\ r \in 0 .. A - 1 /\ r \in Nat
  BY <1>2, <1>3, <1>4
<1> HIDE DEF r
<1>6. A * (k + 1) <= A * q
  <2>1. A * (k + 1) < A * q + A
    BY <1>5
  <2>2. k + 1 \in Nat
    OBVIOUS
  <2> QED BY <2>1, <2>2, MultipleOf
<1>7. r = 0
  <2>1. A * (k + 1) \in Nat /\ A * q \in Nat
    OBVIOUS
  <2> DEFINE y == A * (k + 1)
             z == A * q
  <2>2. y \in Nat /\ z \in Nat /\ y = z + r /\ y <= z
    BY <1>5, <1>6, <2>1
  <2> HIDE DEF y, z
  <2> QED BY <1>5, <2>2
<1> QED BY <1>7 DEF r

-------------------------------------------------------------------------------
(* The inductive invariant *)

(* Where the first block of an empty buffer begins. *)
Lo(buffer) == buffer + AlignedOffset(buffer, 0)

(* The buffer, and the allocator before node pos. *)
BufferSound ==
    /\ base \in Nat /\ size \in Nat /\ AlignedOffset(base, 0) < size
    /\ pos \in DOMAIN graph => graph[pos].kind # "leaf"
    /\ At(graph, alloc, pos, Lo(base), base + size)

(* The inductive invariant: the graph is well formed, and while it is      *)
(* allocated the allocator is sound and the srcs of every node so far are  *)
(* intact.                                                                 *)
IInv ==
    /\ model \in Models \cup {NoModel}
    /\ phase \in {"build", "measure", "decode", "abort"}
    /\ WellFormed(graph)
    /\ pos \in 1 .. Len(graph) + 1
    /\ phase = "build" => Ordinary(graph)
    /\ Allocating => BufferSound

(* It holds in the beginning, *)
LEMMA InitInv == Init => IInv
<1> SUFFICES ASSUME Init PROVE IInv
  OBVIOUS
<1>1. graph = <<>> /\ phase = "build" /\ pos = 1 /\ model \in Models \cup {NoModel}
  BY DEF Init
<1>2. \A t \in DOMAIN graph : FALSE
  BY <1>1
<1>3. WellFormed(graph) /\ Ordinary(graph)
  <2>1. graph \in Seq({graph[t] : t \in DOMAIN graph})
    BY <1>1, EmptySeq
  <2> QED BY <1>2, <2>1 DEF WellFormed, Ordinary
<1>4. Len(graph) + 1 = 1 /\ pos \in 1 .. Len(graph) + 1
  BY <1>1
<1> QED BY <1>1, <1>3, <1>4 DEF IInv, Allocating

(* Measure and Decode begin with a sound allocator. *)
LEMMA StartInv ==
    ASSUME NEW g, WellFormed(g), NEW label \in {"measure", "decode"}, NEW buffer \in Nat, NEW bytes \in Nat,
           AlignedOffset(buffer, 0) < bytes, Start(label, g, buffer, bytes),
           model \in Models \cup {NoModel}
    PROVE  IInv'
<1> DEFINE a == Built(g, buffer, bytes)
           v == NextNode(g, 0)
           lo == Lo(buffer)
           hi == buffer + bytes
<1>1. /\ graph' = g /\ base' = buffer /\ size' = bytes /\ alloc' = a
      /\ phase' = (IF a.failed THEN "abort" ELSE label)
      /\ pos' = v /\ model' = model
  BY DEF Start
<1>2. v \in 1 .. Len(g) + 1 /\ (v \in DOMAIN g => g[v].kind # "leaf") /\ LeafsUpTo(g, 1, v)
  <2>1. 0 \in 0 .. Len(g) /\ 0 + 1 = 1
    BY Shaped
  <2> HIDE DEF v
  <2>2. LET n == 0
            u == NextNode(g, n)
        IN  /\ u \in n + 1 .. Len(g) + 1
            /\ u \in DOMAIN g => g[u].kind # "leaf"
            /\ LeafsUpTo(g, n + 1, u)
    BY <2>1, NextNodeFacts
  <2> QED BY <2>1, <2>2 DEF v
<1> HIDE DEF v
<1>3. Failed(a) \/ At(g, a, 1, lo, hi)
  BY BuiltSound DEF Lo
<1> HIDE DEF a
<1>4. ASSUME phase' # "abort" PROVE BufferSound'
  <2>1. ~Failed(a)
    BY <1>1, <1>4 DEF Failed
  <2>2. At(g, a, 1, lo, hi)
    BY <1>3, <2>1
  <2> HIDE DEF lo, hi
  <2>3. At(g, a, v, lo, hi)
    <3>1. 1 \in Nat /\ v \in 0 .. Len(g) + 1 /\ 1 <= v
      BY <1>2
    <3> QED BY <1>2, <2>2, <3>1, Skip
  <2>4. At(graph', alloc', pos', Lo(base'), base' + size')
    BY <1>1, <2>3 DEF lo, hi
  <2> QED BY <1>1, <1>2, <2>4 DEF BufferSound
<1>5. phase' \in {"measure", "decode", "abort"}
  BY <1>1
<1> QED BY <1>1, <1>2, <1>4, <1>5 DEF IInv, Allocating

(* The buffer that is measured is unlimited, *)
LEMMA MeasureInv ==
    ASSUME IInv, Measure
    PROVE  IInv'
<1>1. Align \in Nat \ {0} /\ Unlimited \in Nat \ {0} /\ Unlimited % Align = 0
  BY AlignAssumption, UnlimitedAssumption
<1>2. AlignedOffset(0, 0) < Unlimited
  <2>1. PICK k \in Nat : Unlimited = Align * k + (Unlimited % Align)
    BY <1>1, Multiple
  <2>2. Unlimited = Align * k
    BY <1>1, <2>1
  <2>3. k # 0
    BY <1>1, <2>2
  <2>4. Align <= Unlimited
    <3>1. PICK j \in Nat : k = j + 1
      BY <2>3
    <3>2. Align * k = Align * j + Align /\ Align * j \in Nat
      BY <1>1, <3>1
    <3> QED BY <1>1, <2>2, <3>2
  <2>5. AlignedOffset(0, 0) \in 0 .. Align - 1
    BY Offset
  <2> QED BY <1>1, <2>4, <2>5
<1>3. model \in Models \cup {NoModel} /\ WellFormed(graph)
  BY DEF IInv
<1>4. CASE model = NoModel
  <2>1. Start("measure", graph, 0, Unlimited)
    BY <1>4 DEF Measure
  <2> QED BY <1>1, <1>2, <1>3, <2>1, StartInv
<1>5. CASE model # NoModel
  <2> DEFINE g == build_llama(model, model.n_batch, model.n_ctx, TRUE, FALSE)
  <2>1. Start("measure", g, 0, Unlimited)
    BY <1>5 DEF Measure
  <2>2. WellFormed(g)
    BY <1>3, <1>5, ModelGraphsAssumption
  <2> HIDE DEF g
  <2> QED BY <1>1, <1>2, <1>3, <2>1, <2>2, StartInv
<1> QED BY <1>4, <1>5

(* and the one that is allocated has a margin for its alignment. *)
LEMMA DecodeInv ==
    ASSUME IInv, Decode
    PROVE  IInv'
<1> DEFINE bytes == alloc.max_size + Align
<1>1. Align \in Nat \ {0}
  BY AlignAssumption
<1>2. model \in Models \cup {NoModel} /\ WellFormed(graph) /\ phase = "measure"
  BY DEF IInv, Decode
<1>3. alloc.max_size \in Nat
  <2>1. alloc \in Allocs(graph)
    BY <1>2 DEF IInv, Allocating, BufferSound, At, Sound, DataSound
  <2> QED BY <2>1 DEF Allocs
<1>4. PICK buffer \in Misaligned :
        IF model = NoModel THEN Start("decode", graph, buffer, bytes)
        ELSE \E b \in Batches(model), shift \in BOOLEAN, embd \in BOOLEAN :
                Start("decode", build_llama(model, b.n_tokens, b.n_kv, shift, embd), buffer, bytes)
  BY DEF Decode
<1>5. buffer \in Nat /\ bytes \in Nat /\ AlignedOffset(buffer, 0) < bytes
  <2>1. buffer \in Nat
    BY <1>1, MisalignedAssumption
  <2>2. AlignedOffset(buffer, 0) \in 0 .. Align - 1
    BY <2>1, Offset
  <2> QED BY <1>1, <1>3, <2>1, <2>2
<1> HIDE DEF bytes
<1>6. CASE model = NoModel
  <2>1. Start("decode", graph, buffer, bytes)
    BY <1>4, <1>6
  <2> QED BY <1>2, <1>5, <2>1, StartInv
<1>7. CASE model # NoModel
  <2>1. PICK b \in Batches(model), shift \in BOOLEAN, embd \in BOOLEAN :
            Start("decode", build_llama(model, b.n_tokens, b.n_kv, shift, embd), buffer, bytes)
    BY <1>4, <1>7
  <2> DEFINE g == build_llama(model, b.n_tokens, b.n_kv, shift, embd)
  <2>2. WellFormed(g)
    BY <1>2, <1>7, ModelGraphsAssumption
  <2>3. Start("decode", g, buffer, bytes)
    BY <2>1
  <2> HIDE DEF g
  <2> QED BY <1>2, <1>5, <2>2, <2>3, StartInv
<1> QED BY <1>6, <1>7

(* A round leaves the allocator sound before the next node. *)
LEMMA AllocGraphInv ==
    ASSUME IInv, AllocGraph
    PROVE  IInv'
<1> DEFINE n == pos
           c == UpdateParents(AllocateRound(alloc, n), n)
           v == NextNode(graph, n)
           lo == Lo(base)
           hi == base + size
<1>1. /\ n \in DOMAIN graph /\ phase \in {"measure", "decode"}
      /\ alloc' = c /\ phase' = (IF alloc'.failed THEN "abort" ELSE phase)
      /\ pos' = v /\ model' = model /\ graph' = graph /\ size' = size /\ base' = base
  BY DEF AllocGraph, Tensors
<1>2. WellFormed(graph) /\ model \in Models \cup {NoModel} /\ BufferSound
  BY <1>1 DEF IInv, Allocating
<1>3. /\ base \in Nat /\ size \in Nat /\ AlignedOffset(base, 0) < size
      /\ graph[n].kind # "leaf" /\ At(graph, alloc, n, lo, hi)
  BY <1>1, <1>2 DEF BufferSound
<1>4. lo \in Int /\ hi \in Int /\ base <= lo
  <2>1. AlignedOffset(base, 0) \in Nat
    BY <1>3, Offset, AlignAssumption
  <2> QED BY <1>3, <2>1 DEF Lo
<1>5. n \in Nat /\ n \in 0 .. Len(graph) /\ Len(graph) \in Nat
  BY <1>1, <1>2, Shaped
<1>6. /\ v \in n + 1 .. Len(graph) + 1 /\ (v \in DOMAIN graph => graph[v].kind # "leaf")
      /\ LeafsUpTo(graph, n + 1, v)
  <2>1. LET t == n
            u == NextNode(graph, t)
        IN  /\ u \in t + 1 .. Len(graph) + 1
            /\ u \in DOMAIN graph => graph[u].kind # "leaf"
            /\ LeafsUpTo(graph, t + 1, u)
    BY <1>2, <1>5, NextNodeFacts
  <2> QED BY <2>1
<1> HIDE DEF v, lo, hi
<1>7. Failed(c) \/ At(graph, c, n + 1, lo, hi)
  BY <1>1, <1>2, <1>3, <1>4, RoundStep
<1> HIDE DEF c
<1>8. ASSUME phase' # "abort" PROVE BufferSound'
  <2>1. ~Failed(c)
    BY <1>1, <1>8 DEF Failed
  <2>2. At(graph, c, v, lo, hi)
    <3>1. n + 1 \in Nat /\ v \in 0 .. Len(graph) + 1 /\ n + 1 <= v
      BY <1>5, <1>6
    <3> QED BY <1>2, <1>6, <1>7, <2>1, <3>1, Skip
  <2>3. At(graph', alloc', pos', Lo(base'), base' + size')
    BY <1>1, <2>2 DEF lo, hi
  <2> QED BY <1>1, <1>3, <1>6, <2>3 DEF BufferSound
<1>9. pos' \in 1 .. Len(graph') + 1
  BY <1>1, <1>5, <1>6
<1>10. phase' \in {"measure", "decode", "abort"}
  BY <1>1
<1> QED BY <1>1, <1>2, <1>8, <1>9, <1>10 DEF IInv, Allocating

(* The graph stays well formed when a tensor is added: *)
LEMMA AddTensorInv ==
    ASSUME IInv, NEW x, Fitting(graph, x), AddTensor(x)
    PROVE  IInv'
<1>1. /\ model = NoModel /\ phase = "build" /\ graph' = Append(graph, x)
      /\ UNCHANGED <<model, phase, pos, size, base, alloc>>
  BY DEF AddTensor
<1>2. WellFormed(graph) /\ Ordinary(graph) /\ pos \in 1 .. Len(graph) + 1 /\ model \in Models \cup {NoModel}
  BY <1>1 DEF IInv
<1>3. WellFormed(graph') /\ Ordinary(graph')
  BY <1>1, <1>2, Appended
<1>4. Len(graph') = Len(graph) + 1
  BY <1>1, <1>2, AppendedTensors
<1>5. pos' \in 1 .. Len(graph') + 1
  <2>1. Len(graph) \in Nat
    BY <1>2, Shaped
  <2> QED BY <1>1, <1>2, <1>4, <2>1
<1> QED BY <1>1, <1>2, <1>3, <1>5 DEF IInv, Allocating

(* an input, *)
LEMMA AddLeafInv ==
    ASSUME IInv, AddLeaf
    PROVE  IInv'
<1>1. PICK shape \in Shapes : AddTensor(Leaf(shape))
  BY DEF AddLeaf
<1> DEFINE x == Leaf(shape)
<1>2. Fitting(graph, x)
  <2>1. /\ x.kind = "leaf" /\ x.src = <<>> /\ x.shape = shape
        /\ x.input = TRUE /\ x.view_src = NoTensor /\ x.offs = 0
    BY DEF Leaf, Tensor
  <2> HIDE DEF x
  <2>2. <<>> \in Seq(DOMAIN graph)
    OBVIOUS
  <2> QED BY <2>1, <2>2, ShapesAssumption DEF Fitting
<1>3. AddTensor(x)
  BY <1>1
<1> HIDE DEF x
<1> QED BY <1>2, <1>3, AddTensorInv

(* an op of one or two tensors, *)
LEMMA AddOpInv ==
    ASSUME IInv, AddOp
    PROVE  IInv'
<1>1. PICK kind \in {"op", "inplace"}, shape \in Shapes, p \in Tensors, q \in Tensors :
        AddTensor(Tensor(kind, IF p = q THEN <<p>> ELSE <<p, q>>, shape))
  BY DEF AddOp
<1> DEFINE src == IF p = q THEN <<p>> ELSE <<p, q>>
           x == Tensor(kind, src, shape)
<1>2. src \in Seq(DOMAIN graph)
  <2>1. p \in DOMAIN graph /\ q \in DOMAIN graph
    BY DEF Tensors
  <2>2. <<p>> \in Seq(DOMAIN graph) /\ <<p, q>> \in Seq(DOMAIN graph)
    BY <2>1
  <2> QED BY <2>2
<1>3. AddTensor(x)
  BY <1>1
<1> HIDE DEF src
<1>4. Fitting(graph, x)
  <2>1. /\ x.kind = kind /\ x.src = src /\ x.shape = shape
        /\ x.input = FALSE /\ x.view_src = NoTensor /\ x.offs = 0
    BY DEF Tensor
  <2> HIDE DEF x
  <2> QED BY <1>2, <2>1, ShapesAssumption DEF Fitting
<1> HIDE DEF x
<1> QED BY <1>3, <1>4, AddTensorInv

(* or a view of a part of a tensor, which may be a view itself. *)
LEMMA AddViewInv ==
    ASSUME IInv, AddView
    PROVE  IInv'
<1>1. PICK p \in Tensors, shape \in Shapes, offs \in {0, Align} :
        /\ offs + NBytes(shape) <= NBytes(graph[p].shape)
        /\ AddTensor(View(p, IF graph[p].view_src = NoTensor THEN p ELSE graph[p].view_src,
                          shape, graph[p].offs + offs))
  BY DEF AddView
<1> DEFINE root == IF graph[p].view_src = NoTensor THEN p ELSE graph[p].view_src
           o == graph[p].offs + offs
           x == View(p, root, shape, o)
<1>2. WellFormed(graph) /\ phase = "build" /\ p \in DOMAIN graph
  BY <1>1 DEF IInv, AddTensor, Tensors
<1>3. AddTensor(x) /\ offs + NBytes(shape) <= NBytes(graph[p].shape) /\ offs \in {0, Align}
  BY <1>1
<1>4. Align \in Nat \ {0} /\ NBytes(shape) \in Nat \ {0} /\ NBytes(graph[p].shape) \in Nat
  BY <1>2, AlignAssumption, ShapesAssumption DEF WellFormed
<1>5. 0 % Align = 0
  BY <1>4
<1>6. ASSUME graph[p].view_src = NoTensor
      PROVE  /\ root = p /\ graph[p].kind # "view" /\ o \in Nat /\ o % Align = 0
             /\ o + NBytes(shape) <= NBytes(graph[root].shape)
  <2>1. graph[p].kind # "view"
    BY <1>2, <1>6, Shaped
  <2>2. graph[p].offs = 0
    BY <1>2, <2>1 DEF WellFormed
  <2>3. o = offs /\ o \in Nat
    BY <1>3, <1>4, <2>2
  <2>4. o % Align = 0
    <3>1. Align % Align = 0
      BY <1>4, <1>5, OneMore
    <3> QED BY <1>3, <1>5, <2>3, <3>1
  <2> HIDE DEF o
  <2> QED BY <1>3, <1>6, <2>1, <2>3, <2>4
<1>7. ASSUME graph[p].view_src # NoTensor
      PROVE  /\ root = graph[p].view_src /\ root \in DOMAIN graph /\ graph[root].kind # "view"
             /\ Read(graph, root) /\ o \in Nat /\ o % Align = 0
             /\ o + NBytes(shape) <= NBytes(graph[root].shape)
  <2>1. /\ root = graph[p].view_src /\ root \in DOMAIN graph /\ Read(graph, root)
        /\ graph[root].view_src = NoTensor /\ graph[p].kind = "view"
    BY <1>2, <1>7, Shaped
  <2> HIDE DEF root
  <2>2. graph[root].kind # "view"
    BY <1>2, <2>1, Shaped
  <2>3. /\ graph[p].offs \in Nat /\ graph[p].offs % Align = 0
        /\ graph[p].offs + NBytes(graph[p].shape) <= NBytes(graph[root].shape)
    BY <1>2, <2>1 DEF WellFormed
  <2>4. NBytes(graph[root].shape) \in Nat
    BY <1>2, <2>1 DEF WellFormed
  <2>5. o \in Nat /\ o + NBytes(shape) <= NBytes(graph[root].shape)
    BY <1>3, <1>4, <2>3, <2>4
  <2>6. o % Align = 0
    <3>1. (graph[p].offs + Align) % Align = 0
      BY <1>4, <2>3, OneMore
    <3>2. graph[p].offs + 0 = graph[p].offs
      BY <2>3
    <3> QED BY <1>3, <2>3, <3>1, <3>2
  <2> HIDE DEF o
  <2> QED BY <2>1, <2>2, <2>5, <2>6
<1> HIDE DEF root, o
<1>8. Fitting(graph, x)
  <2>1. /\ x.kind = "view" /\ x.src = <<p>> /\ x.shape = shape
        /\ x.input = FALSE /\ x.view_src = root /\ x.offs = o
    BY DEF View, Tensor
  <2> HIDE DEF x
  <2>2. x.src \in Seq(DOMAIN graph)
    BY <1>2, <2>1
  <2>3. SrcIs(x, p)
    <3>1. 1 \in DOMAIN <<p>> /\ <<p>>[1] = p
      OBVIOUS
    <3> QED BY <2>1, <3>1 DEF SrcIs
  <2> QED BY <1>2, <1>4, <1>6, <1>7, <2>1, <2>2, <2>3 DEF Fitting
<1> HIDE DEF x
<1> QED BY <1>3, <1>8, AddTensorInv

(* Every step keeps the invariant. *)
LEMMA StepInv ==
    ASSUME IInv, [Next]_vars
    PROVE  IInv'
<1>1. CASE AddLeaf
  BY <1>1, AddLeafInv
<1>2. CASE AddOp
  BY <1>2, AddOpInv
<1>3. CASE AddView
  BY <1>3, AddViewInv
<1>4. CASE Measure
  BY <1>4, MeasureInv
<1>5. CASE Decode
  BY <1>5, DecodeInv
<1>6. CASE AllocGraph
  BY <1>6, AllocGraphInv
<1>7. CASE UNCHANGED vars
  <2>1. /\ model' = model /\ graph' = graph /\ phase' = phase /\ pos' = pos
        /\ size' = size /\ base' = base /\ alloc' = alloc
    BY <1>7 DEF vars
  <2> QED BY <2>1 DEF IInv, Allocating, BufferSound
<1> QED BY <1>1, <1>2, <1>3, <1>4, <1>5, <1>6, <1>7 DEF Next

(* The invariant holds in every state, for every graph of an input, ops    *)
(* and views, and for the graphs of the models.                            *)
THEOREM Inductive == Spec => []IInv
<1> QED BY InitInv, StepInv, PTL DEF Spec

-------------------------------------------------------------------------------
(* The properties *)

(* What is at some place of the buffer. *)
Pieces == Freed \cup InUse

(* The parts of the invariant that the properties follow from. *)
LEMMA Parts ==
    ASSUME IInv, Allocating
    PROVE  /\ WellFormed(graph) /\ DataSound(graph, alloc, Placed(graph, pos))
           /\ LiveSound(graph, alloc, Placed(graph, pos), Lo(base), base + size)
           /\ CountSound(graph, alloc, ReadsFrom(graph, pos))
           /\ NoLeak(graph, alloc, Placed(graph, pos))
           /\ Lo(base) \in Nat /\ base + size \in Nat /\ Lo(base) < base + size
<1>1. WellFormed(graph) /\ BufferSound
  BY DEF IInv
<1>2. /\ base \in Nat /\ size \in Nat /\ AlignedOffset(base, 0) < size
      /\ At(graph, alloc, pos, Lo(base), base + size)
  BY <1>1 DEF BufferSound
<1>3. AlignedOffset(base, 0) \in Nat
  BY <1>2, Offset, AlignAssumption
<1>4. Lo(base) \in Nat /\ base + size \in Nat /\ Lo(base) < base + size
  BY <1>2, <1>3 DEF Lo
<1> QED BY <1>1, <1>2, <1>4 DEF At, Sound, KeepSound

(* A free block and the memory of a tensor, as pieces. *)
LEMMA Pieced ==
    ASSUME IInv, Allocating
    PROVE  /\ \A i \in DOMAIN alloc.blocks :
                /\ alloc.blocks[i].addr \in Nat /\ alloc.blocks[i].size \in Nat \ {0}
                /\ alloc.blocks[i].addr < End(alloc.blocks[i]) /\ End(alloc.blocks[i]) \in Nat
           /\ \A t \in alloc.live :
                /\ t \in DOMAIN graph /\ t \in Placed(graph, pos) /\ alloc.data[t] \in Nat
                /\ Top(graph, alloc, t) \in Nat /\ alloc.data[t] < Top(graph, alloc, t)
                /\ Extent(t) = [lo |-> alloc.data[t], hi |-> Top(graph, alloc, t)]
<1> DEFINE D == Placed(graph, pos)
           bs == alloc.blocks
<1>1. /\ WellFormed(graph) /\ DataSound(graph, alloc, D)
      /\ LiveSound(graph, alloc, D, Lo(base), base + size)
  BY Parts
<1> HIDE DEF D
<1>2. bs \in Seq(Blocks)
  BY <1>1 DEF LiveSound, Table
<1>3. ASSUME NEW i \in DOMAIN bs
      PROVE  /\ bs[i].addr \in Nat /\ bs[i].size \in Nat \ {0}
             /\ bs[i].addr < End(bs[i]) /\ End(bs[i]) \in Nat
  <2>1. bs[i] \in Blocks
    BY <1>2
  <2> QED BY <2>1 DEF Blocks, End
<1>4. ASSUME NEW t \in alloc.live
      PROVE  /\ t \in DOMAIN graph /\ t \in D /\ alloc.data[t] \in Nat
             /\ Top(graph, alloc, t) \in Nat /\ alloc.data[t] < Top(graph, alloc, t)
             /\ Extent(t) = [lo |-> alloc.data[t], hi |-> Top(graph, alloc, t)]
  <2>1. t \in D
    BY <1>1 DEF LiveSound, Plain
  <2>2. t \in DOMAIN graph
    BY <1>1, <2>1 DEF DataSound
  <2>3. alloc.data[t] \in Nat /\ AllocSize(graph, t) \in Nat \ {0}
    BY <1>1, <2>1, <2>2, Sizes DEF DataSound
  <2> QED BY <2>1, <2>2, <2>3 DEF Top, Extent
<1> QED BY <1>3, <1>4 DEF D

(* Pieces are ranges of places; each place is in one piece at most. *)
LEMMA PiecesApart ==
    ASSUME IInv, Allocating
    PROVE  /\ \A p \in Pieces : /\ p.lo \in Nat /\ p.hi \in Nat /\ p.lo < p.hi
                                /\ Lo(base) <= p.lo /\ p.hi <= base + size
           /\ \A p, r \in Pieces : p = r \/ Apart(p, r)
<1> DEFINE D == Placed(graph, pos)
           bs == alloc.blocks
           free(i) == [lo |-> bs[i].addr, hi |-> End(bs[i])]
<1>1. /\ LiveSound(graph, alloc, D, Lo(base), base + size)
      /\ Lo(base) \in Nat /\ base + size \in Nat
  BY Parts
<1>2. /\ \A i \in DOMAIN bs :
            /\ bs[i].addr \in Nat /\ bs[i].addr < End(bs[i]) /\ End(bs[i]) \in Nat
      /\ \A t \in alloc.live :
            /\ alloc.data[t] \in Nat
            /\ Top(graph, alloc, t) \in Nat /\ alloc.data[t] < Top(graph, alloc, t)
            /\ Extent(t) = [lo |-> alloc.data[t], hi |-> Top(graph, alloc, t)]
  BY Pieced
<1>3. \A p \in Pieces : (\E i \in DOMAIN bs : p = free(i)) \/ \E t \in alloc.live : p = Extent(t)
  BY DEF Pieces, Freed, InUse
<1> HIDE DEF D, bs
<1>4. \A i \in DOMAIN bs : \A x \in Nat : bs[i].addr <= x /\ x < End(bs[i]) => InFree(bs, x)
  BY DEF InFree, In
<1>5. ASSUME NEW i \in DOMAIN bs PROVE Lo(base) <= bs[i].addr /\ End(bs[i]) <= base + size
  <2>1. InFree(bs, bs[i].addr)
    <3>1. bs[i].addr <= bs[i].addr
      BY <1>2
    <3> QED BY <1>2, <1>4, <3>1
  <2>2. InFree(bs, End(bs[i]) - 1)
    <3>1. End(bs[i]) - 1 \in Nat /\ bs[i].addr <= End(bs[i]) - 1 /\ End(bs[i]) - 1 < End(bs[i])
      BY <1>2
    <3> QED BY <1>4, <3>1
  <2>3. Lo(base) <= bs[i].addr /\ End(bs[i]) - 1 < base + size
    <3>1. End(bs[i]) - 1 \in Nat
      BY <1>2
    <3> QED BY <1>1, <1>2, <2>1, <2>2, <3>1 DEF LiveSound, bs
  <2> QED BY <1>1, <1>2, <2>3
<1>6. \A t \in alloc.live : Lo(base) <= alloc.data[t] /\ Top(graph, alloc, t) <= base + size
  BY <1>1 DEF LiveSound
<1>7. ASSUME NEW i \in DOMAIN bs, NEW t \in alloc.live
      PROVE  End(bs[i]) <= alloc.data[t] \/ Top(graph, alloc, t) <= bs[i].addr
  <2>1. \A x \in Nat : InFree(bs, x) => ~InTensor(graph, alloc, t, x)
    BY <1>1 DEF LiveSound, bs
  <2>2. CASE bs[i].addr <= alloc.data[t]
    <3>1. ~(alloc.data[t] < End(bs[i]))
      <4>1. InTensor(graph, alloc, t, alloc.data[t])
        BY <1>2 DEF InTensor
      <4> QED BY <1>2, <1>4, <2>1, <2>2, <4>1
    <3> QED BY <1>2, <3>1
  <2>3. CASE alloc.data[t] <= bs[i].addr
    <3>1. ~InTensor(graph, alloc, t, bs[i].addr)
      <4>1. bs[i].addr <= bs[i].addr
        BY <1>2
      <4> QED BY <1>2, <1>4, <2>1, <4>1
    <3> QED BY <1>2, <2>3, <3>1 DEF InTensor
  <2> QED BY <1>2, <2>2, <2>3
<1>8. ASSUME NEW i \in DOMAIN bs, NEW j \in DOMAIN bs, i # j
      PROVE  End(bs[i]) <= bs[j].addr \/ End(bs[j]) <= bs[i].addr
  <2>1. \A k, l \in DOMAIN bs : k < l => End(bs[k]) < bs[l].addr
    BY <1>1 DEF LiveSound, Table, bs
  <2>2. i \in Nat /\ j \in Nat
    <3>1. bs \in Seq(Blocks)
      BY <1>1 DEF LiveSound, Table, bs
    <3> QED BY <3>1
  <2>3. i < j \/ j < i
    BY <1>8, <2>2
  <2> QED BY <1>2, <2>1, <2>3
<1>9. \A s, t \in alloc.live : s # t =>
        Top(graph, alloc, s) <= alloc.data[t] \/ Top(graph, alloc, t) <= alloc.data[s]
  BY <1>1 DEF LiveSound, Disjoint
<1>10. \A p \in Pieces : /\ p.lo \in Nat /\ p.hi \in Nat /\ p.lo < p.hi
                         /\ Lo(base) <= p.lo /\ p.hi <= base + size
  BY <1>2, <1>3, <1>5, <1>6
<1>11. ASSUME NEW p \in Pieces, NEW r \in Pieces, p # r PROVE Apart(p, r)
  <2>1. CASE \E i, j \in DOMAIN bs : p = free(i) /\ r = free(j)
    BY <1>8, <1>11, <2>1 DEF Apart
  <2>2. CASE \E i \in DOMAIN bs, t \in alloc.live : p = free(i) /\ r = Extent(t)
    BY <1>2, <1>7, <2>2 DEF Apart
  <2>3. CASE \E i \in DOMAIN bs, t \in alloc.live : r = free(i) /\ p = Extent(t)
    BY <1>2, <1>7, <2>3 DEF Apart
  <2>4. CASE \E s, t \in alloc.live : p = Extent(s) /\ r = Extent(t)
    BY <1>2, <1>9, <1>11, <2>4 DEF Apart
  <2> QED BY <1>3, <2>1, <2>2, <2>3, <2>4
<1> QED BY <1>10, <1>11

(* What the invariant says of the table of free blocks: no block is empty, *)
LEMMA InvTypeOK ==
    ASSUME IInv
    PROVE  TypeOK
<1>1. ASSUME Allocating PROVE \A i \in DOMAIN alloc.blocks : alloc.blocks[i] \in [addr : Nat, size : Nat \ {0}]
  <2>1. alloc.blocks \in Seq(Blocks)
    BY <1>1, Parts DEF LiveSound, Table
  <2>2. \A i \in DOMAIN alloc.blocks : alloc.blocks[i] \in Blocks
    BY <2>1
  <2> QED BY <2>2 DEF Blocks
<1> QED BY <1>1 DEF IInv, TypeOK

(* no two blocks touch, and what is free and what is in use is apart; *)
LEMMA InvBlocksSound ==
    ASSUME IInv
    PROVE  BlocksSound
<1> SUFFICES ASSUME Allocating
             PROVE  /\ \A i \in 1 .. Len(alloc.blocks) - 1 : End(alloc.blocks[i]) < alloc.blocks[i + 1].addr
                    /\ \A x \in Freed, y \in InUse : Apart(x, y)
                    /\ \A s, t \in alloc.live : s # t => Apart(Extent(s), Extent(t))
  BY DEF BlocksSound
<1> DEFINE bs == alloc.blocks
           D == Placed(graph, pos)
<1>1. LiveSound(graph, alloc, D, Lo(base), base + size)
  BY Parts
<1> HIDE DEF D
<1>2. \A i \in 1 .. Len(bs) - 1 : End(bs[i]) < bs[i + 1].addr
  <2> SUFFICES ASSUME NEW i \in 1 .. Len(bs) - 1 PROVE End(bs[i]) < bs[i + 1].addr
    OBVIOUS
  <2>1. bs \in Seq(Blocks) /\ \A k, l \in DOMAIN bs : k < l => End(bs[k]) < bs[l].addr
    BY <1>1 DEF LiveSound, Table
  <2>2. i \in DOMAIN bs /\ i + 1 \in DOMAIN bs /\ i < i + 1
    BY <2>1
  <2> QED BY <2>1, <2>2
<1>3. /\ \A i \in DOMAIN bs :
            /\ bs[i].addr \in Nat /\ bs[i].addr < End(bs[i]) /\ End(bs[i]) \in Nat
      /\ \A t \in alloc.live :
            /\ alloc.data[t] \in Nat
            /\ Top(graph, alloc, t) \in Nat /\ alloc.data[t] < Top(graph, alloc, t)
            /\ Extent(t) = [lo |-> alloc.data[t], hi |-> Top(graph, alloc, t)]
  BY Pieced
<1>4. \A s, t \in alloc.live : s # t => Apart(Extent(s), Extent(t))
  BY <1>1, <1>3 DEF LiveSound, Disjoint, Apart
<1>5. ASSUME NEW x \in Freed, NEW y \in InUse PROVE Apart(x, y)
  <2>1. x = y \/ Apart(x, y)
    BY PiecesApart DEF Pieces
  <2>2. x # y
    <3>1. SUFFICES ASSUME x = y PROVE FALSE
      OBVIOUS
    <3>2. PICK i \in DOMAIN bs : x = [lo |-> bs[i].addr, hi |-> End(bs[i])]
      BY DEF Freed
    <3>3. PICK t \in alloc.live : y = Extent(t)
      BY DEF InUse
    <3>4. bs[i].addr = alloc.data[t]
      <4>1. x.lo = bs[i].addr
        BY <3>2
      <4>2. y.lo = alloc.data[t]
        BY <1>3, <3>3
      <4> QED BY <3>1, <4>1, <4>2
    <3>5. bs[i].addr <= bs[i].addr /\ alloc.data[t] <= alloc.data[t]
      BY <1>3
    <3>6. InFree(bs, bs[i].addr) /\ InTensor(graph, alloc, t, alloc.data[t])
      BY <1>3, <3>5 DEF InFree, In, InTensor
    <3> QED BY <1>1, <1>3, <3>4, <3>6 DEF LiveSound
  <2> QED BY <2>1, <2>2
<1> QED BY <1>2, <1>4, <1>5

(* what is free and what is in use are together the whole buffer: behind   *)
(* each piece there is another one, because every address is in one;       *)
LEMMA InvConserved ==
    ASSUME IInv
    PROVE  Conserved
<1> SUFFICES ASSUME Allocating, ~PartReused
             PROVE  /\ \E p \in Pieces : p.lo = Lo(base)
                    /\ \A p \in Pieces : /\ Lo(base) <= p.lo
                                         /\ p.hi = base + size \/ \E r \in Pieces : r.lo = p.hi
  BY DEF Conserved, Pieces, Lo
<1> DEFINE lo == Lo(base)
           hi == base + size
<1>1. LiveSound(graph, alloc, Placed(graph, pos), lo, hi) /\ lo \in Nat /\ hi \in Nat /\ lo < hi
  BY Parts
<1>2. \A p \in Pieces : p.lo \in Nat /\ p.hi \in Nat /\ p.lo < p.hi /\ lo <= p.lo /\ p.hi <= hi
  BY PiecesApart
<1>3. \A p, r \in Pieces : p = r \/ Apart(p, r)
  BY PiecesApart
<1> HIDE DEF lo, hi
<1>4. ASSUME NEW x \in Nat, lo <= x, x < hi
      PROVE  \E p \in Pieces : p.lo <= x /\ x < p.hi
  <2>1. ~PartOf(graph, alloc)
    BY DEF PartOf, PartReused, Tensors
  <2>2. CASE InFree(alloc.blocks, x)
    <3>1. PICK i \in DOMAIN alloc.blocks : alloc.blocks[i].addr <= x /\ x < End(alloc.blocks[i])
      BY <2>2 DEF InFree, In
    <3> DEFINE p == [lo |-> alloc.blocks[i].addr, hi |-> End(alloc.blocks[i])]
    <3>2. p \in Pieces
      BY DEF Pieces, Freed
    <3> QED BY <3>1, <3>2
  <2>3. CASE \E t \in alloc.live : InTensor(graph, alloc, t, x)
    <3>1. PICK t \in alloc.live : alloc.data[t] <= x /\ x < Top(graph, alloc, t)
      BY <2>3 DEF InTensor
    <3>2. Extent(t) \in Pieces /\ Extent(t) = [lo |-> alloc.data[t], hi |-> Top(graph, alloc, t)]
      BY Pieced DEF Pieces, InUse
    <3>3. Extent(t).lo <= x /\ x < Extent(t).hi
      BY <3>1, <3>2
    <3> QED BY <3>2, <3>3
  <2> QED BY <1>1, <1>4, <2>1, <2>2, <2>3 DEF LiveSound
<1>5. \E p \in Pieces : p.lo = lo
  <2>1. PICK p \in Pieces : p.lo <= lo /\ lo < p.hi
    <3>1. lo <= lo
      BY <1>1
    <3> QED BY <1>1, <1>4, <3>1
  <2> QED BY <1>1, <1>2, <2>1
<1>6. ASSUME NEW p \in Pieces, p.hi # hi PROVE \E r \in Pieces : r.lo = p.hi
  <2>1. PICK r \in Pieces : r.lo <= p.hi /\ p.hi < r.hi
    <3>1. p.hi \in Nat /\ lo <= p.hi /\ p.hi < hi
      BY <1>1, <1>2, <1>6
    <3> QED BY <1>4, <3>1
  <2>2. p # r
    BY <1>2, <2>1
  <2>3. p.hi <= r.lo \/ r.hi <= p.lo
    BY <1>3, <2>2 DEF Apart
  <2>4. r.lo = p.hi
    BY <1>2, <2>1, <2>3
  <2> QED BY <2>4
<1> QED BY <1>2, <1>5, <1>6 DEF lo, hi

(* at the end, only memory in which there is a result is in use: what is   *)
(* live has a tensor that may be needed, but no reads are left;            *)
LEMMA InvNothingLost ==
    ASSUME IInv
    PROVE  NothingLost
<1> SUFFICES ASSUME Allocated, NEW t \in alloc.live
             PROVE  \E r \in Tensors :
                        ~Read(graph, r) /\ alloc.data[t] <= alloc.data[r] /\ alloc.data[r] < Extent(t).hi
  BY DEF NothingLost
<1> DEFINE D == Placed(graph, pos)
           R == ReadsFrom(graph, pos)
<1>1. Allocating
  BY DEF Allocated, Allocating
<1>2. /\ WellFormed(graph) /\ DataSound(graph, alloc, D) /\ CountSound(graph, alloc, R)
      /\ NoLeak(graph, alloc, D)
  BY <1>1, Parts
<1>3. Len(graph) \in Nat /\ DOMAIN graph = 1 .. Len(graph)
  BY <1>2, Shaped
<1>4. pos = Len(graph) + 1
  BY <1>3 DEF IInv, Allocated, Tensors
<1>5. R = {}
  <2> SUFFICES ASSUME NEW r \in Reads(graph), r[1] >= pos PROVE FALSE
    BY DEF ReadsFrom
  <2>1. r[1] \in DOMAIN graph
    BY <1>2, ReadsFinite
  <2> QED BY <1>3, <1>4, <2>1
<1>6. \A x \in DOMAIN graph : graph[x].kind = "view" => x \in D
  BY <1>3, <1>4 DEF Placed
<1>7. /\ alloc.data[t] \in Nat /\ alloc.data[t] < Top(graph, alloc, t)
      /\ Top(graph, alloc, t) \in Nat
      /\ Extent(t) = [lo |-> alloc.data[t], hi |-> Top(graph, alloc, t)]
  BY <1>1, Pieced
<1> HIDE DEF D, R
<1>8. \A x \in DOMAIN graph : alloc.n_children[x] = 0
  <2> SUFFICES ASSUME NEW x \in DOMAIN graph PROVE alloc.n_children[x] = 0
    OBVIOUS
  <2>1. ReadsIn(graph, R, x) = {}
    BY <1>5 DEF ReadsIn
  <2> QED BY <1>2, <2>1, Counts
<1>9. PICK s \in Plain(graph, D) : alloc.own[s] = t /\ Keeps(graph, alloc, 0, s)
  BY <1>2 DEF NoLeak
<1>10. s \in D /\ s \in DOMAIN graph
  BY <1>2, <1>9 DEF Plain, DataSound
<1>11. ASSUME NEW x \in D, alloc.own[x] = t, ~Read(graph, x)
       PROVE  \E r \in Tensors :
                ~Read(graph, r) /\ alloc.data[t] <= alloc.data[r] /\ alloc.data[r] < Extent(t).hi
  <2>1. x \in Tensors
    BY <1>2 DEF DataSound, Tensors
  <2>2. /\ alloc.data[x] \in Nat /\ Top(graph, alloc, x) \in Nat
        /\ alloc.data[t] <= alloc.data[x] /\ Top(graph, alloc, x) <= Top(graph, alloc, t)
    BY <1>2, <1>11, Inside
  <2>3. alloc.data[x] < Top(graph, alloc, x)
    BY <1>2, <2>1, <2>2, Sizes DEF Top, Tensors
  <2>4. alloc.data[x] < Extent(t).hi
    BY <1>7, <2>2, <2>3
  <2> QED BY <1>11, <2>1, <2>2, <2>4
<1>12. CASE ~Read(graph, s)
  BY <1>9, <1>10, <1>11, <1>12
<1>13. CASE \E x \in DOMAIN graph : graph[x].view_src = s /\ x \notin alloc.dropped
  <2>1. PICK x \in DOMAIN graph : graph[x].view_src = s /\ x \notin alloc.dropped
    BY <1>13
  <2>2. s # NoTensor
    BY <1>3, <1>10 DEF NoTensor
  <2>3. graph[x].kind = "view" /\ graph[x].view_src # NoTensor
    BY <1>2, <2>1, <2>2, Shaped
  <2>4. x \in D
    BY <1>6, <2>3
  <2>5. alloc.own[x] = t
    BY <1>2, <1>9, <2>1, <2>3, <2>4 DEF DataSound
  <2>6. ~Read(graph, x)
    BY <1>2, <1>8, <2>1, <2>3 DEF CountSound
  <2> QED BY <1>11, <2>4, <2>5, <2>6
<1>14. ~(alloc.n_children[s] > 0)
  BY <1>8, <1>10
<1> QED BY <1>9, <1>12, <1>13, <1>14 DEF Keeps

(* and the srcs of each node are intact. *)
LEMMA InvSrcsIntact ==
    ASSUME IInv
    PROVE  SrcsIntact
<1> SUFFICES ASSUME Allocating, NEW n \in 1 .. pos - 1, NEW t \in ToSet(graph[n].src), alloc.data[t] # Null,
                    NEW w \in (WrittenAt(t) + 1) .. n, Writes(w)
             PROVE  Apart(Extent(w), Extent(t)) \/ (w = n /\ InPlaceOf(w, t))
  BY DEF SrcsIntact
<1>1. WellFormed(graph) /\ At(graph, alloc, pos, Lo(base), base + size)
  BY DEF IInv, BufferSound
<1>2. n \in DOMAIN graph /\ n < pos
  <2>1. Len(graph) \in Nat /\ DOMAIN graph = 1 .. Len(graph)
    BY <1>1, Shaped
  <2>2. pos \in 1 .. Len(graph) + 1
    BY DEF IInv
  <2> QED BY <2>1, <2>2
<1>3. SrcsApart(graph, alloc, n)
  BY <1>1, <1>2 DEF At
<1>4. PICK i \in DOMAIN graph[n].src : t = graph[n].src[i]
  BY DEF ToSet
<1>5. WrittenAt(t) = Written(graph, t) /\ WritesIn(graph, w)
  BY DEF WrittenAt, Writer, Written, Root, Writes, WritesIn
<1>6. \/ Disjoint(graph, alloc, w, t)
      \/ /\ w = n /\ graph[n].kind = "inplace" /\ alloc.data[n] = alloc.data[t]
         /\ AllocSize(graph, n) = AllocSize(graph, t)
  BY <1>3, <1>4, <1>5 DEF SrcsApart
<1>7. CASE Disjoint(graph, alloc, w, t)
  BY <1>7 DEF Disjoint, Top, Apart, Extent
<1>8. CASE /\ w = n /\ graph[n].kind = "inplace" /\ alloc.data[n] = alloc.data[t]
           /\ AllocSize(graph, n) = AllocSize(graph, t)
  BY <1>8 DEF InPlaceOf, Extent
<1> QED BY <1>6, <1>7, <1>8

(* For every graph of an input, ops and views, and for those of the        *)
(* models: the free blocks and what is in use partition the buffer all the *)
(* time, and what nothing reads any more goes back (ggml_tallocr_alloc,    *)
(* ggml_tallocr_free_tensor, allocate_node and free_node).                 *)
THEOREM MemoryAlwaysSound == Spec => []MemorySound
<1>1. IInv => MemorySound
  BY InvTypeOK, InvBlocksSound, InvConserved, InvNothingLost DEF MemorySound
<1> QED BY <1>1, Inductive, PTL

(* For every graph of an input, ops and views, and for those of the        *)
(* models: no kernel overwrites a tensor between the one that writes it    *)
(* and one that reads it, whatever the graph allocator does with its       *)
(* memory.                                                                 *)
THEOREM SrcsAlwaysIntact == Spec => []SrcsIntact
<1> QED BY InvSrcsIntact, Inductive, PTL

===============================================================================
