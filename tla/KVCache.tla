-------------------------------- MODULE KVCache --------------------------------
(***************************************************************************)
(* The KV cache of llama.cpp (llama_kv_cache and its functions) and what   *)
(* combo_decode_internal and llama_decode_internal do with it: find a slot *)
(* of contiguous cells for the tokens of a batch, choose how many cells    *)
(* the graph attends to, run the graph, and move head.                     *)
(*                                                                         *)
(* A cell belongs to a set of sequences and has a position; its K is       *)
(* stored rotated for the position it had when it was computed.            *)
(* seq_shift only adds to the delta of the cells: the next graph rotates   *)
(* every K by its delta before it stores the new ones.                     *)
(***************************************************************************)
EXTENDS Integers, FiniteSets, FiniteSetsExt

CONSTANTS
    Size,       \* kv_self.size = n_ctx
    Seqs,       \* the llama_seq_ids in use
    MinAttend,  \* the graph attends to 32 cells at least
    MaxPos,     \* bound: the largest position
    MaxBatch    \* bound: the number of tokens in a batch

Cells == 0 .. Size - 1
AnySeq == "any"     \* a negative seq_id
NoK == -1           \* rot of a K that is all zeros, as after llama_kv_cache_init

ASSUME SizeAssumption == Size \in Nat \ {0}
ASSUME BoundsAssumption ==
    MinAttend \in Nat \ {0} /\ MaxPos \in Nat /\ MaxBatch \in Nat
ASSUME SeqsAssumption == AnySeq \notin Seqs

VARIABLES
    pos,        \* cells[i].pos, -1 when the cell is free
    seqs,       \* cells[i].seq_id
    delta,      \* cells[i].delta
    rot,        \* ghost: the position for which the K in cell i is rotated
    has_shift,
    head,
    used,
    n           \* cells attended to by the last graph

vars == <<pos, seqs, delta, rot, has_shift, head, used, n>>

Init ==
    /\ pos = [i \in Cells |-> -1]
    /\ seqs = [i \in Cells |-> {}]
    /\ delta = [i \in Cells |-> 0]
    /\ rot = [i \in Cells |-> NoK]
    /\ has_shift = FALSE
    /\ head = 0 /\ used = 0 /\ n = 0

Least(S) == CHOOSE x \in S : \A y \in S : x <= y

-------------------------------------------------------------------------------
(* llama_kv_cache_find_slot *)

(* Fault: the last cell of a slot is not tested. *)
BlockingAllButLast(h, k) == {i \in h .. h + k - 2 : pos[i] >= 0}

(* The used cells among the k cells from h on. *)
Blocking(h, k) == {i \in h .. h + k - 1 : pos[i] >= 0}

(* Fault: the search gives up one cell too early. *)
GiveUpEarly(t) == t + 1 >= Size

GiveUp(t) == t >= Size

(* The search for k <= Size free cells from from0 on; t cells are tested.  *)
Search(k, from0) ==
    LET from[h \in 0 .. Size] == [t \in Nat |->
            IF h + k > Size THEN from[0][t + Size - h]
            ELSE LET taken == Blocking(h, k) IN
                 IF taken = {} THEN [found |-> TRUE, head |-> h]
                 ELSE LET step == Least(taken) - h + 1 IN
                      IF GiveUp(t + step) THEN [found |-> FALSE, head |-> h + step]
                      ELSE from[h + step][t + step]]
    IN from[from0][0]

(* Before that, head moves to 0 when enough cells before it are free.      *)
FindSlot(k) ==
    LET from == IF head > used + 2 * k THEN 0 ELSE head IN
    IF k > Size THEN [found |-> FALSE, head |-> from] ELSE Search(k, from)

(* Fault: the number of cells is taken for their index. *)
CellMaxIndex(p, s) ==
    LET busy == {i \in Cells \ {0} : p[i] >= 0 /\ s[i] # {}} IN
    IF busy = {} THEN 0 ELSE Max(busy)

(* llama_kv_cache_cell_max: cell 0 is not looked at. *)
CellMax(p, s) ==
    LET busy == {i \in Cells \ {0} : p[i] >= 0 /\ s[i] # {}} IN
    IF busy = {} THEN 0 ELSE Max(busy) + 1

-------------------------------------------------------------------------------
(* Decoding a batch of k tokens, whose positions are ps and sequences ss   *)

DecodeFails ==
    \E k \in 1 .. MaxBatch :
        /\ ~FindSlot(k).found
        /\ head' = FindSlot(k).head
        /\ UNCHANGED <<pos, seqs, delta, rot, has_shift, used, n>>

(* The tokens take the k cells from h on. *)
StoreTokens(h, k, ps, ss) ==
    LET Slot == h .. h + k - 1 IN
    /\ pos' = [i \in Cells |-> IF i \in Slot THEN ps[i - h + 1] ELSE pos[i]]
    /\ seqs' = [i \in Cells |-> IF i \in Slot THEN seqs[i] \cup ss[i - h + 1] ELSE seqs[i]]
    /\ used' = used + k
    /\ n' = Min({Size, Max({MinAttend, CellMax(pos', seqs')})})

(* Fault: deltas outlive the graph that applied them. *)
ApplyShiftForGood(h, k) ==
    /\ rot' = [i \in Cells |->
                  IF i \in h .. h + k - 1 THEN pos'[i]
                  ELSE rot[i] + (IF has_shift THEN delta[i] ELSE 0)]
    /\ has_shift' = FALSE
    /\ UNCHANGED delta

(* The graph rotates every K by its delta, then stores the new K.          *)
ApplyShift(h, k) ==
    /\ rot' = [i \in Cells |->
                  IF i \in h .. h + k - 1 THEN pos'[i]
                  ELSE rot[i] + (IF has_shift THEN delta[i] ELSE 0)]
    /\ delta' = IF has_shift THEN [i \in Cells |-> 0] ELSE delta
    /\ has_shift' = FALSE

DecodeBatch ==
    \E k \in 1 .. MaxBatch :
        LET slot == FindSlot(k) IN
        /\ slot.found
        /\ \E ps \in [1 .. k -> 0 .. MaxPos], ss \in [1 .. k -> (SUBSET Seqs) \ {{}}] :
               StoreTokens(slot.head, k, ps, ss)
        /\ ApplyShift(slot.head, k)
        /\ head' = IF slot.head + k >= Size THEN 0 ELSE slot.head + k

-------------------------------------------------------------------------------
(* The functions on sequences.  p0 and p1 have replaced negative arguments. *)

(* Cells in freed become free; a search may start there if it is earlier.  *)
Free(freed) ==
    /\ pos' = [i \in Cells |-> IF i \in freed THEN -1 ELSE pos[i]]
    /\ used' = used - Cardinality({i \in freed : pos[i] >= 0})
    /\ head' = IF freed # {} /\ Least(freed) < head THEN Least(freed) ELSE head

InRange(i, p0, p1) == pos[i] >= p0 /\ pos[i] < p1

SeqRm(s, p0, p1) ==
    LET left(i) == IF s = AnySeq THEN {} ELSE seqs[i] \ {s}
        hit == {i \in Cells : InRange(i, p0, p1) /\ (s = AnySeq \/ s \in seqs[i])} IN
    /\ seqs' = [i \in Cells |-> IF i \in hit THEN left(i) ELSE seqs[i]]
    /\ Free({i \in hit : left(i) = {}})
    /\ UNCHANGED <<delta, rot, has_shift, n>>

SeqCp(s, d, p0, p1) ==
    /\ seqs' = [i \in Cells |->
                   IF s \in seqs[i] /\ InRange(i, p0, p1) THEN seqs[i] \cup {d} ELSE seqs[i]]
    /\ head' = 0
    /\ UNCHANGED <<pos, delta, rot, has_shift, used, n>>

(* Free cells count as freed here, and may move head. *)
SeqKeep(s) ==
    /\ seqs' = [i \in Cells |-> seqs[i] \cap {s}]
    /\ Free({i \in Cells : s \notin seqs[i]})
    /\ UNCHANGED <<delta, rot, has_shift, n>>

(* Fault: cells that a shift frees are still counted. *)
SeqShiftUncounted(s, p0, p1, d) ==
    LET hit == {i \in Cells : s \in seqs[i] /\ InRange(i, p0, p1)}
        freed == {i \in hit : pos[i] + d < 0} IN
    /\ \A i \in hit : pos[i] + d <= MaxPos
    /\ pos' = [i \in Cells |->
                  IF i \in freed THEN -1 ELSE IF i \in hit THEN pos[i] + d ELSE pos[i]]
    /\ delta' = [i \in Cells |-> IF i \in hit THEN delta[i] + d ELSE delta[i]]
    /\ seqs' = [i \in Cells |-> IF i \in freed THEN {} ELSE seqs[i]]
    /\ has_shift' = (has_shift \/ hit # {})
    /\ head' = IF freed = {} THEN 0 ELSE Least(freed)
    /\ UNCHANGED <<rot, n, used>>

(* A cell that belongs to other sequences as well moves for them too.      *)
SeqShift(s, p0, p1, d) ==
    LET hit == {i \in Cells : s \in seqs[i] /\ InRange(i, p0, p1)}
        freed == {i \in hit : pos[i] + d < 0} IN
    /\ \A i \in hit : pos[i] + d <= MaxPos
    /\ pos' = [i \in Cells |->
                  IF i \in freed THEN -1 ELSE IF i \in hit THEN pos[i] + d ELSE pos[i]]
    /\ delta' = [i \in Cells |-> IF i \in hit THEN delta[i] + d ELSE delta[i]]
    /\ seqs' = [i \in Cells |-> IF i \in freed THEN {} ELSE seqs[i]]
    /\ used' = used - Cardinality(freed)
    /\ has_shift' = (has_shift \/ hit # {})
    /\ head' = IF freed = {} THEN 0 ELSE Least(freed)
    /\ UNCHANGED <<rot, n>>

(* Neither delta nor has_shift is reset. *)
Clear ==
    /\ pos' = [i \in Cells |-> -1]
    /\ seqs' = [i \in Cells |-> {}]
    /\ head' = 0 /\ used' = 0
    /\ UNCHANGED <<delta, rot, has_shift, n>>

-------------------------------------------------------------------------------

Ranges == {r \in (0 .. MaxPos) \X (1 .. MaxPos + 1) : r[1] < r[2]}

Next ==
    \/ DecodeFails
    \/ DecodeBatch
    \/ \E s \in Seqs \cup {AnySeq}, r \in Ranges : SeqRm(s, r[1], r[2])
    \/ \E s, d \in Seqs, r \in Ranges : SeqCp(s, d, r[1], r[2])
    \/ \E s \in Seqs : SeqKeep(s)
    \/ \E s \in Seqs, r \in Ranges, d \in {-1, 1} : SeqShift(s, r[1], r[2], d)
    \/ Clear

Spec == Init /\ [][Next]_vars

(* llama_copy_state_data, and llama_set_state_data into a new context: the *)
(* K and V of the cells before head, and the positions and sequences of    *)
(* all cells.  What the old context does afterwards makes no difference.   *)
SaveAndLoad ==
    /\ rot' = [i \in Cells |-> IF i < head THEN rot[i] ELSE NoK]
    /\ delta' = [i \in Cells |-> 0]
    /\ has_shift' = FALSE
    /\ n' = 0
    /\ UNCHANGED <<pos, seqs, head, used>>

SessionSpec == Init /\ [][Next \/ SaveAndLoad]_vars

-------------------------------------------------------------------------------
(* Properties *)

TypeOK ==
    /\ pos \in [Cells -> -1 .. MaxPos]
    /\ seqs \in [Cells -> SUBSET Seqs]
    /\ delta \in [Cells -> Int]
    /\ rot \in [Cells -> Int]
    /\ has_shift \in BOOLEAN
    /\ head \in 0 .. Size
    /\ used \in Nat
    /\ n \in 0 .. Size

UsedCells == {i \in Cells : pos[i] >= 0}

(* A cell is in use exactly when some sequence has it, and used, which     *)
(* every function maintains on its own, counts these cells.                *)
UsedCounted ==
    /\ \A i \in Cells : pos[i] >= 0 <=> seqs[i] # {}
    /\ used = Cardinality(UsedCells)

(* The counters agree with the cells, through every function and failure.  *)
CellsSound == TypeOK /\ UsedCounted

(* The K of a used cell is rotated for the cell's position, but for the    *)
(* delta that the next graph will apply, and the next graph will do so.    *)
RotationCurrent ==
    /\ \A i \in UsedCells : pos[i] = rot[i] + delta[i]
    /\ \A i \in UsedCells : delta[i] # 0 => has_shift

(* find_slot finds a slot whenever there is one, wherever head is, and the *)
(* slot consists of free cells only.                                       *)
SlotFound ==
    \A k \in 1 .. MaxBatch :
        LET IsSlot(h) == h + k <= Size /\ \A i \in h .. h + k - 1 : pos[i] < 0
            slot == FindSlot(k) IN
        /\ slot.found <=> \E h \in Cells : IsSlot(h)
        /\ slot.found => IsSlot(slot.head)

(* The graph of a batch attends to every token in the cache, although      *)
(* llama_kv_cache_cell_max does not look at cell 0.                        *)
AttendsToAll == [][used' > used => UsedCells' \subseteq 0 .. n' - 1]_vars

(* A batch adds its tokens and keeps every other one.                      *)
DecodeKeepsTokens ==
    [][used' > used =>
          /\ \A i \in UsedCells : pos'[i] = pos[i] /\ seqs'[i] = seqs[i]
          /\ Cardinality(UsedCells') = Cardinality(UsedCells) + used' - used]_vars

===============================================================================
