-------------------------- MODULE ServerContextProofs --------------------------
(***************************************************************************)
(* Proofs about ServerContext for every size of the context and of the     *)
(* system prompt, all prompts and all values of n_keep.                    *)
(***************************************************************************)
EXTENDS ServerContext, InductionLemmas

Tok == Tokens \cup {Part, NoToken} \cup ({"system"} \X Nat)
Cell == [pos : Nat, tok : Tok]
RawCell == [pos : Int, tok : Tok]   \* before the negative positions are removed

(* Sequences with the same elements are equal. *)
LEMMA SeqsEqual ==
  ASSUME NEW T, NEW a \in Seq(T), NEW b \in Seq(T), Len(a) = Len(b),
         \A i \in 1 .. Len(a) : a[i] = b[i]
  PROVE  a = b
OBVIOUS

-------------------------------------------------------------------------------
(* The cells at given positions *)

(* u[n] is the list of those of the first n cells that are at positions. *)
Selected(cells, positions, u, n) ==
    IF n = 0 THEN <<>>
    ELSE IF cells[n].pos \in positions THEN Append(u[n - 1], cells[n])
    ELSE u[n - 1]

Selects(cells, positions, u) ==
    u = [n \in 0 .. Len(cells) |-> Selected(cells, positions, u, n)]

(* There is such a list, cell by cell. *)
LEMMA SelectionExists ==
  ASSUME NEW cells \in Seq(RawCell), NEW positions \in SUBSET Nat
  PROVE  \E u \in [0 .. Len(cells) -> Seq(Cell)] : Selects(cells, positions, u)
<1> DEFINE V == Seq(Cell)
           N == Len(cells)
           step(n, v) == IF cells[n].pos \in positions THEN Append(v, cells[n]) ELSE v
           next == [n \in 1 .. N |-> [v \in V |-> step(n, v)]]
<1>1. N \in Nat
  OBVIOUS
<1>2. ASSUME NEW n \in 1 .. N, NEW v \in V PROVE step(n, v) \in V
  <2>1. cells[n] \in RawCell
    OBVIOUS
  <2>2. cells[n].pos \in positions => cells[n] \in Cell
    BY <2>1 DEF RawCell, Cell
  <2> QED
    BY <2>2
<1>3. <<>> \in V
  OBVIOUS
<1> HIDE DEF V, step, N
<1>4. next \in [1 .. N -> [V -> V]]
  BY <1>2
<1>5. \A n \in 1 .. N, v \in V : next[n][v] = step(n, v)
  OBVIOUS
<1> HIDE DEF next
<1>6. PICK u : Iterates(V, <<>>, N, next, u)
  BY <1>1, <1>3, <1>4, Iteration, Zenon
<1>7. u \in [0 .. N -> V]
  BY <1>6 DEF Iterates
<1>8. \A n \in 0 .. N : u[n] = Selected(cells, positions, u, n)
  <2>1. u[0] = Selected(cells, positions, u, 0)
    BY <1>6 DEF Iterates, Selected
  <2>2. ASSUME NEW n \in 1 .. N PROVE u[n] = Selected(cells, positions, u, n)
    <3>1. n - 1 \in 0 .. N /\ n # 0
      BY <1>1
    <3>2. u[n] = step(n, u[n - 1])
      BY <1>5, <1>6, <1>7, <3>1 DEF Iterates
    <3> QED
      BY <3>1, <3>2 DEF Selected, step
  <2>3. \A n \in 0 .. N : n = 0 \/ n \in 1 .. N
    BY <1>1
  <2> QED
    BY <2>1, <2>2, <2>3
<1>9. u = [n \in 0 .. N |-> Selected(cells, positions, u, n)]
  BY <1>7, <1>8
<1> QED
  BY <1>7, <1>9 DEF Selects, V, N

LEMMA CellsAtSelects ==
  ASSUME NEW cells \in Seq(RawCell), NEW positions \in SUBSET Nat
  PROVE  \E u : Selects(cells, positions, u) /\ CellsAt(cells, positions) = u[Len(cells)]
<1> DEFINE u == CHOOSE u : Selects(cells, positions, u)
<1>1. CellsAt(cells, positions) = u[Len(cells)]
  BY DEF CellsAt, Selects, Selected
<1>2. Selects(cells, positions, u)
  BY SelectionExists
<1> HIDE DEF u
<1> QED
  BY <1>1, <1>2

LEMMA SelectedNone ==
  ASSUME NEW cells \in Seq(RawCell), NEW positions \in SUBSET Nat, NEW u, Selects(cells, positions, u)
  PROVE  u[0] = <<>>
<1>1. 0 \in 0 .. Len(cells)
  OBVIOUS
<1>2. u[0] = Selected(cells, positions, u, 0)
  BY <1>1 DEF Selects
<1> QED
  BY <1>2 DEF Selected

LEMMA SelectedStep ==
  ASSUME NEW cells \in Seq(RawCell), NEW positions \in SUBSET Nat, NEW u, Selects(cells, positions, u),
         NEW n \in 0 .. Len(cells) - 1
  PROVE  /\ n + 1 \in 1 .. Len(cells)
         /\ cells[n + 1].pos \in positions => u[n + 1] = Append(u[n], cells[n + 1])
         /\ cells[n + 1].pos \notin positions => u[n + 1] = u[n]
<1>1. n + 1 \in 0 .. Len(cells) /\ n + 1 # 0 /\ n + 1 - 1 = n /\ n + 1 \in 1 .. Len(cells)
  OBVIOUS
<1>2. u[n + 1] = Selected(cells, positions, u, n + 1)
  BY <1>1 DEF Selects
<1> QED
  BY <1>1, <1>2 DEF Selected

(* Every list is one of cells. *)
LEMMA SelectedCells ==
  ASSUME NEW cells \in Seq(RawCell), NEW positions \in SUBSET Nat, NEW u, Selects(cells, positions, u)
  PROVE  \A n \in 0 .. Len(cells) : u[n] \in Seq(Cell)
<1> DEFINE S == {n \in Nat : n <= Len(cells) => u[n] \in Seq(Cell)}
<1>1. 0 \in S
  <2>1. u[0] = <<>>
    BY SelectedNone
  <2>2. u[0] \in Seq(Cell)
    BY <2>1
  <2> QED
    BY <2>2
<1>2. ASSUME NEW n \in Nat, n \in S PROVE n + 1 \in S
  <2> SUFFICES ASSUME n + 1 <= Len(cells) PROVE u[n + 1] \in Seq(Cell)
    OBVIOUS
  <2>1. n \in 0 .. Len(cells) - 1 /\ n + 1 \in 1 .. Len(cells) /\ u[n] \in Seq(Cell)
    BY <1>2
  <2>2. u[n + 1] = IF cells[n + 1].pos \in positions THEN Append(u[n], cells[n + 1]) ELSE u[n]
    BY <2>1, SelectedStep
  <2>3. cells[n + 1] \in RawCell
    BY <2>1
  <2>4. cells[n + 1].pos \in positions => cells[n + 1] \in Cell
    BY <2>3 DEF RawCell, Cell
  <2> QED
    BY <2>1, <2>2, <2>4
<1>3. Nat \subseteq S
  <2> HIDE DEF S
  <2> QED BY <1>1, <1>2, NatSetInduction
<1> QED
  BY <1>3

(* Cells m + 1 to n are all at one of the positions, or none of them is.   *)
AllAt(cells, positions, m, n) == \A i \in m + 1 .. n : cells[i].pos \in positions
NoneAt(cells, positions, m, n) == \A i \in m + 1 .. n : cells[i].pos \notin positions

(* u[n] is u[m] and cells m + 1 to n, or some of these. *)
AllFrom(cells, u, m, n) ==
    /\ Len(u[n]) = Len(u[m]) + (n - m)
    /\ \A j \in 1 .. Len(u[m]) : u[n][j] = u[m][j]
    /\ \A j \in 1 .. n - m : u[n][Len(u[m]) + j] = cells[m + j]
SomeFrom(cells, u, m, n) ==
    /\ Len(u[n]) >= Len(u[m])
    /\ \A j \in 1 .. Len(u[m]) : u[n][j] = u[m][j]
    /\ \A j \in Len(u[m]) + 1 .. Len(u[n]) : \E i \in m + 1 .. n : u[n][j] = cells[i]

(* Cells m + 1 to n are not selected. *)
LEMMA NoneSelected ==
  ASSUME NEW cells \in Seq(RawCell), NEW positions \in SUBSET Nat, NEW u, Selects(cells, positions, u),
         NEW m \in 0 .. Len(cells), NEW n \in m .. Len(cells),
         NoneAt(cells, positions, m, n)
  PROVE  u[n] = u[m]
<1> USE DEF NoneAt
<1> DEFINE S == {d \in Nat : m + d <= n => u[m + d] = u[m]}
<1>1. 0 \in S
  OBVIOUS
<1>2. ASSUME NEW d \in Nat, d \in S PROVE d + 1 \in S
  <2> SUFFICES ASSUME m + (d + 1) <= n PROVE u[m + (d + 1)] = u[m]
    OBVIOUS
  <2>1. /\ u[m + d] = u[m] /\ m + d \in 0 .. Len(cells) - 1 /\ (m + d) + 1 \in m + 1 .. n
        /\ m + (d + 1) = (m + d) + 1
    BY <1>2
  <2>2. cells[(m + d) + 1].pos \notin positions
    BY <2>1
  <2>3. u[(m + d) + 1] = u[m + d]
    <3>1. PICK k \in 0 .. Len(cells) - 1 : k = m + d
      BY <2>1
    <3>2. cells[k + 1].pos \notin positions => u[k + 1] = u[k]
      BY SelectedStep
    <3> QED
      BY <2>2, <3>1, <3>2
  <2> QED
    BY <2>1, <2>3
<1>3. Nat \subseteq S
  <2> HIDE DEF S
  <2> QED BY <1>1, <1>2, NatSetInduction
<1>4. n - m \in S /\ m + (n - m) = n
  BY <1>3
<1> QED
  BY <1>4

(* Cells m + 1 to n are all selected. *)
LEMMA AllSelected ==
  ASSUME NEW cells \in Seq(RawCell), NEW positions \in SUBSET Nat, NEW u, Selects(cells, positions, u),
         NEW m \in 0 .. Len(cells), NEW n \in m .. Len(cells),
         AllAt(cells, positions, m, n)
  PROVE  AllFrom(cells, u, m, n)
<1> USE DEF AllAt
<1> DEFINE L == Len(u[m])
           Longer(d) == /\ Len(u[m + d]) = L + d
                        /\ \A j \in 1 .. L : u[m + d][j] = u[m][j]
                        /\ \A j \in 1 .. d : u[m + d][L + j] = cells[m + j]
           S == {d \in Nat : m + d <= n => Longer(d)}
<1>0. L \in Nat
  <2>1. u[m] \in Seq(Cell)
    BY SelectedCells
  <2> QED
    BY <2>1
<1> HIDE DEF L
<1>1. 0 \in S
  BY DEF L
<1>2. ASSUME NEW d \in Nat, d \in S PROVE d + 1 \in S
  <2> SUFFICES ASSUME m + (d + 1) <= n PROVE Longer(d + 1)
    OBVIOUS
  <2>1. /\ m + d \in 0 .. Len(cells) - 1 /\ m + d \in 0 .. Len(cells) /\ (m + d) + 1 \in m + 1 .. n
        /\ m + (d + 1) = (m + d) + 1
    OBVIOUS
  <2>2. Longer(d)
    BY <1>2
  <2>3. u[m + d] \in Seq(Cell)
    BY <2>1, SelectedCells
  <2>4. u[m + (d + 1)] = Append(u[m + d], cells[m + (d + 1)])
    <3>1. cells[(m + d) + 1].pos \in positions
      BY <2>1
    <3>2. PICK k \in 0 .. Len(cells) - 1 : k = m + d
      BY <2>1
    <3>3. cells[k + 1].pos \in positions => u[k + 1] = Append(u[k], cells[k + 1])
      BY SelectedStep
    <3> QED
      BY <2>1, <3>1, <3>2, <3>3
  <2>5. PICK s, c : s \in Seq(Cell) /\ s = u[m + d] /\ c = cells[m + (d + 1)]
    BY <2>3
  <2>6. Len(s) = L + d /\ (\A j \in 1 .. L : s[j] = u[m][j]) /\ (\A j \in 1 .. d : s[L + j] = cells[m + j])
    BY <2>2, <2>5
  <2>7. /\ Len(Append(s, c)) = L + (d + 1)
        /\ \A j \in 1 .. L + d : Append(s, c)[j] = s[j]
        /\ Append(s, c)[L + (d + 1)] = c
    BY <1>0, <2>6
  <2>8. \A j \in 1 .. L : Append(s, c)[j] = u[m][j]
    BY <1>0, <2>6, <2>7
  <2>9. ASSUME NEW j \in 1 .. d + 1 PROVE Append(s, c)[L + j] = cells[m + j]
    <3>1. CASE j = d + 1
      BY <2>5, <2>7, <3>1
    <3>2. CASE j \in 1 .. d
      <4>1. PICK l \in 1 .. L + d : l = L + j
        BY <1>0, <3>2
      <4>2. Append(s, c)[L + j] = s[L + j]
        BY <2>7, <4>1
      <4>3. s[L + j] = cells[m + j]
        BY <2>6, <3>2
      <4> QED
        BY <4>2, <4>3
    <3>3. j = d + 1 \/ j \in 1 .. d
      OBVIOUS
    <3> QED
      BY <3>1, <3>2, <3>3, Zenon
  <2> QED
    BY <2>4, <2>5, <2>7, <2>8, <2>9
<1>3. Nat \subseteq S
  <2> HIDE DEF S
  <2> QED BY <1>1, <1>2, NatSetInduction
<1>4. n - m \in S /\ m + (n - m) = n
  <2>1. n - m \in Nat /\ m + (n - m) = n
    OBVIOUS
  <2> HIDE DEF S
  <2> QED BY <1>3, <2>1
<1>5. Longer(n - m)
  BY <1>4
<1> QED
  BY <1>4, <1>5 DEF L, AllFrom

(* The cells after cell m that are selected follow those before it. *)
LEMMA SomeSelected ==
  ASSUME NEW cells \in Seq(RawCell), NEW positions \in SUBSET Nat, NEW u, Selects(cells, positions, u),
         NEW m \in 0 .. Len(cells), NEW n \in m .. Len(cells)
  PROVE  SomeFrom(cells, u, m, n)
<1> DEFINE L == Len(u[m])
           Longer(d) == /\ Len(u[m + d]) >= L
                        /\ \A j \in 1 .. L : u[m + d][j] = u[m][j]
                        /\ \A j \in L + 1 .. Len(u[m + d]) : \E i \in m + 1 .. m + d : u[m + d][j] = cells[i]
           S == {d \in Nat : m + d <= n => Longer(d)}
<1>0. L \in Nat
  <2>1. u[m] \in Seq(Cell)
    BY SelectedCells
  <2> QED
    BY <2>1
<1> HIDE DEF L
<1>1. 0 \in S
  BY <1>0 DEF L
<1>2. ASSUME NEW d \in Nat, d \in S PROVE d + 1 \in S
  <2> SUFFICES ASSUME m + (d + 1) <= n PROVE Longer(d + 1)
    OBVIOUS
  <2>1. /\ m + d \in 0 .. Len(cells) - 1 /\ m + d \in 0 .. Len(cells)
        /\ m + (d + 1) = (m + d) + 1
    OBVIOUS
  <2>2. Longer(d)
    BY <1>2
  <2>3. u[m + d] \in Seq(Cell)
    BY <2>1, SelectedCells
  <2>5. PICK s, c, r : s \in Seq(Cell) /\ s = u[m + d] /\ c = cells[m + (d + 1)] /\ r = u[m + (d + 1)]
    BY <2>3
  <2>4. r = s \/ r = Append(s, c)
    <3>1. u[(m + d) + 1] = u[m + d] \/ u[(m + d) + 1] = Append(u[m + d], cells[(m + d) + 1])
      BY <2>1, SelectedStep
    <3> QED
      BY <2>1, <2>5, <3>1
  <2>6. /\ Len(s) >= L /\ (\A j \in 1 .. L : s[j] = u[m][j])
        /\ \A j \in L + 1 .. Len(s) : \E i \in m + 1 .. m + d : s[j] = cells[i]
    BY <2>2, <2>5
  <2>7. \A j \in L + 1 .. Len(s) : \E i \in m + 1 .. m + (d + 1) : s[j] = cells[i]
    BY <2>6
  <2>8. CASE r = s
    BY <2>5, <2>6, <2>7, <2>8
  <2>9. CASE r = Append(s, c)
    <3>1. /\ Len(r) = Len(s) + 1 /\ Len(s) \in Nat
          /\ \A j \in 1 .. Len(s) : r[j] = s[j]
          /\ r[Len(s) + 1] = c
      BY <2>9
    <3>2. Len(r) >= L /\ \A j \in 1 .. L : r[j] = u[m][j]
      <4>1. Len(r) >= L /\ \A j \in 1 .. L : j \in 1 .. Len(s)
        BY <1>0, <2>6, <3>1
      <4>2. ASSUME NEW j \in 1 .. L PROVE r[j] = u[m][j]
        BY <2>6, <3>1, <4>1
      <4> QED
        BY <4>1, <4>2
    <3>3. ASSUME NEW j \in L + 1 .. Len(r) PROVE \E i \in m + 1 .. m + (d + 1) : r[j] = cells[i]
      <4>1. CASE j = Len(s) + 1
        <5>1. m + (d + 1) \in m + 1 .. m + (d + 1) /\ r[j] = cells[m + (d + 1)]
          BY <2>5, <3>1, <4>1
        <5> QED
          BY <5>1
      <4>2. CASE j \in L + 1 .. Len(s)
        <5>1. r[j] = s[j]
          BY <1>0, <3>1, <4>2
        <5> QED
          BY <2>7, <4>2, <5>1
      <4> QED
        BY <1>0, <2>6, <3>1, <4>1, <4>2
    <3> QED
      BY <2>5, <3>2, <3>3
  <2> QED
    BY <2>4, <2>8, <2>9
<1>3. Nat \subseteq S
  <2> HIDE DEF S
  <2> QED BY <1>1, <1>2, NatSetInduction
<1>4. n - m \in S /\ m + (n - m) = n
  <2>1. n - m \in Nat /\ m + (n - m) = n
    OBVIOUS
  <2> HIDE DEF S
  <2> QED BY <1>3, <2>1
<1>5. Longer(n - m)
  BY <1>4
<1> QED
  BY <1>4, <1>5 DEF L, SomeFrom

LEMMA CellsAtType ==
  ASSUME NEW cells \in Seq(RawCell), NEW positions \in SUBSET Nat
  PROVE  CellsAt(cells, positions) \in Seq(Cell)
<1>1. PICK u : Selects(cells, positions, u) /\ CellsAt(cells, positions) = u[Len(cells)]
  BY CellsAtSelects
<1>2. \A n \in 0 .. Len(cells) : u[n] \in Seq(Cell)
  BY <1>1, SelectedCells
<1>3. Len(cells) \in 0 .. Len(cells)
  OBVIOUS
<1> QED
  BY <1>1, <1>2, <1>3

LEMMA SeqRmType ==
  ASSUME NEW cells \in Seq(RawCell), NEW p0, NEW p1
  PROVE  SeqRm(cells, p0, p1) \in Seq(Cell)
<1>1. Nat \ (p0 .. p1 - 1) \in SUBSET Nat
  OBVIOUS
<1> QED
  BY <1>1, CellsAtType DEF SeqRm

LEMMA RawCells == Seq(Cell) \subseteq Seq(RawCell)
<1>1. Cell \subseteq RawCell
  BY DEF Cell, RawCell
<1> QED
  BY <1>1

(* All cells in use are at positions from 0 on. *)
LEMMA AllCells ==
  ASSUME NEW cells \in Seq(Cell)
  PROVE  CellsAt(cells, Nat) = cells
<1>1. cells \in Seq(RawCell) /\ Nat \in SUBSET Nat
  BY RawCells
<1>2. PICK N \in Nat : N = Len(cells)
  OBVIOUS
<1>3. PICK u : Selects(cells, Nat, u) /\ CellsAt(cells, Nat) = u[N]
  BY <1>1, <1>2, CellsAtSelects
<1>4. 0 \in 0 .. Len(cells) /\ N \in 0 .. Len(cells)
  BY <1>2
<1>5. AllAt(cells, Nat, 0, N)
  <2>1. ASSUME NEW i \in 1 .. N PROVE cells[i].pos \in Nat
    <3>1. cells[i] \in Cell
      BY <1>2
    <3> QED
      BY <3>1 DEF Cell
  <2> QED
    BY <2>1 DEF AllAt
<1>6. u[0] = <<>> /\ Len(u[0]) = 0
  BY <1>1, <1>3, SelectedNone
<1>7. AllFrom(cells, u, 0, N)
  BY <1>1, <1>3, <1>4, <1>5, AllSelected
<1>8. PICK r : r = u[N]
  OBVIOUS
<1>9. r \in Seq(Cell)
  BY <1>1, <1>3, <1>8, CellsAtType
<1>10. Len(r) = N /\ \A i \in 1 .. N : r[i] = cells[i]
  BY <1>6, <1>7, <1>8 DEF AllFrom
<1> QED
  BY <1>2, <1>3, <1>8, <1>9, <1>10, SeqsEqual

(* A row at a negative position gets no cell. *)
LEMMA NoCells ==
  ASSUME NEW row \in RawCell, row.pos < 0
  PROVE  CellsAt(<<row>>, Nat) = <<>>
<1>0. <<row>> \in Seq(RawCell)
  OBVIOUS
<1>1. PICK cells \in Seq(RawCell) : cells = <<row>> /\ Len(cells) = 1 /\ cells[1] = row
  BY <1>0
<1>2. Nat \in SUBSET Nat
  OBVIOUS
<1>3. PICK u : Selects(cells, Nat, u) /\ CellsAt(cells, Nat) = u[1]
  BY <1>1, <1>2, CellsAtSelects
<1>4. 0 \in 0 .. Len(cells) /\ 1 \in 0 .. Len(cells)
  BY <1>1
<1>5. NoneAt(cells, Nat, 0, 1)
  BY <1>1 DEF NoneAt
<1>6. u[1] = u[0]
  BY <1>2, <1>3, <1>4, <1>5, NoneSelected
<1>7. u[0] = <<>>
  BY <1>2, <1>3, SelectedNone
<1> QED
  BY <1>1, <1>3, <1>6, <1>7

(* llama_kv_cache_seq_rm from a position on leaves the n cells that are at *)
(* their positions alone, and all later cells that it leaves are behind.   *)
LEMMA PrefixKept ==
  ASSUME NEW cells \in Seq(Cell), NEW n \in 0 .. Len(cells), NEW c \in Nat,
         \A i \in 1 .. n : cells[i].pos < n,
         \A i \in n + 1 .. Len(cells) : cells[i].pos >= n
  PROVE  LET r == CellsAt(cells, 0 .. n + c - 1) IN
         /\ r \in Seq(Cell) /\ Len(r) >= n
         /\ \A i \in 1 .. n : r[i] = cells[i]
         /\ \A i \in n + 1 .. Len(r) : r[i].pos >= n
         /\ c = 0 => Len(r) = n
<1> DEFINE positions == 0 .. n + c - 1
<1>1. cells \in Seq(RawCell) /\ positions \in SUBSET Nat
  BY RawCells
<1>2. AllAt(cells, positions, 0, n)
  <2>1. ASSUME NEW i \in 1 .. n PROVE cells[i].pos \in Nat
    <3>1. cells[i] \in Cell
      OBVIOUS
    <3> QED
      BY <3>1 DEF Cell
  <2> QED
    BY <2>1 DEF AllAt
<1>3. PICK N \in Nat : N = Len(cells)
  OBVIOUS
<1>4. c = 0 => NoneAt(cells, positions, n, N)
  BY <1>3 DEF NoneAt
<1> HIDE DEF positions
<1>5. PICK u : Selects(cells, positions, u) /\ CellsAt(cells, positions) = u[N]
  BY <1>1, <1>3, CellsAtSelects
<1>6. 0 \in 0 .. Len(cells) /\ n \in 0 .. Len(cells) /\ N \in n .. Len(cells)
  BY <1>3
<1>7. u[0] = <<>> /\ Len(u[0]) = 0
  BY <1>1, <1>5, SelectedNone
<1>8. AllFrom(cells, u, 0, n)
  BY <1>1, <1>2, <1>5, <1>6, AllSelected
<1>9. Len(u[n]) = n /\ \A i \in 1 .. n : u[n][i] = cells[i]
  BY <1>7, <1>8 DEF AllFrom
<1>10. SomeFrom(cells, u, n, N)
  BY <1>1, <1>5, <1>6, SomeSelected
<1>11. c = 0 => u[N] = u[n]
  BY <1>1, <1>4, <1>5, <1>6, NoneSelected
<1>12. u[N] \in Seq(Cell)
  BY <1>1, <1>5, CellsAtType
<1>13. PICK r : r = u[N]
  OBVIOUS
<1>14. \A i \in n + 1 .. Len(r) : r[i].pos >= n
  BY <1>3, <1>9, <1>10, <1>13 DEF SomeFrom
<1>15. \A i \in 1 .. n : r[i] = cells[i]
  BY <1>9, <1>10, <1>13 DEF SomeFrom
<1>16. r \in Seq(Cell) /\ Len(r) >= n /\ (c = 0 => Len(r) = n)
  BY <1>9, <1>10, <1>11, <1>12, <1>13 DEF SomeFrom
<1> QED
  BY <1>5, <1>13, <1>14, <1>15, <1>16 DEF positions

(* llama_kv_cache_seq_rm of d positions among cells at their positions.    *)
LEMMA BlockRemoved ==
  ASSUME NEW cells \in Seq(Cell), NEW k \in Nat, NEW d \in Nat, k + d <= Len(cells),
         \A i \in 1 .. Len(cells) : cells[i].pos = i - 1
  PROVE  LET r == SeqRm(cells, k, k + d) IN
         /\ r \in Seq(Cell) /\ Len(r) = Len(cells) - d
         /\ \A i \in 1 .. Len(r) : r[i] = IF i <= k THEN cells[i] ELSE cells[i + d]
<1> DEFINE positions == Nat \ (k .. k + d - 1)
<1>1. cells \in Seq(RawCell) /\ positions \in SUBSET Nat
  BY RawCells
<1>2. PICK N \in Nat, e \in Nat : N = Len(cells) /\ e = k + d
  OBVIOUS
<1>3. AllAt(cells, positions, 0, k)
  BY DEF AllAt
<1>4. NoneAt(cells, positions, k, e)
  BY <1>2 DEF NoneAt
<1>5. AllAt(cells, positions, e, N)
  BY <1>2 DEF AllAt
<1> HIDE DEF positions
<1>6. PICK u : Selects(cells, positions, u) /\ CellsAt(cells, positions) = u[N]
  BY <1>1, <1>2, CellsAtSelects
<1>7. /\ 0 \in 0 .. Len(cells) /\ k \in 0 .. Len(cells)
      /\ e \in k .. Len(cells) /\ e \in 0 .. Len(cells) /\ N \in e .. Len(cells)
  BY <1>2
<1>8. u[0] = <<>> /\ Len(u[0]) = 0
  BY <1>1, <1>6, SelectedNone
<1>9. AllFrom(cells, u, 0, k)
  BY <1>1, <1>3, <1>6, <1>7, AllSelected
<1>10. Len(u[k]) = k /\ \A i \in 1 .. k : u[k][i] = cells[i]
  BY <1>8, <1>9 DEF AllFrom
<1>11. u[e] = u[k]
  BY <1>1, <1>4, <1>6, <1>7, NoneSelected
<1>12. AllFrom(cells, u, e, N)
  BY <1>1, <1>5, <1>6, <1>7, AllSelected
<1>13. PICK r : r = u[N]
  OBVIOUS
<1>14. r \in Seq(Cell)
  BY <1>1, <1>6, <1>13, CellsAtType
<1>15. Len(r) = k + (N - e) /\ N - e \in Nat
  BY <1>2, <1>7, <1>10, <1>11, <1>12, <1>13 DEF AllFrom
<1>16. /\ \A i \in 1 .. k : r[i] = cells[i]
       /\ \A j \in 1 .. N - e : r[k + j] = cells[e + j]
  BY <1>10, <1>11, <1>12, <1>13 DEF AllFrom
<1>17. ASSUME NEW i \in 1 .. Len(r) PROVE r[i] = IF i <= k THEN cells[i] ELSE cells[i + d]
  <2>1. CASE i <= k
    BY <1>15, <1>16, <2>1
  <2>2. CASE ~(i <= k)
    <3>1. PICK j \in 1 .. N - e : j = i - k
      BY <1>15, <2>2
    <3>2. k + j = i /\ e + j = i + d
      BY <1>2, <1>15, <3>1
    <3>3. r[k + j] = cells[e + j]
      BY <1>16
    <3> QED
      BY <2>2, <3>2, <3>3
  <2> QED
    BY <2>1, <2>2
<1>18. SeqRm(cells, k, k + d) = r
  BY <1>6, <1>13 DEF SeqRm, positions
<1>19. Len(r) = Len(cells) - d
  BY <1>2, <1>15
<1> QED
  BY <1>14, <1>17, <1>18, <1>19

Moved(c, p0, p1, delta) == IF c.pos \in p0 .. p1 - 1 THEN [c EXCEPT !.pos = @ + delta] ELSE c

(* llama_kv_cache_seq_shift.  Only cells whose position becomes negative   *)
(* are freed.                                                              *)
LEMMA Shifted ==
  ASSUME NEW cells \in Seq(Cell), NEW p0 \in Int, NEW p1 \in Int, NEW delta \in Int
  PROVE  LET r == SeqShift(cells, p0, p1, delta) IN
         /\ r \in Seq(Cell)
         /\ (\A i \in 1 .. Len(cells) : Moved(cells[i], p0, p1, delta).pos >= 0) =>
              /\ Len(r) = Len(cells)
              /\ \A i \in 1 .. Len(cells) : r[i] = Moved(cells[i], p0, p1, delta)
<1> DEFINE m == [i \in DOMAIN cells |-> Moved(cells[i], p0, p1, delta)]
           r == CellsAt(m, Nat)
<1>1. SeqShift(cells, p0, p1, delta) = r
  BY DEF SeqShift, Moved
<1>2. PICK N \in Nat : N = Len(cells) /\ DOMAIN cells = 1 .. N
  OBVIOUS
<1>3. ASSUME NEW i \in 1 .. N PROVE Moved(cells[i], p0, p1, delta) \in RawCell
  <2>1. PICK c \in Cell : c = cells[i]
    BY <1>2
  <2>2. c.pos \in Int /\ c.pos + delta \in Int /\ c.tok \in Tok
    BY DEF Cell
  <2>3. c \in RawCell /\ [c EXCEPT !.pos = @ + delta] \in RawCell
    BY <2>2 DEF Cell, RawCell
  <2> QED
    BY <2>1, <2>3 DEF Moved
<1>4. /\ m \in Seq(RawCell) /\ Len(m) = N
      /\ \A i \in 1 .. N : m[i] = Moved(cells[i], p0, p1, delta)
  BY <1>2, <1>3
<1> HIDE DEF m
<1>5. r \in Seq(Cell)
  BY <1>4, CellsAtType
<1>6. ASSUME \A i \in 1 .. Len(cells) : Moved(cells[i], p0, p1, delta).pos >= 0
      PROVE  /\ Len(r) = Len(cells)
             /\ \A i \in 1 .. Len(cells) : r[i] = Moved(cells[i], p0, p1, delta)
  <2>1. AllAt(m, Nat, 0, N)
    <3>1. ASSUME NEW i \in 1 .. N PROVE m[i].pos \in Nat
      <4>1. m[i] \in RawCell /\ m[i].pos >= 0
        BY <1>2, <1>4, <1>6
      <4> QED
        BY <4>1 DEF RawCell
    <3> QED
      BY <3>1 DEF AllAt
  <2>2. PICK u : Selects(m, Nat, u) /\ r = u[N]
    BY <1>4, CellsAtSelects
  <2>3. u[0] = <<>> /\ Len(u[0]) = 0
    BY <1>4, <2>2, SelectedNone
  <2>4. 0 \in 0 .. Len(m) /\ N \in 0 .. Len(m)
    BY <1>4
  <2>5. AllFrom(m, u, 0, N)
    BY <1>4, <2>1, <2>2, <2>4, AllSelected
  <2> HIDE DEF r
  <2>6. Len(r) = N /\ \A i \in 1 .. N : r[i] = m[i]
    BY <2>2, <2>3, <2>5 DEF AllFrom
  <2> QED
    BY <1>2, <1>4, <2>6
<1> HIDE DEF r
<1> QED
  BY <1>1, <1>5, <1>6

-------------------------------------------------------------------------------
(* Sequences and numbers *)

LEMMA Div ==
  ASSUME NEW x \in Nat, NEW n \in Nat \ {0}
  PROVE  /\ x \div n \in Nat
         /\ (x \div n) * n <= x
         /\ x < (x \div n) * n + n
OBVIOUS

(* What a context shift leaves. *)
LEMMA Discarded ==
  ASSUME NEW T, NEW s \in Seq(T), NDiscard \in Nat, n_keep \in Nat
  PROVE  /\ Discard(s) \in Seq(T)
         /\ NDiscard <= Len(s) => Len(Discard(s)) = Len(s) - NDiscard
         /\ NDiscard > Len(s) => Len(Discard(s)) = 0
         /\ \A i \in 1 .. Len(s) - NDiscard :
              Discard(s)[i] = IF i <= n_keep + 1 THEN s[i] ELSE s[i + NDiscard]
<1> DEFINE m == Len(s) - NDiscard
           el(i) == IF i <= n_keep + 1 THEN s[i] ELSE s[i + NDiscard]
<1>1. \A i \in 1 .. m : el(i) \in T
  OBVIOUS
<1>2. CASE m \in Nat
  BY <1>1, <1>2 DEF Discard
<1>3. CASE m < 0
  <2>1. 1 .. m = 1 .. 0
    BY <1>3
  <2>2. Discard(s) = <<>>
    BY <2>1 DEF Discard
  <2> QED
    BY <1>3, <2>1, <2>2
<1> QED
  BY <1>2, <1>3

(* The part two sequences have in common is a part of both. *)
LEMMA CommonBound ==
  ASSUME NEW T, NEW a \in Seq(T), NEW b \in Seq(T)
  PROVE  CommonPart(a, b) \in 0 .. Len(b)
<1> DEFINE n == Least(Len(a), Len(b))
           S == {k \in 0 .. n : SubSeq(a, 1, k) = SubSeq(b, 1, k)}
<1>1. n \in Nat /\ n <= Len(b)
  BY DEF Least
<1>2. S \in SUBSET (0 .. n) /\ S # {}
  <2>1. SubSeq(a, 1, 0) = <<>> /\ SubSeq(b, 1, 0) = <<>>
    OBVIOUS
  <2>2. 0 \in S
    BY <1>1, <2>1
  <2> QED
    BY <2>2
<1>3. CommonPart(a, b) = Max(S)
  BY DEF CommonPart
<1> HIDE DEF S, n
<1>4. \E x \in S : \A y \in S : x >= y
  BY <1>1, <1>2, GreatestElement
<1>5. Max(S) \in S
  BY <1>4 DEF Max
<1>6. PICK x \in 0 .. n : x = Max(S)
  BY <1>2, <1>5
<1>7. Len(b) \in Nat
  OBVIOUS
<1> QED
  BY <1>1, <1>3, <1>6, <1>7

-------------------------------------------------------------------------------
(* The inductive invariant *)

TypeInv ==
    /\ TypeOK
    /\ pc \in {"tasks", "idle", "shift", "batch", "decode", "sample", "stopped"}
    /\ text \in Seq(Tokens \cup {Part})
    /\ system_prompt \in Nat /\ system_tokens \in 0 .. system_prompt
    /\ kv \in Seq(Cell) /\ batch \in Seq(RawCell)

SlotInv ==
    /\ command = "LOAD_PROMPT" => prompt \in Prompts /\ state = "IDLE"
    /\ all_slots_are_idle => state = "IDLE" /\ command # "LOAD_PROMPT"
    /\ pc \in {"decode", "sample"} => state = "PROCESSING"
    /\ system_need_update => system_prompt > 0
    /\ displaced => system_tokens > 0
    /\ stray \in BOOLEAN

Waiting == pc \in {"tasks", "idle", "shift", "batch"}

(* cache_tokens counts the token that is not yet decoded, or less.         *)
LengthInv ==
    /\ state = "IDLE" => Len(cache_tokens) < NCtx
    /\ state = "PROCESSING" =>
         /\ n_past = Len(text) /\ Len(cache_tokens) <= NCtx
         /\ pc \in {"batch", "decode", "sample"} => Len(cache_tokens) < NCtx
         /\ pc \in {"decode", "sample"} => Len(cache_tokens) <= n_past
         /\ Waiting => Len(cache_tokens) <= n_past + 1 /\ sampled # NoToken

TextInv ==
    state = "PROCESSING" /\ ~parts =>
        /\ Waiting => cache_tokens = Append(text, sampled)
        /\ pc \in {"decode", "sample"} => cache_tokens = text

(* The rows of the batch that get a cell: all of them, except for the one  *)
(* row of an empty prompt without a system prompt.                         *)
Rows == CellsAt(batch, Nat)
RowsInv == pc = "decode" => Rows = batch \/ (Len(batch) = 1 /\ n_past = 0)

(* The cells are not what the text says: a shift has moved the system      *)
(* prompt, or the row of an empty prompt has got a cell beside its last.   *)
Spoilt == displaced \/ (stray /\ NSystem > 0)

(* The system prompt is first in the cache. *)
SystemCell(i) == [pos |-> i - 1, tok |-> <<"system", system_tokens>>]
SystemInv ==
    ~Spoilt =>
        /\ Len(kv) >= NSystem
        /\ \A i \in 1 .. NSystem : kv[i] = SystemCell(i)
        /\ \A i \in NSystem + 1 .. Len(kv) : kv[i].pos >= NSystem
        /\ pc = "decode" => \A i \in 1 .. Len(Rows) : Rows[i].pos >= NSystem

(* The cells of the cache, with those that are to be decoded, are those of *)
(* the text, in its order.                                                 *)
TextCell(i) ==
    [pos |-> i - 1, tok |-> IF i <= NSystem THEN <<"system", system_tokens>> ELSE text[i - NSystem]]
CacheInv ==
    state = "PROCESSING" /\ ~reused /\ ~Spoilt =>
        /\ Waiting \/ pc = "sample" =>
             /\ Len(kv) = NSystem + n_past
             /\ \A i \in 1 .. NSystem + n_past : kv[i] = TextCell(i)
        /\ pc = "decode" =>
             /\ Len(kv) + Len(Rows) = NSystem + n_past
             /\ \A i \in 1 .. Len(kv) : kv[i] = TextCell(i)
             /\ \A i \in 1 .. Len(Rows) : Rows[i] = TextCell(Len(kv) + i)

CellsInv == RowsInv /\ SystemInv /\ CacheInv
IInv == TypeInv /\ SlotInv /\ LengthInv /\ TextInv /\ CellsInv

LEMMA SystemBound ==
  ASSUME TypeInv
  PROVE  NSystem \in Nat /\ (NSystem = 0 <=> system_tokens = 0)
  BY SizesAssumption DEF TypeInv, NSystem

LEMMA InitIInv == Init => IInv
<1> SUFFICES ASSUME Init PROVE IInv
  OBVIOUS
<1>1. TypeInv
  <2>1. TypeOK
    <3>1. cache_prompt \in BOOLEAN /\ multibyte_pending \in BOOLEAN
      BY Zenon DEF Init
    <3> QED
      BY <3>1 DEF Init, TypeOK
  <2> QED
    BY <2>1 DEF Init, TypeInv
<1>2. SlotInv /\ LengthInv /\ TextInv
  <2>1. stray \in BOOLEAN
    BY Zenon DEF Init
  <2> QED
    BY <2>1, SizesAssumption DEF Init, SlotInv, LengthInv, TextInv
<1>3. RowsInv /\ SystemInv /\ CacheInv
  BY DEF Init, RowsInv, SystemInv, CacheInv, NSystem
<1> QED
  BY <1>1, <1>2, <1>3 DEF IInv, CellsInv

-------------------------------------------------------------------------------
(* Steps that leave the context alone *)

(* What the cells and the text are does not depend on the rest. *)
LEMMA SameCellsStep ==
  ASSUME IInv, UNCHANGED <<kv, text, n_past, system_tokens, displaced, stray, reused>>,
         pc' # "decode",
         state' = "PROCESSING" => state = "PROCESSING" /\ (Waiting \/ pc = "sample")
  PROVE  CellsInv'
<1>0. (Spoilt' <=> Spoilt) /\ NSystem' = NSystem
  BY DEF Spoilt, NSystem
<1>1. SystemInv'
  BY <1>0 DEF IInv, CellsInv, SystemInv, SystemCell
<1>2. CacheInv'
  BY <1>0 DEF IInv, CellsInv, CacheInv, TextCell
<1>3. RowsInv'
  BY DEF RowsInv
<1> QED
  BY <1>1, <1>2, <1>3 DEF CellsInv

(* Nor when the batch is the same. *)
LEMMA SameContextStep ==
  ASSUME IInv, UNCHANGED <<kv, text, n_past, system_tokens, displaced, stray, reused, state, pc, batch>>
  PROVE  CellsInv'
<1>0. (Spoilt' <=> Spoilt) /\ NSystem' = NSystem /\ Rows' = Rows /\ (Waiting' <=> Waiting)
  BY DEF Spoilt, NSystem, Rows, Waiting
<1>1. SystemInv'
  BY <1>0 DEF IInv, CellsInv, SystemInv, SystemCell
<1>2. CacheInv'
  BY <1>0 DEF IInv, CellsInv, CacheInv, TextCell
<1>3. RowsInv'
  BY <1>0 DEF IInv, CellsInv, RowsInv
<1> QED
  BY <1>1, <1>2, <1>3 DEF CellsInv

LEMMA LaunchStep ==
  ASSUME IInv, NEW p \in Prompts, NEW cache \in CachePrompts, NEW keep \in Keeps, NEW system \in BOOLEAN,
         Launch(p, cache, keep, system)
  PROVE  IInv'
<1> USE DEF IInv, Launch
<1>1. cache \in BOOLEAN /\ keep \in Int
  BY KeepsAssumption
<1>2. TypeInv'
  <2>1. system_prompt' \in Nat /\ system_prompt' >= system_prompt
    BY DEF TypeInv
  <2>2. cache_prompt' \in BOOLEAN /\ multibyte_pending' \in BOOLEAN
    BY <1>1, Zenon
  <2>3. TypeOK'
    BY <1>1, <2>2 DEF TypeInv, TypeOK
  <2> QED
    BY <2>1, <2>3 DEF TypeInv, ghosts
<1>3. SlotInv'
  BY DEF TypeInv, SlotInv, ghosts
<1>4. LengthInv' /\ TextInv'
  BY DEF LengthInv, TextInv, ghosts
<1>5. CellsInv'
  <2>1. SystemInv'
    BY DEF CellsInv, SystemInv, SystemCell, NSystem, Spoilt, ghosts
  <2>2. CacheInv' /\ RowsInv'
    BY DEF CacheInv, RowsInv
  <2> QED
    BY <2>1, <2>2 DEF CellsInv
<1> QED
  BY <1>2, <1>3, <1>4, <1>5

LEMMA CancelStep ==
  ASSUME IInv, Cancel
  PROVE  IInv'
<1> USE DEF Cancel, request, context, server, ghosts
<1>1. TypeInv' /\ SlotInv'
  BY DEF IInv, TypeInv, TypeOK, SlotInv
<1>2. LengthInv' /\ TextInv'
  BY DEF IInv, LengthInv, TextInv, Waiting
<1>3. CellsInv'
  BY SameCellsStep DEF Waiting
<1> QED
  BY <1>1, <1>2, <1>3 DEF IInv

LEMMA TasksDoneStep ==
  ASSUME IInv, TasksDone
  PROVE  IInv'
<1> USE DEF TasksDone, Goto, request, context, server, ghosts
<1>1. TypeInv' /\ SlotInv'
  BY DEF IInv, TypeInv, TypeOK, SlotInv
<1>2. LengthInv' /\ TextInv'
  BY DEF IInv, LengthInv, TextInv, Waiting
<1>3. CellsInv'
  BY SameCellsStep DEF Waiting
<1> QED
  BY <1>1, <1>2, <1>3 DEF IInv

LEMMA NoShiftStep ==
  ASSUME IInv, NoShift
  PROVE  IInv'
<1> USE DEF NoShift, Goto, request, context, server, ghosts
<1>1. TypeInv' /\ SlotInv'
  BY DEF IInv, TypeInv, TypeOK, SlotInv
<1>2. LengthInv' /\ TextInv'
  BY SizesAssumption DEF IInv, TypeInv, TypeOK, LengthInv, TextInv, Waiting, ShiftDue, Processing
<1>3. CellsInv'
  BY SameCellsStep DEF Waiting
<1> QED
  BY <1>1, <1>2, <1>3 DEF IInv

LEMMA ReleaseStep ==
  ASSUME IInv, Release \/ NoSlotBusy
  PROVE  IInv'
<1> USE DEF Release, NoSlotBusy, Goto, request, context, server, ghosts
<1>0. state' = "IDLE" /\ command' = "NONE" /\ pc' = "tasks" /\ batch' = <<>>
  OBVIOUS
<1>1. TypeInv' /\ SlotInv'
  <2>1. <<>> \in Seq(Cell)
    OBVIOUS
  <2>2. TypeInv'
    BY <1>0, <2>1 DEF IInv, TypeInv, TypeOK
  <2>3. SlotInv'
    BY <1>0 DEF IInv, SlotInv
  <2> QED
    BY <2>2, <2>3
<1>2. LengthInv' /\ TextInv'
  BY <1>0 DEF IInv, TypeInv, TypeOK, LengthInv, TextInv
<1>3. CellsInv'
  BY <1>0, SameCellsStep
<1> QED
  BY <1>1, <1>2, <1>3 DEF IInv

LEMMA StutterStep ==
  ASSUME IInv, UNCHANGED vars
  PROVE  IInv'
<1> USE DEF vars, request, context, server, ghosts
<1>1. TypeInv' /\ SlotInv'
  BY DEF IInv, TypeInv, TypeOK, SlotInv
<1>2. LengthInv' /\ TextInv'
  BY DEF IInv, LengthInv, TextInv, Waiting
<1>3. CellsInv'
  BY SameContextStep
<1> QED
  BY <1>1, <1>2, <1>3 DEF IInv

(* All cells are those of the new system prompt, or there is none.  No     *)
(* slot works.                                                             *)
LEMMA WhenIdleStep ==
  ASSUME IInv, WhenIdle
  PROVE  IInv'
<1> USE DEF WhenIdle, Goto, request, context, ghosts
<1>1. CASE system_need_update /\ all_slots_are_idle
  <2>0. stray' \in BOOLEAN /\ ~displaced' /\ ~stray'
    BY <1>1, Zenon
  <2>1. /\ kv' = SystemCells /\ system_tokens' = system_prompt /\ pc' = "shift"
        /\ UNCHANGED <<state, command, request, context, all_slots_are_idle, system_prompt, batch, text,
                       reused, parts>>
        /\ ~system_need_update'
    BY <1>1
  <2>2. state = "IDLE" /\ command # "LOAD_PROMPT" /\ system_prompt > 0
    BY <1>1 DEF IInv, SlotInv
  <2>3. NSystem' = SysLen
    BY <2>1, <2>2 DEF NSystem, IInv, TypeInv
  <2>4. /\ SystemCells \in Seq(Cell) /\ Len(SystemCells) = SysLen
        /\ \A i \in 1 .. SysLen : SystemCells[i] = [pos |-> i - 1, tok |-> <<"system", system_prompt>>]
    <3>1. SysLen \in Nat
      BY SizesAssumption
    <3>2. \A i \in 1 .. SysLen : [pos |-> i - 1, tok |-> <<"system", system_prompt>>] \in Cell
      BY <3>1 DEF Cell, Tok, IInv, TypeInv
    <3> QED
      BY <3>1, <3>2 DEF SystemCells
  <2>5. TypeInv' /\ SlotInv'
    BY <2>0, <2>1, <2>2, <2>4, RawCells DEF IInv, TypeInv, TypeOK, SlotInv
  <2>6. LengthInv' /\ TextInv' /\ CacheInv' /\ RowsInv'
    BY <2>1, <2>2 DEF IInv, LengthInv, TextInv, CacheInv, RowsInv
  <2>7. SystemInv'
    <3>1. Len(kv') = NSystem' /\ NSystem' \in Nat
      BY <2>1, <2>3, <2>4, SizesAssumption
    <3>2. \A i \in 1 .. NSystem' : kv'[i] = SystemCell(i)'
      BY <2>1, <2>3, <2>4 DEF SystemCell
    <3>3. pc' # "decode"
      BY <2>1
    <3>4. \A i \in NSystem' + 1 .. Len(kv') : kv'[i].pos >= NSystem'
      <4>1. PICK n \in Nat : n = NSystem' /\ n = Len(kv')
        BY <3>1
      <4>2. ASSUME NEW i \in n + 1 .. n PROVE FALSE
        OBVIOUS
      <4> QED
        BY <4>1, <4>2
    <3>5. Len(kv') >= NSystem'
      BY <3>1
    <3> QED
      BY <3>2, <3>3, <3>4, <3>5, Zenon DEF SystemInv
  <2> QED
    BY <2>5, <2>6, <2>7 DEF IInv, CellsInv
<1>2. CASE ~(system_need_update /\ all_slots_are_idle) /\ all_slots_are_idle /\ system_prompt = 0 /\ clean_kv_cache
  <2>0. stray' \in BOOLEAN
    BY <1>2, Zenon
  <2>1. /\ kv' = <<>> /\ pc' = "shift"
        /\ UNCHANGED <<state, command, request, context, all_slots_are_idle, system_prompt, batch, text,
                       reused, parts, system_tokens, system_need_update, displaced>>
    BY <1>2
  <2>2. state = "IDLE" /\ command # "LOAD_PROMPT" /\ system_tokens = 0
    BY <1>2 DEF IInv, SlotInv, TypeInv
  <2>3. TypeInv' /\ SlotInv'
    BY <2>0, <2>1, <2>2 DEF IInv, TypeInv, TypeOK, SlotInv
  <2>4. LengthInv' /\ TextInv' /\ CacheInv' /\ RowsInv'
    BY <2>1, <2>2 DEF IInv, LengthInv, TextInv, CacheInv, RowsInv
  <2>5. SystemInv'
    BY <2>1, <2>2 DEF SystemInv, NSystem
  <2> QED
    BY <2>3, <2>4, <2>5 DEF IInv, CellsInv
<1>3. CASE /\ ~(system_need_update /\ all_slots_are_idle)
           /\ ~(all_slots_are_idle /\ system_prompt = 0 /\ clean_kv_cache)
  <2>1. /\ pc = "idle" /\ pc' = "shift"
        /\ UNCHANGED <<state, command, request, context, all_slots_are_idle, system_prompt, batch, text,
                       reused, parts, kv, system_tokens, system_need_update, displaced, stray>>
    BY <1>3
  <2>2. TypeInv' /\ SlotInv'
    BY <2>1 DEF IInv, TypeInv, TypeOK, SlotInv
  <2>3. LengthInv' /\ TextInv'
    BY <2>1 DEF IInv, LengthInv, TextInv, Waiting
  <2>4. CellsInv'
    BY <2>1, SameCellsStep DEF Waiting
  <2> QED
    BY <2>2, <2>3, <2>4 DEF IInv
<1> QED
  BY <1>1, <1>2, <1>3

-------------------------------------------------------------------------------
(* The context shift *)

(* A slot that shifts has something to discard, between the tokens it      *)
(* keeps and the last ones.                                                *)
LEMMA ShiftFacts ==
  ASSUME TypeInv, LengthInv, pc = "shift", ShiftDue
  PROVE  /\ state = "PROCESSING" /\ n_keep \in Nat /\ NDiscard \in Nat
         /\ NDiscard >= 1 /\ n_keep + 1 + NDiscard <= n_past
         /\ Len(cache_tokens) = NCtx /\ Len(cache_tokens) <= n_past + 1 /\ Len(text) = n_past
<1>1. NCtx \in Nat /\ NCtx >= 5
  BY SizesAssumption
<1>2. Len(cache_tokens) \in Nat /\ n_past \in Nat
  BY DEF TypeInv, TypeOK
<1>3. state = "PROCESSING"
  BY <1>1, <1>2 DEF ShiftDue, Processing, LengthInv
<1>4. n_keep \in 0 .. NCtx - 4
  BY <1>3 DEF TypeInv, TypeOK
<1>5. Len(cache_tokens) = NCtx /\ Len(cache_tokens) <= n_past + 1 /\ Len(text) = n_past
  BY <1>1, <1>2, <1>3 DEF ShiftDue, LengthInv, Waiting
<1>6. PICK x \in Nat : x = NLeft /\ x >= 2 /\ n_past = n_keep + 1 + x
  BY <1>1, <1>2, <1>4, <1>5 DEF NLeft
<1>7. NDiscard = x \div 2
  BY <1>6 DEF NDiscard, Half
<1>8. x \div 2 \in Nat /\ (x \div 2) * 2 <= x /\ x < (x \div 2) * 2 + 2
  BY Div
<1> QED
  BY <1>1, <1>3, <1>4, <1>5, <1>6, <1>7, <1>8

LEMMA ContextShiftStep ==
  ASSUME IInv, ContextShift
  PROVE  IInv'
<1> DEFINE T == Tokens \cup {Part}
<1>1. /\ state = "PROCESSING" /\ n_keep \in Nat /\ NDiscard \in Nat
      /\ NDiscard >= 1 /\ n_keep + 1 + NDiscard <= n_past
      /\ Len(cache_tokens) = NCtx /\ Len(cache_tokens) <= n_past + 1 /\ Len(text) = n_past
  BY ShiftFacts DEF IInv, ContextShift
<1>2. /\ kv' = SeqShift(SeqRm(kv, n_keep + 1, n_keep + NDiscard + 1),
                        n_keep + 1 + NDiscard, n_past, -NDiscard)
      /\ cache_tokens' = Discard(cache_tokens) /\ text' = Discard(text)
      /\ n_past' = n_past - NDiscard
      /\ displaced' = (displaced \/ (NSystem > 0 /\ NDiscard > 0))
      /\ pc = "shift" /\ pc' = "batch"
      /\ UNCHANGED <<state, command, prompt, cache_prompt, n_keep, sampled, multibyte_pending,
                     all_slots_are_idle, system_need_update, system_prompt, system_tokens, batch, reused, parts,
                     stray>>
  BY DEF ContextShift, Goto, request, server
<1>3. /\ n_past \in Nat /\ NCtx \in Nat /\ cache_tokens \in Seq(T) /\ text \in Seq(T) /\ kv \in Seq(Cell)
      /\ NSystem \in Nat
  BY SystemBound, SizesAssumption DEF IInv, TypeInv, TypeOK
<1>4. /\ cache_tokens' \in Seq(T)
      /\ NDiscard <= NCtx => Len(cache_tokens') = NCtx - NDiscard
      /\ NDiscard > NCtx => Len(cache_tokens') = 0
      /\ \A i \in 1 .. NCtx - NDiscard :
           cache_tokens'[i] = IF i <= n_keep + 1 THEN cache_tokens[i] ELSE cache_tokens[i + NDiscard]
  <2>1. /\ Discard(cache_tokens) \in Seq(T)
        /\ NDiscard <= Len(cache_tokens) => Len(Discard(cache_tokens)) = Len(cache_tokens) - NDiscard
        /\ NDiscard > Len(cache_tokens) => Len(Discard(cache_tokens)) = 0
        /\ \A i \in 1 .. Len(cache_tokens) - NDiscard :
             Discard(cache_tokens)[i] = IF i <= n_keep + 1 THEN cache_tokens[i] ELSE cache_tokens[i + NDiscard]
    BY <1>1, <1>3, Discarded
  <2> QED
    BY <1>1, <1>2, <2>1
<1>5. /\ text' \in Seq(T)
      /\ Len(text') = n_past - NDiscard
      /\ \A i \in 1 .. n_past - NDiscard :
           text'[i] = IF i <= n_keep + 1 THEN text[i] ELSE text[i + NDiscard]
  <2>1. /\ Discard(text) \in Seq(T)
        /\ NDiscard <= Len(text) => Len(Discard(text)) = Len(text) - NDiscard
        /\ \A i \in 1 .. Len(text) - NDiscard :
             Discard(text)[i] = IF i <= n_keep + 1 THEN text[i] ELSE text[i + NDiscard]
    BY <1>1, <1>3, Discarded
  <2> QED
    BY <1>1, <1>2, <1>3, <2>1
<1>6. /\ SeqRm(kv, n_keep + 1, n_keep + NDiscard + 1) \in Seq(Cell)
      /\ kv' \in Seq(Cell)
  <2>1. kv \in Seq(RawCell)
    BY <1>3, RawCells
  <2>3. SeqRm(kv, n_keep + 1, n_keep + NDiscard + 1) \in Seq(Cell)
    BY <2>1, SeqRmType
  <2>4. n_keep + 1 + NDiscard \in Int /\ n_past \in Int /\ -NDiscard \in Int
    BY <1>1, <1>3
  <2> QED
    BY <1>2, <2>3, <2>4, Shifted
<1>m. ~Spoilt' => ~Spoilt /\ NSystem = 0 /\ NSystem' = 0
  <2>1. displaced \/ (NSystem > 0 /\ NDiscard > 0) => displaced'
    BY <1>2, Zenon
  <2>2. NDiscard > 0 /\ (NSystem > 0 \/ NSystem = 0)
    BY <1>1, <1>3
  <2>3. NSystem' = NSystem
    BY <1>2 DEF NSystem
  <2>4. ~displaced' => ~displaced /\ NSystem = 0 /\ NSystem' = 0
    BY <2>1, <2>2, <2>3, Zenon
  <2> QED
    BY <2>4 DEF Spoilt
<1>7. TypeInv'
  <2>1. n_past' \in Nat
    BY <1>1, <1>2, <1>3
  <2>2. TypeOK'
    BY <1>2, <1>4, <2>1 DEF IInv, TypeInv, TypeOK
  <2> QED
    BY <1>2, <1>5, <1>6, <2>2 DEF IInv, TypeInv
<1>8. SlotInv'
  <2>1. displaced' => displaced \/ NSystem > 0
    BY <1>2, Zenon
  <2>2. NSystem > 0 => system_tokens > 0
    BY SystemBound DEF IInv, TypeInv
  <2>3. displaced' => system_tokens > 0
    BY <2>1, <2>2 DEF IInv, SlotInv
  <2> QED
    BY <1>2, <2>3 DEF IInv, SlotInv
<1>9. LengthInv'
  <2>1. Len(cache_tokens') < NCtx /\ Len(cache_tokens') <= n_past' + 1 /\ Len(text') = n_past'
    <3>1. Len(text') = n_past' /\ n_past' = n_past - NDiscard
      BY <1>2, <1>5
    <3>2. CASE NDiscard <= NCtx
      <4>1. Len(cache_tokens') = NCtx - NDiscard
        BY <1>4, <3>2
      <4> QED
        BY <1>1, <1>3, <3>1, <4>1
    <3>3. CASE NDiscard > NCtx
      <4>1. Len(cache_tokens') = 0
        BY <1>4, <3>3
      <4> QED
        BY <1>1, <1>3, <3>1, <4>1, SizesAssumption
    <3> QED
      BY <1>1, <1>3, <3>2, <3>3
  <2>2. sampled' # NoToken
    BY <1>1, <1>2 DEF IInv, LengthInv, Waiting
  <2>3. Len(cache_tokens') <= NCtx /\ state' # "IDLE" /\ pc' \notin {"decode", "sample"}
    BY <1>1, <1>2, <1>3, <1>4, <2>1
  <2> QED
    BY <2>1, <2>2, <2>3 DEF LengthInv
<1>10. TextInv'
  <2> SUFFICES ASSUME ~parts PROVE cache_tokens' = Append(text', sampled)
    BY <1>2 DEF TextInv
  <2>1. cache_tokens = Append(text, sampled)
    BY <1>1, <1>2 DEF IInv, TextInv, Waiting
  <2>2. sampled \in T
    BY <1>1, <1>2 DEF IInv, LengthInv, Waiting, TypeInv, TypeOK
  <2>3. /\ NCtx = n_past + 1 /\ cache_tokens[n_past + 1] = sampled
        /\ \A i \in 1 .. n_past : cache_tokens[i] = text[i]
    BY <1>1, <1>3, <2>1
  <2>4. PICK m \in Nat, a \in Seq(T), t \in Seq(T), b \in Seq(T) :
          m = n_past - NDiscard /\ a = cache_tokens' /\ t = text' /\ b = Append(t, sampled)
    <3>1. n_past - NDiscard \in Nat
      BY <1>1, <1>3
    <3>2. Append(text', sampled) \in Seq(T)
      BY <1>5, <2>2
    <3> QED
      BY <1>4, <1>5, <3>1, <3>2
  <2>5. Len(a) = m + 1 /\ Len(t) = m /\ Len(b) = m + 1
    <3>1. Len(a) = m + 1
      BY <1>1, <1>3, <1>4, <2>3, <2>4
    <3>2. Len(t) = m
      BY <1>5, <2>4
    <3> QED
      BY <2>2, <2>4, <3>1, <3>2
  <2>6. b[m + 1] = sampled /\ \A i \in 1 .. m : b[i] = text'[i]
    BY <2>4, <2>5
  <2>7. ASSUME NEW i \in 1 .. m + 1 PROVE a[i] = b[i]
    <3>1. a[i] = IF i <= n_keep + 1 THEN cache_tokens[i] ELSE cache_tokens[i + NDiscard]
      BY <1>1, <1>3, <1>4, <2>3, <2>4
    <3>2. CASE i \in 1 .. m /\ i <= n_keep + 1
      <4>1. text'[i] = text[i] /\ cache_tokens[i] = text[i]
        BY <1>1, <1>3, <1>5, <2>3, <2>4, <3>2
      <4> QED
        BY <2>6, <3>1, <3>2, <4>1
    <3>3. CASE i \in 1 .. m /\ ~(i <= n_keep + 1)
      <4>1. PICK j \in 1 .. n_past : j = i + NDiscard
        BY <1>1, <1>3, <2>4, <3>3
      <4>2. text'[i] = text[j] /\ cache_tokens[j] = text[j]
        BY <1>1, <1>3, <1>5, <2>3, <2>4, <3>3, <4>1
      <4> QED
        BY <2>6, <3>1, <3>3, <4>1, <4>2
    <3>4. CASE i = m + 1
      <4>1. ~(i <= n_keep + 1) /\ i + NDiscard = n_past + 1
        BY <1>1, <1>3, <2>4, <3>4
      <4> QED
        BY <2>3, <2>6, <3>1, <3>4, <4>1
    <3>5. i \in 1 .. m \/ i = m + 1
      OBVIOUS
    <3> QED
      BY <3>2, <3>3, <3>4, <3>5, Zenon
  <2>8. a = b
    BY <2>5, <2>7, SeqsEqual
  <2> QED
    BY <2>4, <2>8
<1>11. SystemInv'
  <2> SUFFICES ASSUME ~Spoilt'
               PROVE  /\ Len(kv') >= NSystem'
                      /\ \A i \in 1 .. NSystem' : kv'[i] = SystemCell(i)'
                      /\ \A i \in NSystem' + 1 .. Len(kv') : kv'[i].pos >= NSystem'
    BY <1>2 DEF SystemInv
  <2>1. NSystem' = 0
    BY <1>m
  <2>2. ASSUME NEW i \in 1 .. Len(kv') PROVE kv'[i].pos >= 0
    <3>1. kv'[i] \in Cell
      BY <1>6
    <3> QED
      BY <3>1 DEF Cell
  <2> QED
    BY <1>6, <2>1, <2>2
<1>12. CacheInv'
  <2> SUFFICES ASSUME ~reused, ~Spoilt'
               PROVE  /\ Len(kv') = NSystem' + n_past'
                      /\ \A i \in 1 .. NSystem' + n_past' : kv'[i] = TextCell(i)'
    BY <1>2 DEF CacheInv
  <2>1. NSystem = 0 /\ NSystem' = 0 /\ ~Spoilt
    BY <1>m
  <2>2. Len(kv) = n_past /\ \A i \in 1 .. n_past : kv[i] = [pos |-> i - 1, tok |-> text[i]]
    <3>1. Len(kv) = n_past /\ \A i \in 1 .. n_past : kv[i] = TextCell(i)
      BY <1>1, <1>2, <1>3, <2>1 DEF IInv, CellsInv, CacheInv, Waiting
    <3>2. \A i \in 1 .. n_past : TextCell(i) = [pos |-> i - 1, tok |-> text[i]]
      BY <1>3, <2>1 DEF TextCell
    <3> QED
      BY <3>1, <3>2
  <2>3. PICK r : r = SeqRm(kv, n_keep + 1, n_keep + NDiscard + 1)
    OBVIOUS
  <2>4. /\ r \in Seq(Cell) /\ Len(r) = n_past - NDiscard
        /\ \A i \in 1 .. Len(r) : r[i] = IF i <= n_keep + 1 THEN kv[i] ELSE kv[i + NDiscard]
    <3>1. PICK k \in Nat, d \in Nat : k = n_keep + 1 /\ d = NDiscard
      BY <1>1
    <3>2. k + d <= Len(kv) /\ \A i \in 1 .. Len(kv) : kv[i].pos = i - 1
      BY <1>1, <1>3, <2>2, <3>1
    <3>3. LET q == SeqRm(kv, k, k + d) IN
          /\ q \in Seq(Cell) /\ Len(q) = Len(kv) - d
          /\ \A i \in 1 .. Len(q) : q[i] = IF i <= k THEN kv[i] ELSE kv[i + d]
      BY <1>3, <3>2, BlockRemoved
    <3>4. k + d = n_keep + NDiscard + 1
      BY <1>1, <3>1
    <3> QED
      BY <2>2, <2>3, <3>1, <3>3, <3>4
  <2>5. PICK m \in Nat, p0 \in Int, delta \in Int :
          m = n_past - NDiscard /\ p0 = n_keep + 1 + NDiscard /\ delta = -NDiscard
    BY <1>1, <1>3
  <2>6. ASSUME NEW i \in 1 .. m
        PROVE  Moved(r[i], p0, n_past, delta) = [pos |-> i - 1, tok |-> text'[i]]
    <3>1. CASE i <= n_keep + 1
      <4>1. r[i] = [pos |-> i - 1, tok |-> text[i]] /\ text'[i] = text[i]
        BY <1>1, <1>3, <1>5, <2>2, <2>4, <2>5, <3>1
      <4>2. i - 1 \notin p0 .. n_past - 1
        BY <1>1, <2>5, <3>1
      <4> QED
        BY <4>1, <4>2 DEF Moved
    <3>2. CASE ~(i <= n_keep + 1)
      <4>1. PICK j \in 1 .. n_past : j = i + NDiscard
        BY <1>1, <1>3, <2>5
      <4>2. r[i] = kv[j] /\ text'[i] = text[j]
        BY <1>1, <1>3, <1>5, <2>4, <2>5, <3>2, <4>1
      <4>3. r[i] = [pos |-> j - 1, tok |-> text'[i]]
        BY <2>2, <4>2
      <4>4. j - 1 \in p0 .. n_past - 1 /\ (j - 1) + delta = i - 1
        BY <1>1, <1>3, <2>5, <3>2, <4>1
      <4> QED
        BY <4>3, <4>4 DEF Moved
    <3> QED
      BY <3>1, <3>2
  <2>7. Len(r) = m
    BY <2>4, <2>5
  <2>8. \A i \in 1 .. Len(r) : Moved(r[i], p0, n_past, delta).pos >= 0
    BY <2>6, <2>7
  <2>9. kv' = SeqShift(r, p0, n_past, delta)
    BY <1>2, <2>3, <2>5
  <2>10. Len(kv') = m /\ \A i \in 1 .. m : kv'[i] = [pos |-> i - 1, tok |-> text'[i]]
    <3>1. n_past \in Int
      BY <1>3
    <3>2. LET q == SeqShift(r, p0, n_past, delta) IN
          /\ Len(q) = Len(r)
          /\ \A i \in 1 .. Len(r) : q[i] = Moved(r[i], p0, n_past, delta)
      BY <2>4, <2>8, <3>1, Shifted
    <3> QED
      BY <2>6, <2>7, <2>9, <3>2
  <2>11. \A i \in 1 .. m : TextCell(i)' = [pos |-> i - 1, tok |-> text'[i]]
    BY <2>1 DEF TextCell
  <2>12. NSystem' + n_past' = m
    BY <1>2, <2>1, <2>5
  <2> QED
    BY <2>10, <2>11, <2>12
<1>13. RowsInv'
  BY <1>2 DEF RowsInv
<1> QED
  BY <1>7, <1>8, <1>9, <1>10, <1>11, <1>12, <1>13 DEF IInv, CellsInv

-------------------------------------------------------------------------------
(* The batch *)

LEMMA GenerateStep ==
  ASSUME IInv, Generate
  PROVE  IInv'
<1> DEFINE T == Tokens \cup {Part}
           row == [pos |-> NSystem + n_past, tok |-> sampled]
<1>1. /\ state = "PROCESSING" /\ pc = "batch" /\ pc' = "decode" /\ batch' = <<row>>
      /\ text' = Append(text, sampled) /\ n_past' = n_past + 1
      /\ UNCHANGED <<state, command, prompt, cache_prompt, n_keep, cache_tokens, sampled, multibyte_pending,
                     all_slots_are_idle, system_need_update, system_prompt, system_tokens, kv, reused, parts,
                     displaced, stray>>
  BY DEF Generate, Goto, request, server
<1>2. /\ n_past \in Nat /\ NCtx \in Nat /\ cache_tokens \in Seq(T) /\ text \in Seq(T) /\ kv \in Seq(Cell)
      /\ NSystem \in Nat
  BY SystemBound, SizesAssumption DEF IInv, TypeInv, TypeOK
<1>3. sampled \in T /\ Len(text) = n_past /\ Len(cache_tokens) < NCtx /\ Len(cache_tokens) <= n_past + 1
  BY <1>1 DEF IInv, LengthInv, Waiting, TypeInv, TypeOK
<1>4. NSystem' = NSystem
  BY <1>1 DEF NSystem
<1>5. /\ text' \in Seq(T) /\ Len(text') = n_past + 1 /\ text'[n_past + 1] = sampled
      /\ \A i \in 1 .. n_past : text'[i] = text[i]
  BY <1>1, <1>2, <1>3
<1>6. batch' \in Seq(Cell) /\ Len(batch') = 1 /\ batch'[1] = row
  <2>1. row \in Cell
    BY <1>2, <1>3 DEF Cell, Tok
  <2> HIDE DEF row
  <2> QED
    BY <1>1, <2>1
<1>r. Rows' = batch' /\ batch' \in Seq(RawCell) /\ RowsInv'
  <2>1. batch' \in Seq(RawCell)
    BY <1>6, RawCells
  <2>2. CellsAt(batch', Nat) = batch'
    BY <1>6, AllCells
  <2> QED
    BY <2>1, <2>2 DEF Rows, RowsInv
<1>s. Spoilt' <=> Spoilt
  BY <1>1 DEF Spoilt, NSystem
<1>7. TypeInv'
  <2>1. n_past' \in Nat
    BY <1>1, <1>2
  <2>2. TypeOK'
    BY <1>1, <2>1 DEF IInv, TypeInv, TypeOK
  <2> QED
    BY <1>1, <1>5, <1>r, <2>2 DEF IInv, TypeInv
<1>8. SlotInv'
  BY <1>1 DEF IInv, SlotInv
<1>9. LengthInv'
  BY <1>1, <1>2, <1>3, <1>5 DEF LengthInv, Waiting
<1>10. TextInv'
  BY <1>1 DEF IInv, TextInv, Waiting
<1>11. SystemInv'
  <2>1. \A i \in 1 .. Len(batch') : batch'[i].pos >= NSystem'
    BY <1>2, <1>4, <1>6
  <2> QED
    BY <1>1, <1>4, <1>r, <1>s, <2>1 DEF IInv, CellsInv, SystemInv, SystemCell
<1>12. CacheInv'
  <2> SUFFICES ASSUME ~reused, ~Spoilt
               PROVE  /\ Len(kv) + Len(batch') = NSystem + n_past'
                      /\ \A i \in 1 .. Len(kv) : kv[i] = TextCell(i)'
                      /\ \A i \in 1 .. Len(batch') : batch'[i] = TextCell(Len(kv) + i)'
    BY <1>1, <1>4, <1>r, <1>s DEF CacheInv, TextCell, Waiting
  <2>1. Len(kv) = NSystem + n_past /\ \A i \in 1 .. NSystem + n_past : kv[i] = TextCell(i)
    BY <1>1 DEF IInv, CellsInv, CacheInv, Waiting
  <2>2. \A i \in 1 .. NSystem + n_past : TextCell(i)' = TextCell(i)
    <3>1. ASSUME NEW i \in 1 .. NSystem + n_past, ~(i <= NSystem) PROVE text'[i - NSystem] = text[i - NSystem]
      <4>1. i - NSystem \in 1 .. n_past
        BY <1>2, <3>1
      <4> QED
        BY <1>5, <4>1
    <3> QED
      BY <1>1, <1>4, <3>1 DEF TextCell
  <2>3. PICK j \in Nat : j = NSystem + n_past + 1
    BY <1>2
  <2>4. TextCell(j)' = row
    <3>1. ~(j <= NSystem) /\ j - NSystem = n_past + 1 /\ j - 1 = NSystem + n_past
      BY <1>2, <2>3
    <3> QED
      BY <1>1, <1>4, <1>5, <3>1 DEF TextCell
  <2>5. Len(kv) + 1 = j /\ Len(kv') + 1 = j
    BY <1>1, <2>1, <2>3, <1>2
  <2>6. batch'[1] = TextCell(Len(kv) + 1)'
    BY <1>6, <2>4, <2>5
  <2> QED
    BY <1>1, <1>2, <1>6, <2>1, <2>2, <2>6
<1> QED
  BY <1>7, <1>8, <1>9, <1>10, <1>11, <1>12, <1>r DEF IInv, CellsInv

(* A long prompt is cut by as many whole blocks as leave less than two     *)
(* blocks after what is kept.                                              *)
LEMMA TruncatedFits ==
  ASSUME prompt \in Prompts, n_keep \in Int
  PROVE  /\ Truncated \in Seq(Tokens) /\ Len(Truncated) \in 0 .. NCtx - 1
         /\ Len(Truncated) = 0 => prompt = <<>>
         /\ Keep \in 0 .. NCtx - 4
<1>1. NCtx \in Nat /\ NCtx >= 5
  BY SizesAssumption
<1>2. prompt \in Seq(Tokens) /\ Len(prompt) \in Nat
  BY PromptsAssumption
<1>3. Keep \in 0 .. NCtx - 4
  BY <1>1, <1>2 DEF Keep, Least
<1>4. CASE Len(prompt) < NCtx
  <2>1. Truncated = prompt
    BY <1>4 DEF Truncated
  <2>2. Len(prompt) = 0 => prompt = <<>>
    BY <1>2
  <2> QED
    BY <1>1, <1>2, <1>3, <1>4, <2>1, <2>2
<1>5. CASE ~(Len(prompt) < NCtx)
  <2> DEFINE L == Len(prompt)
             x == NCtx - Keep
             n == x \div 2
             y == L - Keep - n
             e == y \div n
             from == Keep + e * n
  <2>1. x \in Nat /\ x >= 4
    BY <1>1, <1>3
  <2>2. n \in Nat /\ n * 2 <= x /\ x < n * 2 + 2
    <3> HIDE DEF x
    <3> QED
      BY <2>1, Div
  <2>3. n \in Nat \ {0} /\ n >= 2
    <3> HIDE DEF x, n
    <3> QED
      BY <2>1, <2>2
  <2>4. y \in Nat /\ y = L - Keep - n
    <3> HIDE DEF n
    <3> QED
      BY <1>1, <1>2, <1>3, <1>5, <2>2
  <2>5. e \in Nat /\ e * n <= y /\ y < e * n + n
    <3> HIDE DEF y, n
    <3> QED
      BY <2>3, <2>4, Div
  <2>6. e * n \in Nat
    <3> HIDE DEF e, n
    <3> QED
      BY <2>3, <2>5
  <2>7. PICK b \in Nat : b = e * n
    BY <2>6
  <2>8. /\ from \in Nat /\ from <= L - n /\ from > L - n - n
        /\ from = Keep + b
    <3> HIDE DEF e, n, y
    <3> QED
      BY <1>2, <1>3, <2>3, <2>4, <2>5, <2>7
  <2>9. Truncated = SubSeq(prompt, 1, Keep) \o SubSeq(prompt, from + 1, L)
    BY <1>5 DEF Truncated
  <2> HIDE DEF e, y, from
  <2>10. /\ SubSeq(prompt, 1, Keep) \in Seq(Tokens) /\ Len(SubSeq(prompt, 1, Keep)) = Keep
         /\ SubSeq(prompt, from + 1, L) \in Seq(Tokens) /\ Len(SubSeq(prompt, from + 1, L)) = L - from
    <3>1. n \in Nat
      BY <2>3
    <3> HIDE DEF n, x
    <3>2. Keep \in Nat /\ Keep <= L
      BY <1>1, <1>2, <1>3, <1>5
    <3>3. from \in Nat /\ from <= L
      BY <1>2, <2>8, <3>1
    <3> QED
      BY <1>2, <3>2, <3>3
  <2>11. Truncated \in Seq(Tokens) /\ Len(Truncated) = Keep + (L - from)
    BY <2>9, <2>10
  <2>12. Keep + (L - from) \in 1 .. NCtx - 1
    <3> HIDE DEF n, x
    <3>1. x = NCtx - Keep
      BY DEF x
    <3>2. L \in Nat /\ from \in Nat /\ Keep \in Nat /\ NCtx \in Nat
      BY <1>1, <1>2, <1>3, <2>8
    <3>3. L - from >= n /\ L - from < n + n /\ n + n <= x
      BY <2>2, <2>3, <2>8, <3>2
    <3> QED
      BY <2>3, <3>1, <3>2, <3>3
  <2> QED
    BY <1>3, <2>11, <2>12
<1> QED
  BY <1>4, <1>5

LEMMA LoadPromptStep ==
  ASSUME IInv, LoadPrompt
  PROVE  IInv'
<1> DEFINE T == Tokens \cup {Part}
           p == Truncated
           common == IF cache_prompt THEN CommonPart(cache_tokens, p) ELSE 0
           from == IF common = Len(p) THEN common - 1 ELSE common
           row(i) == [pos |-> NSystem + from + i - 1, tok |-> TokenAt(p, from + i)]
<1>1. /\ pc = "batch" /\ pc' = "decode" /\ state = "IDLE" /\ command = "LOAD_PROMPT"
      /\ state' = "PROCESSING" /\ command' = "NONE" /\ n_keep' = Keep
      /\ kv' = CellsAt(kv, 0 .. NSystem + common - 1)
      /\ cache_tokens' = p /\ n_past' = Len(p) /\ text' = p
      /\ batch' = [i \in 1 .. Len(p) - from |-> row(i)]
      /\ UNCHANGED <<prompt, cache_prompt, sampled, multibyte_pending, all_slots_are_idle, system_need_update,
                     system_prompt, system_tokens, displaced>>
  BY DEF LoadPrompt, Goto, server
<1>2. ~reused' => ~(common > 0)
  BY Zenon DEF LoadPrompt
<1>3. /\ NCtx \in Nat /\ cache_tokens \in Seq(T) /\ kv \in Seq(Cell) /\ n_keep \in Int /\ NSystem \in Nat
      /\ prompt \in Prompts /\ ~all_slots_are_idle
  BY <1>1, SystemBound, SizesAssumption DEF IInv, TypeInv, TypeOK, SlotInv
<1>4. p \in Seq(Tokens) /\ Len(p) \in 0 .. NCtx - 1 /\ Keep \in 0 .. NCtx - 4
  BY <1>3, TruncatedFits
<1>e. stray' \in BOOLEAN /\ (~stray' => ~stray /\ p # <<>>)
  BY Zenon DEF LoadPrompt
<1> HIDE DEF p
<1>5. p \in Seq(T)
  BY <1>4
<1>6. common \in 0 .. Len(p)
  <2>1. CommonPart(cache_tokens, p) \in 0 .. Len(p)
    BY <1>3, <1>5, CommonBound
  <2> QED
    BY <1>4, <2>1
<1> HIDE DEF common
<1>7. /\ from \in Int /\ from <= Len(p) - 1
      /\ Len(p) > 0 => from >= 0 /\ (common = 0 => from = 0)
      /\ Len(p) = 0 => from = -1
  BY <1>4, <1>6
<1> HIDE DEF from
<1>8. /\ batch' \in Seq(RawCell) /\ Len(batch') = Len(p) - from
      /\ \A i \in 1 .. Len(p) - from : batch'[i] = row(i)
      /\ Len(p) > 0 \/ NSystem > 0 => batch' \in Seq(Cell)
  <2>1. PICK m \in Nat : m = Len(p) - from
    BY <1>4, <1>7
  <2>2. ASSUME NEW i \in 1 .. m PROVE row(i) \in RawCell /\ (Len(p) > 0 \/ NSystem > 0 => row(i) \in Cell)
    <3>1. PICK k \in Int : k = from + i /\ k >= 0 /\ (Len(p) > 0 => k >= 1)
      BY <1>4, <1>7
    <3>2. TokenAt(p, k) \in Tok
      <4>1. CASE k \in DOMAIN p
        <5>1. p[k] \in Tokens
          BY <1>4, <4>1
        <5> QED
          BY <4>1, <5>1 DEF TokenAt, Tok
      <4>2. CASE k \notin DOMAIN p
        BY <4>2 DEF TokenAt, Tok
      <4> QED
        BY <4>1, <4>2
    <3>3. PICK pos \in Int : pos = NSystem + from + i - 1 /\ (Len(p) > 0 \/ NSystem > 0 => pos >= 0)
      BY <1>3, <1>4, <3>1, <1>7
    <3>4. row(i) = [pos |-> pos, tok |-> TokenAt(p, k)]
      BY <3>1, <3>3
    <3> HIDE DEF row
    <3> QED
      BY <3>2, <3>3, <3>4 DEF Cell, RawCell
  <2> HIDE DEF row
  <2> QED
    BY <1>1, <2>1, <2>2
<1>r. /\ Len(p) > 0 => Rows' = batch'
      /\ Len(p) = 0 /\ NSystem = 0 => Rows' = <<>>
      /\ RowsInv'
  <2>1. CASE Len(p) > 0 \/ NSystem > 0
    <3>1. CellsAt(batch', Nat) = batch'
      BY <1>8, <2>1, AllCells
    <3>2. Rows' = batch'
      BY <3>1 DEF Rows
    <3> QED
      BY <1>3, <2>1, <3>2 DEF RowsInv
  <2>2. CASE Len(p) = 0 /\ NSystem = 0
    <3>1. PICK c : c = row(1)
      OBVIOUS
    <3>2. c.pos = -1
      BY <1>7, <2>2, <3>1
    <3> HIDE DEF row
    <3>3. Len(p) - from = 1 /\ n_past' = 0
      <4>1. n_past' = Len(p) /\ Len(p) = 0
        BY <1>1, <2>2
      <4>2. from = -1
        BY <1>7, <2>2
      <4> QED
        BY <4>1, <4>2
    <3>4. batch' \in Seq(RawCell) /\ Len(batch') = 1 /\ batch'[1] = c
      <4>1. 1 \in 1 .. Len(p) - from
        BY <3>3
      <4> QED
        BY <1>8, <3>1, <3>3, <4>1
    <3>5. PICK w \in Seq(RawCell) : w = batch' /\ Len(w) = 1 /\ w[1] = c
      BY <3>4
    <3>6. c \in RawCell
      BY <3>5
    <3>7. batch' = <<c>>
      <4>1. <<c>> \in Seq(RawCell) /\ Len(<<c>>) = 1 /\ <<c>>[1] = c
        BY <3>6
      <4>2. \A i \in 1 .. Len(w) : w[i] = <<c>>[i]
        BY <3>5
      <4> QED
        BY <3>5, <4>1, <4>2, SeqsEqual
    <3>8. CellsAt(<<c>>, Nat) = <<>>
      BY <3>2, <3>6, NoCells
    <3>9. Rows' = <<>>
      BY <3>7, <3>8 DEF Rows
    <3>10. RowsInv'
      BY <3>3, <3>4 DEF RowsInv
    <3> QED
      BY <2>2, <3>9, <3>10
  <2> QED
    BY <1>3, <1>4, <2>1, <2>2
<1>9. NSystem' = NSystem
  BY <1>1 DEF NSystem
<1>s. ~Spoilt' => ~Spoilt /\ (Len(p) > 0 \/ NSystem = 0)
  <2>1. Len(p) = 0 => p = <<>>
    BY <1>4
  <2> QED
    BY <1>1, <1>3, <1>4, <1>9, <1>e, <2>1 DEF Spoilt
<1>10. TypeInv'
  <2>1. kv' \in Seq(Cell)
    <3>1. 0 .. NSystem + common - 1 \in SUBSET Nat
      BY <1>3, <1>6
    <3>2. kv \in Seq(RawCell)
      BY <1>3, RawCells
    <3> QED
      BY <1>1, <3>1, <3>2, CellsAtType
  <2>2. n_past' \in Nat /\ n_keep' \in Int /\ n_keep' \in 0 .. NCtx - 4
    BY <1>1, <1>3, <1>4
  <2>3. TypeOK'
    BY <1>1, <1>5, <2>2 DEF IInv, TypeInv, TypeOK
  <2> QED
    BY <1>1, <1>5, <1>8, <2>1, <2>3 DEF IInv, TypeInv
<1>11. SlotInv'
  BY <1>1, <1>3, <1>e DEF IInv, SlotInv
<1>12. LengthInv'
  BY <1>1, <1>3, <1>4 DEF LengthInv, Waiting
<1>13. TextInv'
  BY <1>1 DEF TextInv, Waiting
<1>14. ASSUME ~Spoilt
       PROVE  /\ Len(kv') >= NSystem
              /\ \A i \in 1 .. NSystem : kv'[i] = SystemCell(i)
              /\ \A i \in NSystem + 1 .. Len(kv') : kv'[i].pos >= NSystem
              /\ common = 0 => Len(kv') = NSystem
  <2>1. /\ Len(kv) >= NSystem
        /\ \A i \in 1 .. NSystem : kv[i] = SystemCell(i)
        /\ \A i \in NSystem + 1 .. Len(kv) : kv[i].pos >= NSystem
    BY <1>14 DEF IInv, CellsInv, SystemInv
  <2>2. NSystem \in 0 .. Len(kv) /\ common \in Nat
    BY <1>3, <1>6, <2>1
  <2>3. \A i \in 1 .. NSystem : kv[i].pos < NSystem
    <3>1. \A i \in 1 .. NSystem : SystemCell(i).pos = i - 1
      BY DEF SystemCell
    <3> QED
      BY <1>3, <2>1, <3>1
  <2>4. PICK n \in 0 .. Len(kv), c \in Nat : n = NSystem /\ c = common
    BY <2>2
  <2>5. LET r == CellsAt(kv, 0 .. n + c - 1) IN
        /\ r \in Seq(Cell) /\ Len(r) >= n
        /\ \A i \in 1 .. n : r[i] = kv[i]
        /\ \A i \in n + 1 .. Len(r) : r[i].pos >= n
        /\ c = 0 => Len(r) = n
    <3>1. (\A i \in 1 .. n : kv[i].pos < n) /\ \A i \in n + 1 .. Len(kv) : kv[i].pos >= n
      BY <2>1, <2>3, <2>4
    <3> QED
      BY <1>3, <3>1, PrefixKept
  <2> QED
    BY <1>1, <2>1, <2>4, <2>5
<1>15. SystemInv'
  <2> SUFFICES ASSUME ~Spoilt'
               PROVE  /\ Len(kv') >= NSystem
                      /\ \A i \in 1 .. NSystem : kv'[i] = SystemCell(i)
                      /\ \A i \in NSystem + 1 .. Len(kv') : kv'[i].pos >= NSystem
                      /\ \A i \in 1 .. Len(Rows') : Rows'[i].pos >= NSystem
    BY <1>1, <1>9 DEF SystemInv, SystemCell
  <2>1. ASSUME NEW i \in 1 .. Len(Rows') PROVE Rows'[i].pos >= NSystem
    <3>1. Len(p) > 0 /\ Rows' = batch'
      <4>1. Len(p) = 0 => Len(Rows') = 0
        BY <1>4, <1>r, <1>s
      <4> QED
        BY <1>4, <1>r, <4>1
    <3>2. batch'[i] = row(i) /\ i \in Nat /\ i >= 1
      BY <1>4, <1>7, <1>8, <3>1
    <3>3. row(i).pos = NSystem + from + i - 1
      OBVIOUS
    <3> HIDE DEF row
    <3> QED
      BY <1>3, <1>4, <1>7, <3>1, <3>2, <3>3
  <2> QED
    BY <1>14, <1>s, <2>1
<1>16. CacheInv'
  <2> SUFFICES ASSUME ~reused', ~Spoilt'
               PROVE  /\ Len(kv') + Len(Rows') = NSystem + n_past'
                      /\ \A i \in 1 .. Len(kv') : kv'[i] = TextCell(i)'
                      /\ \A i \in 1 .. Len(Rows') : Rows'[i] = TextCell(Len(kv) + i)'
    BY <1>1, <1>9 DEF CacheInv, Waiting, TextCell
  <2>1. common = 0
    BY <1>2, <1>6
  <2>2. Len(kv') = NSystem /\ \A i \in 1 .. NSystem : kv'[i] = SystemCell(i)
    BY <1>14, <1>s, <2>1
  <2>3. \A i \in 1 .. NSystem : TextCell(i)' = SystemCell(i)
    BY <1>1, <1>3, <1>9 DEF TextCell, SystemCell
  <2>4. CASE Len(p) = 0
    <3>1. NSystem = 0 /\ Rows' = <<>> /\ Len(Rows') = 0
      BY <1>r, <1>s, <2>4
    <3> QED
      BY <1>1, <2>2, <2>4, <3>1
  <2>5. CASE Len(p) > 0
    <3>0. from = 0 /\ Rows' = batch'
      BY <1>7, <1>r, <2>1, <2>5
    <3>1. Len(batch') = Len(p)
      BY <1>4, <1>8, <3>0
    <3>2. ASSUME NEW i \in 1 .. Len(p) PROVE batch'[i] = [pos |-> NSystem + i - 1, tok |-> p[i]]
      <4>1. batch'[i] = row(i)
        BY <1>4, <1>8, <3>0
      <4>2. from + i = i /\ NSystem + from + i - 1 = NSystem + i - 1 /\ i \in DOMAIN p
        BY <1>3, <1>4, <3>0
      <4>3. TokenAt(p, i) = p[i]
        BY <4>2 DEF TokenAt
      <4> QED
        BY <4>1, <4>2, <4>3
    <3>3. ASSUME NEW i \in 1 .. Len(p) PROVE TextCell(NSystem + i)' = [pos |-> NSystem + i - 1, tok |-> p[i]]
      <4>1. ~(NSystem + i <= NSystem) /\ NSystem + i - NSystem = i
        BY <1>3
      <4> QED
        BY <1>1, <1>3, <1>4, <1>9, <4>1 DEF TextCell
    <3>4. Len(kv') + Len(batch') = NSystem + n_past'
      BY <1>1, <1>3, <1>4, <2>2, <3>1
    <3>5. ASSUME NEW i \in 1 .. Len(batch') PROVE batch'[i] = TextCell(Len(kv) + i)'
      <4>1. PICK j : j = NSystem + i
        OBVIOUS
      <4>2. TextCell(j)' = TextCell(NSystem + i)' /\ Len(kv') + i = j
        BY <1>9, <2>2, <4>1
      <4> QED
        BY <3>1, <3>2, <3>3, <4>2
    <3> QED
      BY <2>2, <2>3, <3>0, <3>4, <3>5
  <2> QED
    BY <1>4, <2>4, <2>5
<1> QED
  BY <1>10, <1>11, <1>12, <1>13, <1>15, <1>16, <1>r DEF IInv, CellsInv

LEMMA DecodeStep ==
  ASSUME IInv, Decode
  PROVE  IInv'
<1>1. /\ pc = "decode" /\ pc' = "sample" /\ kv' = kv \o Rows /\ state = "PROCESSING"
      /\ UNCHANGED <<state, command, prompt, cache_prompt, n_keep, n_past, cache_tokens, sampled,
                     multibyte_pending, all_slots_are_idle, system_need_update, system_prompt, system_tokens,
                     batch, text, reused, parts, displaced, stray>>
  BY DEF Decode, Rows, Goto, request, context, server, ghosts, IInv, SlotInv
<1>2. kv \in Seq(Cell) /\ Rows \in Seq(Cell) /\ NSystem \in Nat /\ n_past \in Nat /\ NSystem' = NSystem
  <2>1. batch \in Seq(RawCell) /\ Nat \in SUBSET Nat
    BY DEF IInv, TypeInv
  <2>2. Rows \in Seq(Cell)
    BY <2>1, CellsAtType DEF Rows
  <2> QED
    BY <1>1, <2>2, SystemBound DEF IInv, TypeInv, TypeOK, NSystem
<1>s. (Spoilt' <=> Spoilt) /\ RowsInv'
  BY <1>1 DEF Spoilt, NSystem, RowsInv
<1>3. PICK a, b, r : a \in Seq(Cell) /\ b \in Seq(Cell) /\ a = kv /\ b = Rows /\ r = a \o b
  BY <1>2
<1>4. /\ r \in Seq(Cell) /\ Len(r) = Len(a) + Len(b)
      /\ \A i \in 1 .. Len(a) : r[i] = a[i]
      /\ \A i \in Len(a) + 1 .. Len(r) : i - Len(a) \in 1 .. Len(b) /\ r[i] = b[i - Len(a)]
  BY <1>3
<1>5. kv' = r
  BY <1>1, <1>3
<1>6. TypeInv' /\ SlotInv'
  <2>1. TypeOK'
    BY <1>1 DEF IInv, TypeInv, TypeOK
  <2>2. TypeInv'
    BY <1>1, <1>4, <1>5, <2>1 DEF IInv, TypeInv
  <2>3. SlotInv'
    BY <1>1 DEF IInv, SlotInv
  <2> QED
    BY <2>2, <2>3
<1>7. LengthInv' /\ TextInv'
  BY <1>1 DEF IInv, LengthInv, TextInv, Waiting
<1>8. SystemInv'
  <2> SUFFICES ASSUME ~Spoilt
               PROVE  /\ Len(r) >= NSystem
                      /\ \A i \in 1 .. NSystem : r[i] = SystemCell(i)
                      /\ \A i \in NSystem + 1 .. Len(r) : r[i].pos >= NSystem
    BY <1>1, <1>2, <1>5, <1>s DEF SystemInv, SystemCell
  <2>1. /\ Len(a) >= NSystem
        /\ \A i \in 1 .. NSystem : a[i] = SystemCell(i)
        /\ \A i \in NSystem + 1 .. Len(a) : a[i].pos >= NSystem
        /\ \A i \in 1 .. Len(b) : b[i].pos >= NSystem
    BY <1>1, <1>3 DEF IInv, CellsInv, SystemInv
  <2>2. Len(a) \in Nat /\ Len(b) \in Nat
    OBVIOUS
  <2>3. ASSUME NEW i \in NSystem + 1 .. Len(r) PROVE r[i].pos >= NSystem
    <3>1. CASE i \in NSystem + 1 .. Len(a)
      <4>1. i \in 1 .. Len(a) /\ a[i].pos >= NSystem
        BY <1>2, <2>1, <3>1
      <4>2. r[i] = a[i]
        BY <1>4, <4>1
      <4> QED
        BY <4>1, <4>2
    <3>2. CASE i \in Len(a) + 1 .. Len(r)
      BY <1>4, <2>1, <3>2
    <3> QED
      BY <1>2, <1>4, <2>2, <3>1, <3>2
  <2>4. Len(r) >= NSystem /\ \A i \in 1 .. NSystem : r[i] = SystemCell(i)
    <3>1. Len(r) >= NSystem /\ \A i \in 1 .. NSystem : i \in 1 .. Len(a)
      BY <1>2, <1>4, <2>1, <2>2
    <3> QED
      BY <1>4, <2>1, <3>1
  <2> QED
    BY <2>3, <2>4
<1>9. CacheInv'
  <2> SUFFICES ASSUME ~reused, ~Spoilt
               PROVE  /\ Len(r) = NSystem + n_past
                      /\ \A i \in 1 .. NSystem + n_past : r[i] = TextCell(i)
    BY <1>1, <1>2, <1>5, <1>s DEF CacheInv, TextCell
  <2>1. /\ Len(a) + Len(b) = NSystem + n_past
        /\ \A i \in 1 .. Len(a) : a[i] = TextCell(i)
        /\ \A i \in 1 .. Len(b) : b[i] = TextCell(Len(a) + i)
    BY <1>1, <1>3 DEF IInv, CellsInv, CacheInv
  <2>2. Len(a) \in Nat /\ Len(b) \in Nat
    OBVIOUS
  <2>3. ASSUME NEW i \in 1 .. NSystem + n_past PROVE r[i] = TextCell(i)
    <3>1. CASE i \in 1 .. Len(a)
      BY <1>4, <2>1, <3>1
    <3>2. CASE i \in Len(a) + 1 .. Len(r)
      <4>1. PICK j \in 1 .. Len(b) : j = i - Len(a) /\ r[i] = b[j]
        BY <1>4, <3>2
      <4>2. Len(a) + j = i
        BY <2>2, <4>1
      <4> QED
        BY <2>1, <4>1, <4>2
    <3> QED
      BY <1>4, <2>1, <2>2, <3>1, <3>2
  <2> QED
    BY <1>4, <2>1, <2>3
<1> QED
  BY <1>6, <1>7, <1>8, <1>9, <1>s DEF IInv, CellsInv

(* The server has stopped. *)
LEMMA StoppedStep ==
  ASSUME IInv, DecodeFails \/ ReadBeforePrompt
  PROVE  IInv'
<1> USE DEF DecodeFails, ReadBeforePrompt, Goto, request, context, server, ghosts
<1>1. TypeInv' /\ SlotInv'
  BY DEF IInv, TypeInv, TypeOK, SlotInv
<1>2. LengthInv' /\ TextInv'
  BY DEF IInv, LengthInv, TextInv, Waiting
<1>3. SystemInv'
  BY DEF IInv, CellsInv, SystemInv, SystemCell, NSystem, Spoilt
<1>4. CacheInv' /\ RowsInv'
  BY DEF CacheInv, RowsInv, Waiting
<1> QED
  BY <1>1, <1>2, <1>3, <1>4 DEF IInv, CellsInv

LEMMA SampleStep ==
  ASSUME IInv, NEW tok \in Answers \cup {Part}, NEW more \in BOOLEAN, Sample(tok, more)
  PROVE  IInv'
<1> DEFINE T == Tokens \cup {Part}
<1>1. /\ pc = "sample" /\ pc' = "tasks" /\ state = "PROCESSING" /\ sampled' = tok
      /\ UNCHANGED <<state, prompt, cache_prompt, n_keep, n_past, all_slots_are_idle, system_need_update,
                     system_prompt, system_tokens, batch, kv, text, reused, displaced, stray>>
      /\ command' = command \/ command' = "RELEASE"
  BY DEF Sample, Goto, request, server, IInv, SlotInv
<1>2. tok \in T /\ tok # NoToken
  BY TokensAssumption DEF Part, NoToken
<1>3. cache_tokens' = cache_tokens \/ cache_tokens' = Append(cache_tokens, tok)
  BY DEF Sample
<1>4. multibyte_pending' \in BOOLEAN
  BY Zenon DEF Sample
<1>5. ~parts' => ~parts /\ tok # Part
  BY Zenon DEF Sample
<1>6. ~parts' => cache_tokens' = Append(cache_tokens, tok)
  <2>1. tok # Part => ~multibyte_pending'
    BY Zenon DEF Sample
  <2>2. ~multibyte_pending' => cache_tokens' = Append(cache_tokens, tok)
    BY Zenon DEF Sample
  <2> QED
    BY <1>5, <2>1, <2>2
<1>7. cache_tokens \in Seq(T) /\ n_past \in Nat /\ NCtx \in Nat /\ Len(cache_tokens) < NCtx
      /\ Len(cache_tokens) <= n_past /\ n_past = Len(text)
  BY <1>1, SizesAssumption DEF IInv, TypeInv, TypeOK, LengthInv
<1>8. cache_tokens' \in Seq(T) /\ Len(cache_tokens') <= NCtx /\ Len(cache_tokens') <= n_past + 1
  BY <1>2, <1>3, <1>7
<1>9. TypeInv'
  <2>1. TypeOK'
    BY <1>1, <1>2, <1>4, <1>8 DEF IInv, TypeInv, TypeOK
  <2> QED
    BY <1>1, <2>1 DEF IInv, TypeInv
<1>10. SlotInv'
  BY <1>1 DEF IInv, SlotInv
<1>11. LengthInv'
  BY <1>1, <1>2, <1>7, <1>8 DEF LengthInv, Waiting
<1>12. TextInv'
  <2> SUFFICES ASSUME ~parts' PROVE cache_tokens' = Append(text, tok)
    BY <1>1 DEF TextInv
  <2> QED
    BY <1>1, <1>5, <1>6 DEF IInv, TextInv
<1>13. CellsInv'
  BY <1>1, SameCellsStep
<1> QED
  BY <1>9, <1>10, <1>11, <1>12, <1>13 DEF IInv

-------------------------------------------------------------------------------

LEMMA Step == IInv /\ [Next]_vars => IInv'
<1> SUFFICES ASSUME IInv, [Next]_vars PROVE IInv'
  OBVIOUS
<1>1. CASE \E p \in Prompts, cache \in CachePrompts, keep \in Keeps, system \in BOOLEAN :
             Launch(p, cache, keep, system)
  BY <1>1, LaunchStep
<1>2. CASE Cancel \/ TasksDone \/ WhenIdle
  BY <1>2, CancelStep, TasksDoneStep, WhenIdleStep
<1>3. CASE ContextShift \/ NoShift
  BY <1>3, ContextShiftStep, NoShiftStep
<1>4. CASE Release \/ NoSlotBusy \/ Generate \/ LoadPrompt
  BY <1>4, ReleaseStep, GenerateStep, LoadPromptStep
<1>5. CASE Decode \/ DecodeFails \/ ReadBeforePrompt
  BY <1>5, DecodeStep, StoppedStep
<1>6. CASE \E tok \in Answers \cup {Part}, more \in BOOLEAN : Sample(tok, more)
  BY <1>6, SampleStep
<1>7. CASE UNCHANGED vars
  BY <1>7, StutterStep
<1> QED
  BY <1>1, <1>2, <1>3, <1>4, <1>5, <1>6, <1>7 DEF Next

(* The inductive invariant of the slot, its context and the cache, for     *)
(* every size of the context, whatever the prompts and n_keep are.         *)
THEOREM Inductive == Spec => []IInv
<1>1. Init => IInv
  BY InitIInv
<1>2. IInv /\ [Next]_vars => IInv'
  BY Step
<1> QED
  BY <1>1, <1>2, PTL DEF Spec

LEMMA ExpectedCells ==
  ASSUME NSystem \in Nat, Len(text) \in Nat, NEW C,
         \A i \in 1 .. NSystem + Len(text) : TextCell(i) \in C
  PROVE  /\ Expected \in Seq(C) /\ Len(Expected) = NSystem + Len(text)
         /\ \A i \in 1 .. NSystem + Len(text) : Expected[i] = TextCell(i)
<1> DEFINE S == [i \in 1 .. NSystem |-> [pos |-> i - 1, tok |-> <<"system", system_tokens>>]]
           X == [i \in 1 .. Len(text) |-> [pos |-> NSystem + i - 1, tok |-> text[i]]]
<1>1. PICK n \in Nat, m \in Nat : n = NSystem /\ m = Len(text)
  OBVIOUS
<1>2. \A i \in 1 .. n : S[i] = TextCell(i)
  BY <1>1 DEF TextCell
<1>3. \A i \in 1 .. m : X[i] = TextCell(n + i)
  <2>1. ASSUME NEW i \in 1 .. m PROVE TextCell(n + i) = [pos |-> n + i - 1, tok |-> text[i]]
    <3>1. ~(n + i <= n) /\ n + i - n = i
      OBVIOUS
    <3> QED
      BY <1>1, <3>1 DEF TextCell
  <2> QED
    BY <1>1, <2>1
<1>4. S \in [1 .. n -> C] /\ X \in [1 .. m -> C]
  <2>1. \A i \in 1 .. n : i \in 1 .. n + m
    OBVIOUS
  <2>2. \A i \in 1 .. m : n + i \in 1 .. n + m
    OBVIOUS
  <2>3. \A i \in 1 .. n : S[i] \in C
    BY <1>1, <1>2, <2>1
  <2>4. \A i \in 1 .. m : X[i] \in C
    BY <1>1, <1>3, <2>2
  <2>5. S = [i \in 1 .. n |-> S[i]] /\ X = [i \in 1 .. m |-> X[i]]
    BY <1>1
  <2> HIDE DEF S, X
  <2> QED
    BY <2>3, <2>4, <2>5
<1>5. Expected = S \o X
  BY DEF Expected, SystemTokens
<1> HIDE DEF S, X
<1>6. PICK a \in Seq(C), b \in Seq(C) : a = S /\ b = X /\ Len(a) = n /\ Len(b) = m
  BY <1>4
<1>7. /\ a \o b \in Seq(C) /\ Len(a \o b) = n + m
      /\ \A i \in 1 .. n : (a \o b)[i] = a[i]
      /\ \A i \in n + 1 .. n + m : (a \o b)[i] = b[i - n]
  BY <1>6
<1>8. ASSUME NEW i \in 1 .. n + m PROVE (a \o b)[i] = TextCell(i)
  <2>1. CASE i \in 1 .. n
    BY <1>2, <1>6, <1>7, <2>1
  <2>2. CASE i \in n + 1 .. n + m
    <3>1. PICK j \in 1 .. m : j = i - n /\ n + j = i
      BY <2>2
    <3>2. (a \o b)[i] = b[j]
      BY <1>7, <2>2, <3>1
    <3> QED
      BY <1>3, <1>6, <3>1, <3>2
  <2>3. i \in 1 .. n \/ i \in n + 1 .. n + m
    OBVIOUS
  <2> QED
    BY <2>1, <2>2, <2>3
<1> QED
  BY <1>1, <1>5, <1>6, <1>7, <1>8

(* When a token is sampled the cache holds the system prompt and the text, *)
(* each token in a cell at its place, and nothing else (update_slots).     *)
THEOREM ContextTrue == Spec => []ContextInCache
<1>1. IInv => ContextInCache
  <2> SUFFICES ASSUME IInv, ~reused, ~displaced, ~stray, pc = "sample" PROVE SameCells(kv, Expected)
    BY DEF ContextInCache, ContextCached
  <2>1. NSystem \in Nat /\ n_past \in Nat /\ Len(text) = n_past /\ kv \in Seq(Cell) /\ state = "PROCESSING"
    BY SystemBound DEF IInv, TypeInv, TypeOK, LengthInv, SlotInv
  <2>2. Len(kv) = NSystem + Len(text) /\ \A i \in 1 .. NSystem + Len(text) : kv[i] = TextCell(i)
    BY <2>1 DEF IInv, CellsInv, CacheInv, Spoilt
  <2>3. \A i \in 1 .. NSystem + Len(text) : TextCell(i) \in Cell
    BY <2>1, <2>2
  <2>4. /\ Expected \in Seq(Cell) /\ Len(Expected) = NSystem + Len(text)
        /\ \A i \in 1 .. NSystem + Len(text) : Expected[i] = TextCell(i)
    BY <2>1, <2>3, ExpectedCells
  <2>5. Expected = kv
    BY <2>1, <2>2, <2>4, SeqsEqual
  <2> QED
    BY <2>5 DEF SameCells
<1> QED
  BY <1>1, Inductive, PTL

(* cache_tokens, which the next prompt is compared with, is the text and   *)
(* the last token, unless there were parts of characters (process_token,   *)
(* the context shift of update_slots).                                     *)
THEOREM PromptCacheRight == Spec => []PromptCacheTrue
<1>1. IInv => PromptCacheTrue
  BY DEF IInv, TextInv, Waiting, PromptCacheTrue
<1> QED
  BY <1>1, Inductive, PTL

(* There is a cell for every row of a batch, and a shift discards          *)
(* something but nothing that it is to keep (update_slots).                *)
THEOREM RoomAlways == Spec => []RoomInTime
<1>1. IInv => TypeOK
  BY DEF IInv, TypeInv
<1>2. IInv => DecodeFits
  <2> SUFFICES ASSUME IInv, pc = "decode", ~reused, NSystem = 0, ~parts PROVE Fits
    BY DEF DecodeFits
  <2>1. state = "PROCESSING" /\ ~displaced
    BY SystemBound DEF IInv, SlotInv
  <2>2. ~Spoilt
    BY <2>1 DEF Spoilt
  <2>3. kv \in Seq(Cell) /\ Rows \in Seq(Cell) /\ n_past \in Nat
    <3>1. batch \in Seq(RawCell) /\ Nat \in SUBSET Nat
      BY DEF IInv, TypeInv
    <3>2. Rows \in Seq(Cell)
      BY <3>1, CellsAtType DEF Rows
    <3> QED
      BY <3>2 DEF IInv, TypeInv, TypeOK
  <2>4. Len(kv) + Len(Rows) = n_past
    BY <2>1, <2>2, <2>3 DEF IInv, CellsInv, CacheInv
  <2>5. Rows = batch \/ (Len(batch) = 1 /\ n_past = 0)
    BY DEF IInv, CellsInv, RowsInv
  <2>6. cache_tokens = text /\ n_past = Len(text) /\ Len(cache_tokens) < NCtx
    BY <2>1 DEF IInv, TextInv, LengthInv
  <2>7. PICK k \in Nat, l \in Nat : k = Len(kv) /\ l = Len(Rows)
    BY <2>3
  <2>8. CASE Rows = batch
    BY <2>3, <2>4, <2>6, <2>7, <2>8, SizesAssumption DEF Fits
  <2>9. CASE Len(batch) = 1 /\ n_past = 0
    BY <2>4, <2>7, <2>9, SizesAssumption DEF Fits
  <2> QED
    BY <2>5, <2>8, <2>9
<1>3. IInv => ShiftMakesRoom
  <2> SUFFICES ASSUME IInv, pc = "shift", ShiftDue PROVE NDiscard >= 1 /\ n_keep + 1 + NDiscard <= n_past
    BY DEF ShiftMakesRoom
  <2> QED
    BY ShiftFacts DEF IInv
<1> QED
  BY <1>1, <1>2, <1>3, Inductive, PTL DEF RoomInTime

(* What truncation leaves of a prompt, however long it is, leaves room    *)
(* for a token, and is empty only for the prompt [] (update_slots).        *)
THEOREM PromptAlwaysFits == Spec => PromptFits
<1>1. IInv /\ [Next]_vars => [LoadPrompt => n_past' < NCtx /\ (n_past' = 0 => prompt = <<>>)]_vars
  <2> SUFFICES ASSUME IInv, LoadPrompt PROVE n_past' < NCtx /\ (n_past' = 0 => prompt = <<>>)
    OBVIOUS
  <2>1. prompt \in Prompts /\ n_keep \in Int
    BY DEF IInv, SlotInv, TypeInv, TypeOK, LoadPrompt
  <2>2. n_past' = Len(Truncated)
    BY DEF LoadPrompt
  <2>3. Len(Truncated) \in 0 .. NCtx - 1 /\ (Len(Truncated) = 0 => prompt = <<>>)
    BY <2>1, TruncatedFits
  <2> QED
    BY <2>2, <2>3, SizesAssumption
<1> QED
  BY <1>1, Inductive, PTL DEF Spec, PromptFits

===============================================================================
