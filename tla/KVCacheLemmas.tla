---------------------------- MODULE KVCacheLemmas ----------------------------
(***************************************************************************)
(* The operations of the KV cache, for any number of cells, sequences and  *)
(* positions.  Every method of the cache is a loop; each section states    *)
(* what one of them makes of every cell, by an invariant of the loop       *)
(* (Loops): the operations on sequences, defragmentation, find_slot,       *)
(* apply_ubatch, prepare, the removal of a ubatch that failed, the split   *)
(* of a batch into ubatches, what a defragmentation makes room for, and    *)
(* which positions of a sequence each of them leaves.                      *)
(***************************************************************************)
EXTENDS KVCache, KVCellsProofs

-----------------------------------------------------------------------------
(* Least and greatest elements.                                            *)

LEMMA MinNat ==
  ASSUME NEW S \in SUBSET Nat, S # {}
  PROVE  Min(S) \in S /\ \A x \in S : Min(S) <= x
<1>1. \E m \in S : \A x \in S : m <= x
  BY LeastNat
<1> QED
  BY <1>1 DEF Min

LEMMA MaxBelow ==
  ASSUME NEW n \in Nat, NEW S \in SUBSET (0 .. n), S # {}
  PROVE  \E m \in S : \A x \in S : x <= m
<1> DEFINE T == {n - x : x \in S}
<1>1. T \in SUBSET Nat /\ T # {}
  <2>1. \A x \in S : x \in 0 .. n /\ n - x \in Nat
    OBVIOUS
  <2> QED
    BY <2>1
<1>2. PICK t \in T : \A u \in T : t <= u
  <2> HIDE DEF T
  <2> QED
    BY <1>1, LeastNat
<1>3. PICK m \in S : t = n - m
  OBVIOUS
<1>4. ASSUME NEW x \in S PROVE x <= m
  <2>1. t <= n - x
    BY <1>2
  <2>2. x \in 0 .. n /\ m \in 0 .. n
    OBVIOUS
  <2> QED
    BY <1>3, <2>1, <2>2
<1> QED
  BY <1>4

LEMMA PosTyped == Pos \subseteq Nat /\ MaxPos \in Nat /\ NCells \in Nat \ {0} /\ Cell \subseteq Nat
  BY CellsAssumption DEF Pos, Cell

LEMMA SeqPosTyped ==
  ASSUME NEW C, NEW s
  PROVE  /\ SeqPosMin(C, s) \in Pos \union {-1} /\ SeqPosMax(C, s) \in Pos \union {-1}
         /\ Present(C, s) # {} =>
              /\ SeqPosMin(C, s) \in Present(C, s) /\ SeqPosMax(C, s) \in Present(C, s)
              /\ \A p \in Present(C, s) : SeqPosMin(C, s) <= p /\ p <= SeqPosMax(C, s)
<1>1. Present(C, s) \subseteq Pos /\ Pos = 0 .. MaxPos
  BY DEF Present, Pos
<1>2. CASE Present(C, s) = {}
  BY <1>2 DEF SeqPosMin, SeqPosMax
<1>3. CASE Present(C, s) # {}
  <2>1. \E m \in Present(C, s) : \A x \in Present(C, s) : m <= x
    BY <1>1, <1>3, PosTyped, LeastNat
  <2>2. \E m \in Present(C, s) : \A x \in Present(C, s) : x <= m
    BY <1>1, <1>3, PosTyped, MaxBelow
  <2>3. \E m \in Present(C, s) : \A x \in Present(C, s) : m >= x
    BY <1>1, <2>2, PosTyped
  <2>4. SeqPosMin(C, s) \in Present(C, s) /\ \A p \in Present(C, s) : SeqPosMin(C, s) <= p
    BY <1>3, <2>1 DEF SeqPosMin
  <2>5. SeqPosMax(C, s) \in Present(C, s) /\ \A p \in Present(C, s) : SeqPosMax(C, s) >= p
    BY <1>3, <2>3 DEF SeqPosMax
  <2> QED
    BY <1>1, <2>4, <2>5, PosTyped
<1> QED
  BY <1>2, <1>3

-----------------------------------------------------------------------------
(* Loops over cells.                                                       *)

\* What a cell holds, and the cells with the contents W.
At(C, i) == [pos |-> C.pos[i], seq |-> C.seq[i], shift |-> C.shift[i]]
Gone == [pos |-> -1, seq |-> {}, shift |-> 0]
Holds(C, W) == Good(C) /\ \A i \in Cell : At(C, i) = W[i]

\* In the middle of a loop over the cells from lo, after k of them.
Mid(C, W, lo, k) ==
    {D \in CellsType : /\ Good(D)
                       /\ \A i \in Cell : At(D, i) = IF lo <= i /\ i < lo + k THEN W[i] ELSE At(C, i)}

LEMMA GoodTyped ==
  ASSUME NEW C, Good(C)
  PROVE  /\ C \in CellsType
         /\ \A i \in Cell : /\ C.pos[i] \in Pos \union {-1} /\ C.seq[i] \in SUBSET Seqs
                            /\ C.shift[i] \in Int /\ C.pos[i] \in Int
                            /\ IsEmpty(C, i) <=> C.pos[i] = -1
                            /\ IsEmpty(C, i) => C.seq[i] = {} /\ C.shift[i] = 0
<1>1. C \in CellsType
  BY DEF Good, WellTyped
<1>2. \A i \in Cell : C.pos[i] \in Pos \union {-1} /\ C.seq[i] \in SUBSET Seqs /\ C.shift[i] \in Int
  BY <1>1 DEF CellsType
<1>3. \A x \in Pos \union {-1} : x \in Int
  BY PosTyped
<1> QED
  BY <1>1, <1>2, <1>3 DEF Good, WellTyped, IsEmpty

LEMMA MidStart ==
  ASSUME NEW C, Good(C), NEW W, NEW lo \in Nat
  PROVE  C \in Mid(C, W, lo, 0)
  BY GoodTyped, PosTyped DEF Mid

LEMMA MidCell ==
  ASSUME NEW C, NEW W, NEW lo \in Nat, NEW k \in Nat, NEW D \in Mid(C, W, lo, k),
         NEW i \in Cell, i = lo + k
  PROVE  Good(D) /\ D.pos[i] = C.pos[i] /\ D.seq[i] = C.seq[i] /\ D.shift[i] = C.shift[i]
<1>1. At(D, i) = At(C, i) /\ Good(D)
  BY DEF Mid
<1> QED
  BY <1>1 DEF At

LEMMA MidSets ==
  ASSUME NEW C, NEW W, NEW lo \in Nat, NEW k \in Nat, NEW D \in Mid(C, W, lo, k),
         NEW i0 \in Cell, i0 = lo + k,
         NEW E, NEW q, NEW S, NEW e, Assigns(D, E, i0, q, S, e),
         W[i0] = [pos |-> q, seq |-> S, shift |-> e]
  PROVE  E \in Mid(C, W, lo, k + 1)
<1>1. Good(E) /\ E \in CellsType
  BY GoodTyped DEF Assigns
<1>2. ASSUME NEW i \in Cell
      PROVE  At(E, i) = IF lo <= i /\ i < lo + (k + 1) THEN W[i] ELSE At(C, i)
  <2>1. CASE i = i0
    BY <2>1, PosTyped DEF Assigns, At
  <2>2. CASE i # i0
    <3>1. At(E, i) = At(D, i)
      BY <2>2 DEF Assigns, At
    <3>2. At(D, i) = IF lo <= i /\ i < lo + k THEN W[i] ELSE At(C, i)
      BY DEF Mid
    <3>3. i < lo + (k + 1) <=> i < lo + k
      BY <2>2, PosTyped
    <3> QED
      BY <3>1, <3>2, <3>3
  <2> QED
    BY <2>1, <2>2
<1> QED
  BY <1>1, <1>2 DEF Mid

LEMMA MidSkips ==
  ASSUME NEW C, NEW W, NEW lo \in Nat, NEW k \in Nat, NEW D \in Mid(C, W, lo, k),
         NEW i0 \in Cell, i0 = lo + k, W[i0] = At(C, i0)
  PROVE  D \in Mid(C, W, lo, k + 1)
<1>1. ASSUME NEW i \in Cell
      PROVE  At(D, i) = IF lo <= i /\ i < lo + (k + 1) THEN W[i] ELSE At(C, i)
  <2>1. At(D, i) = IF lo <= i /\ i < lo + k THEN W[i] ELSE At(C, i)
    BY DEF Mid
  <2>2. CASE i = i0
    BY <2>1, <2>2
  <2>3. CASE i # i0
    <3>1. i < lo + (k + 1) <=> i < lo + k
      BY <2>3, PosTyped
    <3> QED
      BY <2>1, <3>1
  <2> QED
    BY <2>2, <2>3
<1> QED
  BY <1>1 DEF Mid

LEMMA MidEnd ==
  ASSUME NEW C, NEW W, NEW D \in Mid(C, W, 0, NCells)
  PROVE  Holds(D, W)
  BY PosTyped DEF Mid, Holds, Cell

LEMMA Orders ==
  /\ Len(CellOrder) = NCells /\ NCells \in Nat
  /\ \A k \in 1 .. NCells : /\ CellOrder[k] = 0 + (k - 1) /\ 0 + (k - 1) \in Cell
                            /\ k - 1 \in Nat /\ (k - 1) + 1 = k
                            /\ k \in 0 .. NCells /\ k - 1 \in 0 .. NCells
  /\ \A n \in Nat : Len(Rounds(n)) = n /\ \A k \in 1 .. n : Rounds(n)[k] = k
  BY PosTyped DEF CellOrder, Rounds, Cell

-----------------------------------------------------------------------------
(* The operations on sequences, cell by cell.                              *)

RmRound == INSTANCE Loops WITH Op <- LAMBDA C, i, s, p0, p1, x : RmInRange(C, i, s, p0, p1)
KeepRound == INSTANCE Loops WITH Op <- LAMBDA C, i, s, x, y, z : SeqKeepCell(C, i, s)
CpRound == INSTANCE Loops WITH Op <- LAMBDA C, i, s, d, p0, p1 :
             IF Belongs(C, i, s, p0, p1) THEN SeqAddCell(C, i, d) ELSE C
AddRound == INSTANCE Loops WITH Op <- LAMBDA C, i, s, p0, p1, d :
              IF Belongs(C, i, s, p0, p1) THEN PosAdd(C, i, d) ELSE C
DivRound == INSTANCE Loops WITH Op <- LAMBDA C, i, s, p0, p1, d :
              IF Belongs(C, i, s, p0, p1) THEN PosDiv(C, i, d) ELSE C

\* What is left of a cell that loses sequence s.
Without(C, i, s) ==
    IF C.seq[i] = {s} THEN Gone
    ELSE [pos |-> C.pos[i], seq |-> C.seq[i] \ {s}, shift |-> C.shift[i]]

AfterRm(C, s, p0, p1) ==
    [i \in Cell |-> IF InRange(C, i, p0, p1) /\ s < 0 THEN Gone
                    ELSE IF InRange(C, i, p0, p1) /\ s \in C.seq[i] THEN Without(C, i, s)
                    ELSE At(C, i)]

AfterKeep(C, s) ==
    [i \in Cell |-> IF s \in C.seq[i] THEN [pos |-> C.pos[i], seq |-> {s}, shift |-> C.shift[i]]
                    ELSE IF C.seq[i] # {} THEN Gone ELSE At(C, i)]

AfterCp(C, s, d, p0, p1) ==
    [i \in Cell |-> IF Belongs(C, i, s, p0, p1)
                    THEN [pos |-> C.pos[i], seq |-> C.seq[i] \union {d}, shift |-> C.shift[i]]
                    ELSE At(C, i)]

AfterAdd(C, s, p0, p1, d) ==
    [i \in Cell |-> IF Belongs(C, i, s, p0, p1)
                    THEN IF C.pos[i] + d < 0 THEN Gone
                         ELSE [pos |-> C.pos[i] + d, seq |-> C.seq[i], shift |-> C.shift[i] + d]
                    ELSE At(C, i)]

AfterDiv(C, s, p0, p1, d) ==
    [i \in Cell |-> IF Belongs(C, i, s, p0, p1)
                    THEN [pos |-> C.pos[i] \div d, seq |-> C.seq[i],
                          shift |-> C.shift[i] + C.pos[i] - C.pos[i] \div d]
                    ELSE At(C, i)]

LEMMA SameRange ==
  ASSUME NEW C, NEW D, NEW i, D.pos[i] = C.pos[i], D.seq[i] = C.seq[i], NEW s, NEW p0, NEW p1
  PROVE  /\ InRange(D, i, p0, p1) = InRange(C, i, p0, p1)
         /\ Belongs(D, i, s, p0, p1) = Belongs(C, i, s, p0, p1)
         /\ IsEmpty(D, i) = IsEmpty(C, i)
         /\ (D.shift[i] = C.shift[i] => At(D, i) = At(C, i))
  BY DEF InRange, Belongs, PosIn, IsEmpty, At

\* A cell in a range is not empty.
LEMMA RangeFull ==
  ASSUME NEW C, Good(C), NEW i \in Cell, NEW s, NEW p0, NEW p1
  PROVE  /\ p0 \in Int /\ InRange(C, i, p0, p1) => ~IsEmpty(C, i)
         /\ Belongs(C, i, s, p0, p1) => ~IsEmpty(C, i) /\ s \in Seqs /\ C.pos[i] \in Pos
         /\ s \in C.seq[i] => ~IsEmpty(C, i) /\ s \in Seqs /\ C.pos[i] \in Pos
<1>1. /\ C.seq[i] \in SUBSET Seqs /\ (IsEmpty(C, i) => C.seq[i] = {})
      /\ (IsEmpty(C, i) <=> C.pos[i] = -1) /\ C.pos[i] \in Pos \union {-1}
  BY GoodTyped
<1>2. ASSUME p0 \in Int, InRange(C, i, p0, p1) PROVE ~IsEmpty(C, i)
  <2>1. C.pos[i] >= (IF p0 < 0 THEN 0 ELSE p0)
    BY <1>2 DEF InRange, PosIn, From
  <2> QED
    BY <1>1, <1>2, <2>1
<1> QED
  BY <1>1, <1>2 DEF Belongs

LEMMA RmEach ==
  ASSUME NEW C, Good(C), NEW s, NEW p0, NEW p1, s \in Seqs \/ (s = -1 /\ p0 \in Int)
  PROVE  Holds(RmRound!Result(C, CellOrder, s, p0, p1, 0), AfterRm(C, s, p0, p1))
<1> DEFINE W == AfterRm(C, s, p0, p1)
           A == [k \in 0 .. NCells |-> Mid(C, W, 0, k)]
<1>1. C \in A[0]
  BY MidStart, PosTyped
<1>2. ASSUME NEW k \in 1 .. NCells, NEW D \in A[k - 1]
      PROVE  RmInRange(D, CellOrder[k], s, p0, p1) \in A[k]
  <2> DEFINE j == k - 1
             i == 0 + j
  <2>1. /\ CellOrder[k] = i /\ i \in Cell /\ j \in Nat /\ j + 1 = k /\ 0 \in Nat
        /\ A[k] = Mid(C, W, 0, j + 1) /\ D \in Mid(C, W, 0, j) /\ i = 0 + j
    <3> HIDE DEF W
    <3>1. /\ CellOrder[k] = i /\ i \in Cell /\ j \in Nat /\ j + 1 = k /\ 0 \in Nat
          /\ k \in 0 .. NCells /\ j \in 0 .. NCells
      BY Orders
    <3>2. A[k] = Mid(C, W, 0, k)
      BY <3>1
    <3>3. D \in Mid(C, W, 0, j)
      BY <3>1
    <3>4. A[k] = Mid(C, W, 0, j + 1)
      BY <3>1, <3>2
    <3> QED
      BY <3>1, <3>3, <3>4
  <2> HIDE DEF i, j, A
  <2>2. /\ Good(D) /\ D.pos[i] = C.pos[i] /\ D.seq[i] = C.seq[i] /\ D.shift[i] = C.shift[i]
    BY <2>1, MidCell
  <2>3. InRange(D, i, p0, p1) = InRange(C, i, p0, p1) /\ IsEmpty(D, i) = IsEmpty(C, i)
    BY <2>2, SameRange
  <2>4. W[i] = IF InRange(C, i, p0, p1) /\ s < 0 THEN Gone
               ELSE IF InRange(C, i, p0, p1) /\ s \in C.seq[i] THEN Without(C, i, s)
               ELSE At(C, i)
    BY <2>1 DEF AfterRm
  <2> HIDE DEF W
  <2>n. s < 0 => ~(s >= 0) /\ p0 \in Int
    <3>1. CASE s \in Seqs
      <4>1. s \in Nat
        BY <3>1, CellsAssumption
      <4> QED
        BY <4>1
    <3>2. CASE s = -1 /\ p0 \in Int
      BY <3>2
    <3> QED
      BY <3>1, <3>2
  <2>6. CASE InRange(C, i, p0, p1) /\ s < 0
    <3>1. ~IsEmpty(D, i)
      BY <2>1, <2>3, <2>6, <2>n, RangeFull
    <3>f. InRange(D, i, p0, p1)
      BY <2>3, <2>6
    <3>2. RmInRange(D, i, s, p0, p1) = Rm(D, i)
      BY <2>6, <2>n, <3>f DEF RmInRange
    <3>3. Assigns(D, Rm(D, i), i, -1, {}, 0)
      BY <2>1, <2>2, <3>1, RmGood
    <3> QED
      BY <2>1, <2>4, <2>6, <3>2, <3>3, MidSets DEF Gone
  <2>7. CASE InRange(C, i, p0, p1) /\ ~(s < 0) /\ s \in C.seq[i]
    <3>s. s \in Nat /\ s >= 0
      <4>1. s \in Seqs
        BY <2>7
      <4>2. s \in Nat
        BY <4>1, CellsAssumption
      <4> QED
        BY <4>2
    <3>f. InRange(D, i, p0, p1) /\ s \in D.seq[i]
      BY <2>2, <2>3, <2>7
    <3>1. RmInRange(D, i, s, p0, p1) = SeqRmCell(D, i, s)
      BY <2>7, <3>s, <3>f DEF RmInRange
    <3>2. IF C.seq[i] = {s} THEN Assigns(D, SeqRmCell(D, i, s), i, -1, {}, 0)
          ELSE Assigns(D, SeqRmCell(D, i, s), i, C.pos[i], C.seq[i] \ {s}, C.shift[i])
      BY <2>1, <2>2, <2>7, SeqRmGood
    <3>0. W[i] = Without(C, i, s)
      BY <2>4, <2>7
    <3>3. CASE C.seq[i] = {s}
      <4>1. W[i] = [pos |-> -1, seq |-> {}, shift |-> 0]
        BY <3>0, <3>3 DEF Gone, Without
      <4>2. Assigns(D, SeqRmCell(D, i, s), i, -1, {}, 0)
        BY <3>2, <3>3
      <4>3. SeqRmCell(D, i, s) \in Mid(C, W, 0, j + 1)
        BY <2>1, <4>1, <4>2, MidSets
      <4> QED
        BY <2>1, <3>1, <4>3
    <3>4. CASE C.seq[i] # {s}
      <4>1. W[i] = [pos |-> C.pos[i], seq |-> C.seq[i] \ {s}, shift |-> C.shift[i]]
        BY <3>0, <3>4 DEF Without
      <4>2. Assigns(D, SeqRmCell(D, i, s), i, C.pos[i], C.seq[i] \ {s}, C.shift[i])
        BY <3>2, <3>4
      <4>3. SeqRmCell(D, i, s) \in Mid(C, W, 0, j + 1)
        BY <2>1, <4>1, <4>2, MidSets
      <4> QED
        BY <2>1, <3>1, <4>3
    <3> QED
      BY <3>3, <3>4
  <2>8. CASE ~InRange(C, i, p0, p1) \/ (~(s < 0) /\ s \notin C.seq[i])
    <3>1. RmInRange(D, i, s, p0, p1) = D
      BY <2>2, <2>3, <2>8 DEF RmInRange
    <3>2. W[i] = At(C, i)
      BY <2>4, <2>8
    <3> QED
      BY <2>1, <3>1, <3>2, MidSkips
  <2> QED
    BY <2>1, <2>6, <2>7, <2>8
<1>3. RmRound!Result(C, CellOrder, s, p0, p1, 0) \in A[NCells]
  <2> HIDE DEF A
  <2>1. RmRound!Keeps(A, C, CellOrder, s, p0, p1, 0)
    BY <1>1, <1>2, Orders DEF RmRound!Keeps
  <2>i. RmRound!Inductive
    BY Induct DEF RmRound!Inductive
  <2> QED
    BY <2>1, Orders, <2>i, RmRound!Invariant
<1> QED
  BY <1>3, MidEnd, Orders

LEMMA KeepEach ==
  ASSUME NEW C, Good(C), NEW s \in Seqs
  PROVE  Holds(KeepRound!Result(C, CellOrder, s, 0, 0, 0), AfterKeep(C, s))
<1> DEFINE W == AfterKeep(C, s)
           A == [k \in 0 .. NCells |-> Mid(C, W, 0, k)]
<1>1. C \in A[0]
  BY MidStart, PosTyped
<1>2. ASSUME NEW k \in 1 .. NCells, NEW D \in A[k - 1]
      PROVE  SeqKeepCell(D, CellOrder[k], s) \in A[k]
  <2> DEFINE j == k - 1
             i == 0 + j
  <2>1. /\ CellOrder[k] = i /\ i \in Cell /\ j \in Nat /\ j + 1 = k /\ 0 \in Nat
        /\ A[k] = Mid(C, W, 0, j + 1) /\ D \in Mid(C, W, 0, j) /\ i = 0 + j
    <3> HIDE DEF W
    <3>1. /\ CellOrder[k] = i /\ i \in Cell /\ j \in Nat /\ j + 1 = k /\ 0 \in Nat
          /\ k \in 0 .. NCells /\ j \in 0 .. NCells
      BY Orders
    <3>2. A[k] = Mid(C, W, 0, k)
      BY <3>1
    <3>3. D \in Mid(C, W, 0, j)
      BY <3>1
    <3>4. A[k] = Mid(C, W, 0, j + 1)
      BY <3>1, <3>2
    <3> QED
      BY <3>1, <3>3, <3>4
  <2> HIDE DEF i, j, A
  <2>2. /\ Good(D) /\ D.pos[i] = C.pos[i] /\ D.seq[i] = C.seq[i] /\ D.shift[i] = C.shift[i]
    BY <2>1, MidCell
  <2>4. W[i] = IF s \in C.seq[i] THEN [pos |-> C.pos[i], seq |-> {s}, shift |-> C.shift[i]]
               ELSE IF C.seq[i] # {} THEN Gone ELSE At(C, i)
    BY <2>1 DEF AfterKeep
  <2> HIDE DEF W
  <2>5. CASE s \in C.seq[i]
    <3>1. Assigns(D, SeqKeepCell(D, i, s), i, C.pos[i], {s}, C.shift[i])
      BY <2>1, <2>2, <2>5, SeqKeepGood
    <3> QED
      BY <2>1, <2>4, <2>5, <3>1, MidSets
  <2>6. CASE s \notin C.seq[i] /\ C.seq[i] # {}
    <3>1. Assigns(D, SeqKeepCell(D, i, s), i, -1, {}, 0)
      BY <2>1, <2>2, <2>6, SeqKeepGood
    <3> QED
      BY <2>1, <2>4, <2>6, <3>1, MidSets DEF Gone
  <2>7. CASE s \notin C.seq[i] /\ C.seq[i] = {}
    <3>1. SeqKeepCell(D, i, s) = D
      BY <2>1, <2>2, <2>7, SeqKeepGood
    <3> QED
      BY <2>1, <2>4, <2>7, <3>1, MidSkips
  <2> QED
    BY <2>1, <2>5, <2>6, <2>7
<1>3. KeepRound!Result(C, CellOrder, s, 0, 0, 0) \in A[NCells]
  <2> HIDE DEF A
  <2>1. KeepRound!Keeps(A, C, CellOrder, s, 0, 0, 0)
    BY <1>1, <1>2, Orders DEF KeepRound!Keeps
  <2>i. KeepRound!Inductive
    BY Induct DEF KeepRound!Inductive
  <2> QED
    BY <2>1, Orders, <2>i, KeepRound!Invariant
<1> QED
  BY <1>3, MidEnd, Orders

LEMMA CpEach ==
  ASSUME NEW C, Good(C), NEW s \in Seqs, NEW d \in Seqs, NEW p0, NEW p1,
         \A i \in Cell : Belongs(C, i, s, p0, p1) => d \notin C.seq[i]
  PROVE  Holds(CpRound!Result(C, CellOrder, s, d, p0, p1), AfterCp(C, s, d, p0, p1))
<1> DEFINE W == AfterCp(C, s, d, p0, p1)
           A == [k \in 0 .. NCells |-> Mid(C, W, 0, k)]
<1>1. C \in A[0]
  BY MidStart, PosTyped
<1>2. ASSUME NEW k \in 1 .. NCells, NEW D \in A[k - 1]
      PROVE  (IF Belongs(D, CellOrder[k], s, p0, p1) THEN SeqAddCell(D, CellOrder[k], d) ELSE D) \in A[k]
  <2> DEFINE j == k - 1
             i == 0 + j
  <2>1. /\ CellOrder[k] = i /\ i \in Cell /\ j \in Nat /\ j + 1 = k /\ 0 \in Nat
        /\ A[k] = Mid(C, W, 0, j + 1) /\ D \in Mid(C, W, 0, j) /\ i = 0 + j
    <3> HIDE DEF W
    <3>1. /\ CellOrder[k] = i /\ i \in Cell /\ j \in Nat /\ j + 1 = k /\ 0 \in Nat
          /\ k \in 0 .. NCells /\ j \in 0 .. NCells
      BY Orders
    <3>2. A[k] = Mid(C, W, 0, k)
      BY <3>1
    <3>3. D \in Mid(C, W, 0, j)
      BY <3>1
    <3>4. A[k] = Mid(C, W, 0, j + 1)
      BY <3>1, <3>2
    <3> QED
      BY <3>1, <3>3, <3>4
  <2> HIDE DEF i, j, A
  <2>2. /\ Good(D) /\ D.pos[i] = C.pos[i] /\ D.seq[i] = C.seq[i] /\ D.shift[i] = C.shift[i]
    BY <2>1, MidCell
  <2>3. Belongs(D, i, s, p0, p1) = Belongs(C, i, s, p0, p1) /\ IsEmpty(D, i) = IsEmpty(C, i)
    BY <2>2, SameRange
  <2>4. W[i] = IF Belongs(C, i, s, p0, p1) THEN [pos |-> C.pos[i], seq |-> C.seq[i] \union {d},
                                                   shift |-> C.shift[i]] ELSE At(C, i)
    BY <2>1 DEF AfterCp
  <2> HIDE DEF W
  <2>5. CASE Belongs(C, i, s, p0, p1)
    <3>1. ~IsEmpty(D, i)
      BY <2>1, <2>3, <2>5, RangeFull
    <3>2. Assigns(D, SeqAddCell(D, i, d), i, C.pos[i], C.seq[i] \union {d}, C.shift[i])
      BY <2>1, <2>2, <2>5, <3>1, SeqAddGood
    <3> QED
      BY <2>1, <2>3, <2>4, <2>5, <3>2, MidSets
  <2>6. CASE ~Belongs(C, i, s, p0, p1)
    BY <2>1, <2>3, <2>4, <2>6, MidSkips
  <2> QED
    BY <2>1, <2>5, <2>6
<1>3. CpRound!Result(C, CellOrder, s, d, p0, p1) \in A[NCells]
  <2> HIDE DEF A
  <2>1. CpRound!Keeps(A, C, CellOrder, s, d, p0, p1)
    BY <1>1, <1>2, Orders DEF CpRound!Keeps
  <2>i. CpRound!Inductive
    BY Induct DEF CpRound!Inductive
  <2> QED
    BY <2>1, Orders, <2>i, CpRound!Invariant
<1> QED
  BY <1>3, MidEnd, Orders

LEMMA AddEach ==
  ASSUME NEW C, Good(C), NEW s \in Seqs, NEW p0, NEW p1, NEW d \in Int,
         \A i \in Cell : Belongs(C, i, s, p0, p1) => C.pos[i] + d <= MaxPos
  PROVE  Holds(AddRound!Result(C, CellOrder, s, p0, p1, d), AfterAdd(C, s, p0, p1, d))
<1> DEFINE W == AfterAdd(C, s, p0, p1, d)
           A == [k \in 0 .. NCells |-> Mid(C, W, 0, k)]
<1>1. C \in A[0]
  BY MidStart, PosTyped
<1>2. ASSUME NEW k \in 1 .. NCells, NEW D \in A[k - 1]
      PROVE  (IF Belongs(D, CellOrder[k], s, p0, p1) THEN PosAdd(D, CellOrder[k], d) ELSE D) \in A[k]
  <2> DEFINE j == k - 1
             i == 0 + j
  <2>1. /\ CellOrder[k] = i /\ i \in Cell /\ j \in Nat /\ j + 1 = k /\ 0 \in Nat
        /\ A[k] = Mid(C, W, 0, j + 1) /\ D \in Mid(C, W, 0, j) /\ i = 0 + j
    <3> HIDE DEF W
    <3>1. /\ CellOrder[k] = i /\ i \in Cell /\ j \in Nat /\ j + 1 = k /\ 0 \in Nat
          /\ k \in 0 .. NCells /\ j \in 0 .. NCells
      BY Orders
    <3>2. A[k] = Mid(C, W, 0, k)
      BY <3>1
    <3>3. D \in Mid(C, W, 0, j)
      BY <3>1
    <3>4. A[k] = Mid(C, W, 0, j + 1)
      BY <3>1, <3>2
    <3> QED
      BY <3>1, <3>3, <3>4
  <2> HIDE DEF i, j, A
  <2>2. /\ Good(D) /\ D.pos[i] = C.pos[i] /\ D.seq[i] = C.seq[i] /\ D.shift[i] = C.shift[i]
    BY <2>1, MidCell
  <2>3. Belongs(D, i, s, p0, p1) = Belongs(C, i, s, p0, p1) /\ IsEmpty(D, i) = IsEmpty(C, i)
    BY <2>2, SameRange
  <2>4. W[i] = IF Belongs(C, i, s, p0, p1) THEN IF C.pos[i] + d < 0 THEN Gone
                 ELSE [pos |-> C.pos[i] + d, seq |-> C.seq[i], shift |-> C.shift[i] + d] ELSE At(C, i)
    BY <2>1 DEF AfterAdd
  <2> HIDE DEF W
  <2>5. CASE Belongs(C, i, s, p0, p1)
    <3>1. ~IsEmpty(D, i)
      BY <2>1, <2>3, <2>5, RangeFull
    <3>2. IF C.pos[i] + d < 0 THEN Assigns(D, PosAdd(D, i, d), i, -1, {}, 0)
          ELSE Assigns(D, PosAdd(D, i, d), i, C.pos[i] + d, C.seq[i], C.shift[i] + d)
      BY <2>1, <2>2, <2>5, <3>1, PosAddGood
    <3>3. CASE C.pos[i] + d < 0
      BY <2>1, <2>3, <2>4, <2>5, <3>2, <3>3, MidSets DEF Gone
    <3>4. CASE ~(C.pos[i] + d < 0)
      BY <2>1, <2>3, <2>4, <2>5, <3>2, <3>4, MidSets
    <3> QED
      BY <3>3, <3>4
  <2>6. CASE ~Belongs(C, i, s, p0, p1)
    BY <2>1, <2>3, <2>4, <2>6, MidSkips
  <2> QED
    BY <2>1, <2>5, <2>6
<1>3. AddRound!Result(C, CellOrder, s, p0, p1, d) \in A[NCells]
  <2> HIDE DEF A
  <2>1. AddRound!Keeps(A, C, CellOrder, s, p0, p1, d)
    BY <1>1, <1>2, Orders DEF AddRound!Keeps
  <2>i. AddRound!Inductive
    BY Induct DEF AddRound!Inductive
  <2> QED
    BY <2>1, Orders, <2>i, AddRound!Invariant
<1> QED
  BY <1>3, MidEnd, Orders

LEMMA DivEach ==
  ASSUME NEW C, Good(C), NEW s \in Seqs, NEW p0, NEW p1, NEW d \in Nat \ {0}
  PROVE  Holds(DivRound!Result(C, CellOrder, s, p0, p1, d), AfterDiv(C, s, p0, p1, d))
<1> DEFINE W == AfterDiv(C, s, p0, p1, d)
           A == [k \in 0 .. NCells |-> Mid(C, W, 0, k)]
<1>1. C \in A[0]
  BY MidStart, PosTyped
<1>2. ASSUME NEW k \in 1 .. NCells, NEW D \in A[k - 1]
      PROVE  (IF Belongs(D, CellOrder[k], s, p0, p1) THEN PosDiv(D, CellOrder[k], d) ELSE D) \in A[k]
  <2> DEFINE j == k - 1
             i == 0 + j
  <2>1. /\ CellOrder[k] = i /\ i \in Cell /\ j \in Nat /\ j + 1 = k /\ 0 \in Nat
        /\ A[k] = Mid(C, W, 0, j + 1) /\ D \in Mid(C, W, 0, j) /\ i = 0 + j
    <3> HIDE DEF W
    <3>1. /\ CellOrder[k] = i /\ i \in Cell /\ j \in Nat /\ j + 1 = k /\ 0 \in Nat
          /\ k \in 0 .. NCells /\ j \in 0 .. NCells
      BY Orders
    <3>2. A[k] = Mid(C, W, 0, k)
      BY <3>1
    <3>3. D \in Mid(C, W, 0, j)
      BY <3>1
    <3>4. A[k] = Mid(C, W, 0, j + 1)
      BY <3>1, <3>2
    <3> QED
      BY <3>1, <3>3, <3>4
  <2> HIDE DEF i, j, A
  <2>2. /\ Good(D) /\ D.pos[i] = C.pos[i] /\ D.seq[i] = C.seq[i] /\ D.shift[i] = C.shift[i]
    BY <2>1, MidCell
  <2>3. Belongs(D, i, s, p0, p1) = Belongs(C, i, s, p0, p1) /\ IsEmpty(D, i) = IsEmpty(C, i)
    BY <2>2, SameRange
  <2>4. W[i] = IF Belongs(C, i, s, p0, p1) THEN [pos |-> C.pos[i] \div d, seq |-> C.seq[i],
                  shift |-> C.shift[i] + C.pos[i] - C.pos[i] \div d] ELSE At(C, i)
    BY <2>1 DEF AfterDiv
  <2> HIDE DEF W
  <2>5. CASE Belongs(C, i, s, p0, p1)
    <3>1. ~IsEmpty(D, i)
      BY <2>1, <2>3, <2>5, RangeFull
    <3>2. Assigns(D, PosDiv(D, i, d), i, C.pos[i] \div d, C.seq[i],
                  C.shift[i] + C.pos[i] - C.pos[i] \div d)
      BY <2>1, <2>2, <2>5, <3>1, PosDivGood
    <3> QED
      BY <2>1, <2>3, <2>4, <2>5, <3>2, MidSets
  <2>6. CASE ~Belongs(C, i, s, p0, p1)
    BY <2>1, <2>3, <2>4, <2>6, MidSkips
  <2> QED
    BY <2>1, <2>5, <2>6
<1>3. DivRound!Result(C, CellOrder, s, p0, p1, d) \in A[NCells]
  <2> HIDE DEF A
  <2>1. DivRound!Keeps(A, C, CellOrder, s, p0, p1, d)
    BY <1>1, <1>2, Orders DEF DivRound!Keeps
  <2>i. DivRound!Inductive
    BY Induct DEF DivRound!Inductive
  <2> QED
    BY <2>1, Orders, <2>i, DivRound!Invariant
<1> QED
  BY <1>3, MidEnd, Orders

-----------------------------------------------------------------------------
(* The cache in the middle of an operation: cells, head and data.          *)

Row == [tok : Tokens \union {Junk.tok}, rope : Int]
Caches == [c : CellsType, h : 0 .. NCells, d : [Cell -> Row]]
Sound(M) == M \in Caches /\ Good(M.c)

LEMMA SoundWith ==
  ASSUME NEW M, Sound(M)
  PROVE  /\ M = [c |-> M.c, h |-> M.h, d |-> M.d]
         /\ M.h \in 0 .. NCells /\ M.d \in [Cell -> Row] /\ Good(M.c)
         /\ \A C : [M EXCEPT !.c = C] = [c |-> C, h |-> M.h, d |-> M.d]
         /\ \A C, h : [M EXCEPT !.c = C, !.h = h] = [c |-> C, h |-> h, d |-> M.d]
         /\ \A d : [M EXCEPT !.d = d] = [c |-> M.c, h |-> M.h, d |-> d]
         /\ \A C, d : [M EXCEPT !.c = C, !.d = d] = [c |-> C, h |-> M.h, d |-> d]
         /\ \A C, h, d : [M EXCEPT !.c = C, !.h = h, !.d = d] = [c |-> C, h |-> h, d |-> d]
<1>1. M = [c |-> M.c, h |-> M.h, d |-> M.d]
  BY DEF Sound, Caches
<1>2. M.h \in 0 .. NCells /\ M.d \in [Cell -> Row] /\ Good(M.c)
  BY DEF Sound, Caches
<1> DEFINE x == M.c
           y == M.h
           z == M.d
<1> HIDE DEF x, y, z
<1>3. M = [c |-> x, h |-> y, d |-> z]
  BY <1>1 DEF x, y, z
<1>4. ASSUME NEW C PROVE [M EXCEPT !.c = C] = [c |-> C, h |-> y, d |-> z]
  BY <1>3
<1>5. ASSUME NEW C, NEW h PROVE [M EXCEPT !.c = C, !.h = h] = [c |-> C, h |-> h, d |-> z]
  <2>1. [[c |-> C, h |-> y, d |-> z] EXCEPT !.h = h] = [c |-> C, h |-> h, d |-> z]
    OBVIOUS
  <2> QED
    BY <1>4, <2>1
<1>6. ASSUME NEW d PROVE [M EXCEPT !.d = d] = [c |-> x, h |-> y, d |-> d]
  BY <1>3
<1>7. \A C : [M EXCEPT !.c = C] = [c |-> C, h |-> M.h, d |-> M.d]
  BY <1>4 DEF y, z
<1>8. \A C, h : [M EXCEPT !.c = C, !.h = h] = [c |-> C, h |-> h, d |-> M.d]
  BY <1>5 DEF z
<1>9. \A d : [M EXCEPT !.d = d] = [c |-> M.c, h |-> M.h, d |-> d]
  BY <1>6 DEF x, y
<1>10. ASSUME NEW C, NEW d PROVE [M EXCEPT !.c = C, !.d = d] = [c |-> C, h |-> y, d |-> d]
  <2>1. [[c |-> C, h |-> y, d |-> z] EXCEPT !.d = d] = [c |-> C, h |-> y, d |-> d]
    OBVIOUS
  <2> QED
    BY <1>4, <2>1
<1>11. ASSUME NEW C, NEW h, NEW d PROVE [M EXCEPT !.c = C, !.h = h, !.d = d] = [c |-> C, h |-> h, d |-> d]
  <2>1. [[c |-> C, h |-> h, d |-> z] EXCEPT !.d = d] = [c |-> C, h |-> h, d |-> d]
    OBVIOUS
  <2> QED
    BY <1>5, <2>1
<1>12. \A C, d : [M EXCEPT !.c = C, !.d = d] = [c |-> C, h |-> M.h, d |-> d]
  BY <1>10 DEF y
<1> QED
  BY <1>1, <1>2, <1>7, <1>8, <1>9, <1>11, <1>12

LEMMA SoundIs ==
  ASSUME NEW C, Good(C), NEW h \in 0 .. NCells, NEW d \in [Cell -> Row]
  PROVE  Sound([c |-> C, h |-> h, d |-> d])
  BY GoodTyped DEF Sound, Caches

\* The head goes back to a cell.
LEMMA HeadBackTyped ==
  ASSUME NEW C, NEW D, NEW h \in 0 .. NCells
  PROVE  /\ HeadBack(C, D, h) \in 0 .. NCells
         /\ Freed(C, D) # {} => Min(Freed(C, D)) \in 0 .. NCells
<1>1. Freed(C, D) \in SUBSET Nat /\ Freed(C, D) \subseteq Cell
  BY PosTyped DEF Freed
<1>2. Freed(C, D) # {} => Min(Freed(C, D)) \in Cell
  BY <1>1, MinNat
<1>3. \A i \in Cell : i \in 0 .. NCells
  BY PosTyped DEF Cell
<1> QED
  BY <1>2, <1>3 DEF HeadBack

LEMMA SeqRmDone ==
  ASSUME NEW M, Sound(M), NEW s, NEW p0, NEW p1, s \in Seqs \/ (s = -1 /\ p0 \in Int)
  PROVE  LET N == SeqRm(M, s, p0, p1) IN
         Sound(N) /\ N.d = M.d /\ Holds(N.c, AfterRm(M.c, s, p0, p1))
<1> DEFINE R == RmRound!Result(M.c, CellOrder, s, p0, p1, 0)
           N == SeqRm(M, s, p0, p1)
<1>1. Good(M.c)
  BY DEF Sound
<1>2. Holds(R, AfterRm(M.c, s, p0, p1))
  BY <1>1, RmEach
<1>3. N = [M EXCEPT !.c = R, !.h = HeadBack(M.c, R, @)]
  BY DEF SeqRm, Left, EachCell, Loop, RmRound!Result
<1> HIDE DEF R
<1>4. Good(R) /\ HeadBack(M.c, R, M.h) \in 0 .. NCells
  BY <1>2, HeadBackTyped DEF Holds, Sound, Caches
<1>5. N = [c |-> R, h |-> HeadBack(M.c, R, M.h), d |-> M.d]
  BY <1>3, <1>4, SoundWith
<1> HIDE DEF N
<1>6. Sound(N)
  BY <1>4, <1>5, SoundWith, SoundIs
<1> QED
  BY <1>2, <1>5, <1>6 DEF N

LEMMA SeqKeepDone ==
  ASSUME NEW M, Sound(M), NEW s \in Seqs
  PROVE  LET N == SeqKeep(M, s) IN
         Sound(N) /\ N.d = M.d /\ Holds(N.c, AfterKeep(M.c, s))
<1> DEFINE R == KeepRound!Result(M.c, CellOrder, s, 0, 0, 0)
           N == SeqKeep(M, s)
<1>1. Good(M.c)
  BY DEF Sound
<1>2. Holds(R, AfterKeep(M.c, s))
  BY <1>1, KeepEach
<1>3. N = [M EXCEPT !.c = R, !.h = HeadBack(M.c, R, @)]
  BY DEF SeqKeep, Left, EachCell, Loop, KeepRound!Result
<1> HIDE DEF R
<1>4. Good(R) /\ HeadBack(M.c, R, M.h) \in 0 .. NCells
  BY <1>2, HeadBackTyped DEF Holds, Sound, Caches
<1>5. N = [c |-> R, h |-> HeadBack(M.c, R, M.h), d |-> M.d]
  BY <1>3, <1>4, SoundWith
<1> HIDE DEF N
<1>6. Sound(N)
  BY <1>4, <1>5, SoundWith, SoundIs
<1> QED
  BY <1>2, <1>5, <1>6 DEF N

LEMMA SeqCpDone ==
  ASSUME NEW M, Sound(M), NEW s \in Seqs, NEW d \in Seqs, NEW p0, NEW p1,
         \A i \in Cell : Belongs(M.c, i, s, p0, p1) => d \notin M.c.seq[i]
  PROVE  LET N == SeqCp(M, s, d, p0, p1) IN
         Sound(N) /\ N.d = M.d /\ Holds(N.c, AfterCp(M.c, s, d, p0, p1))
<1> DEFINE R == CpRound!Result(M.c, CellOrder, s, d, p0, p1)
           N == SeqCp(M, s, d, p0, p1)
<1>1. Good(M.c)
  BY DEF Sound
<1>2. Holds(R, AfterCp(M.c, s, d, p0, p1))
  BY <1>1, CpEach
<1>3. N = [M EXCEPT !.c = R]
  BY DEF SeqCp, EachCell, Loop, CpRound!Result
<1> HIDE DEF R
<1>4. Good(R)
  BY <1>2 DEF Holds
<1>5. N = [c |-> R, h |-> M.h, d |-> M.d]
  BY <1>3, <1>4, SoundWith
<1> HIDE DEF N
<1>6. Sound(N)
  BY <1>4, <1>5, SoundWith, SoundIs
<1> QED
  BY <1>2, <1>5, <1>6 DEF N

LEMMA SeqAddDone ==
  ASSUME NEW M, Sound(M), NEW s \in Seqs, NEW p0, NEW p1, NEW d \in Int,
         \A i \in Cell : Belongs(M.c, i, s, p0, p1) => M.c.pos[i] + d <= MaxPos
  PROVE  LET N == SeqAdd(M, s, p0, p1, d) IN
         Sound(N) /\ N.d = M.d /\ Holds(N.c, AfterAdd(M.c, s, p0, p1, d))
<1> DEFINE R == AddRound!Result(M.c, CellOrder, s, p0, p1, d)
           N == SeqAdd(M, s, p0, p1, d)
           g == IF Freed(M.c, R) = {} THEN 0 ELSE Min(Freed(M.c, R))
<1>1. Good(M.c)
  BY DEF Sound
<1>2. Holds(R, AfterAdd(M.c, s, p0, p1, d))
  BY <1>1, AddEach
<1>3. N = [M EXCEPT !.c = R, !.h = g]
  BY DEF SeqAdd, EachCell, Loop, AddRound!Result
<1> HIDE DEF R
<1>4. Good(R) /\ g \in 0 .. NCells
  <2>1. 0 \in 0 .. NCells
    BY PosTyped
  <2>2. Freed(M.c, R) # {} => Min(Freed(M.c, R)) \in 0 .. NCells
    BY <2>1, HeadBackTyped
  <2> QED
    BY <1>2, <2>1, <2>2 DEF Holds
<1> HIDE DEF g
<1>5. N = [c |-> R, h |-> g, d |-> M.d]
  BY <1>3, <1>4, SoundWith
<1> HIDE DEF N
<1>6. Sound(N)
  BY <1>4, <1>5, SoundWith, SoundIs
<1> QED
  BY <1>2, <1>5, <1>6 DEF N

LEMMA SeqDivDone ==
  ASSUME NEW M, Sound(M), NEW s \in Seqs, NEW p0, NEW p1, NEW d \in Nat \ {0}
  PROVE  LET N == SeqDiv(M, s, p0, p1, d) IN
         Sound(N) /\ N.d = M.d /\ Holds(N.c, AfterDiv(M.c, s, p0, p1, d))
<1> DEFINE R == DivRound!Result(M.c, CellOrder, s, p0, p1, d)
           N == SeqDiv(M, s, p0, p1, d)
<1>1. Good(M.c)
  BY DEF Sound
<1>2. Holds(R, AfterDiv(M.c, s, p0, p1, d))
  BY <1>1, DivEach
<1>3. N = [M EXCEPT !.c = R]
  BY DEF SeqDiv, EachCell, Loop, DivRound!Result
<1> HIDE DEF R
<1>4. Good(R)
  BY <1>2 DEF Holds
<1>5. N = [c |-> R, h |-> M.h, d |-> M.d]
  BY <1>3, <1>4, SoundWith
<1> HIDE DEF N
<1>6. Sound(N)
  BY <1>4, <1>5, SoundWith, SoundIs
<1> QED
  BY <1>2, <1>5, <1>6 DEF N

-----------------------------------------------------------------------------
(* Defragmentation: which cell goes where, and what becomes of the cells.  *)

\* The moves of ids: tokens to empty cells below i0, no two to the same.
IdsOK(C, ids, i0) ==
    LET n_kv == UsedMaxP1(C)
        Goes(i) == ids[i] # n_kv /\ ids[i] # i
    IN /\ ids \in [0 .. n_kv - 1 -> Nat]
       /\ \A i \in 0 .. n_kv - 1 :
            Goes(i) => /\ ~IsEmpty(C, i) /\ ids[i] \in Cell /\ IsEmpty(C, ids[i])
                       /\ ids[i] < i0
       /\ \A i, j \in 0 .. n_kv - 1 : Goes(i) /\ Goes(j) /\ ids[i] = ids[j] => i = j

LEMMA UsedTyped ==
  ASSUME NEW C, Good(C)
  PROVE  /\ UsedMaxP1(C) \in 0 .. NCells /\ Cardinality(C.used) \in 0 .. NCells
         /\ 0 .. UsedMaxP1(C) - 1 \subseteq Cell
         /\ IsFiniteSet(0 .. UsedMaxP1(C) - 1) /\ Cardinality(0 .. UsedMaxP1(C) - 1) = UsedMaxP1(C)
<1>1. C.used \subseteq Cell /\ Cell = 0 .. NCells - 1 /\ NCells \in Nat \ {0}
  BY PosTyped DEF Good, WellTyped, CellsType, Cell
<1>2. UsedMaxP1(C) \in 0 .. NCells
  <2>1. CASE C.used = {}
    BY <1>1, <2>1 DEF UsedMaxP1
  <2>2. CASE C.used # {}
    <3>1. NCells - 1 \in Nat /\ C.used \in SUBSET (0 .. NCells - 1)
      BY <1>1
    <3>2. \E m \in C.used : \A x \in C.used : x <= m
      BY <2>2, <3>1, MaxBelow
    <3>3. \E m \in C.used : \A x \in C.used : m >= x
      BY <1>1, <3>2
    <3>4. Max(C.used) \in C.used
      BY <3>3 DEF Max
    <3> QED
      BY <1>1, <2>2, <3>4 DEF UsedMaxP1
  <2> QED
    BY <2>1, <2>2
<1>3. Cardinality(C.used) \in 0 .. NCells
  <2>1. IsFiniteSet(Cell) /\ Cardinality(Cell) = NCells
    BY <1>1, FS_Interval
  <2>2. IsFiniteSet(C.used) /\ Cardinality(C.used) <= NCells
    BY <1>1, <2>1, FS_Subset
  <2>3. Cardinality(C.used) \in Nat
    BY <2>2, FS_CardinalityType
  <2> QED
    BY <1>1, <2>2, <2>3
<1> DEFINE n == UsedMaxP1(C)
<1>4. 0 .. n - 1 \subseteq Cell
  BY <1>1, <1>2
<1>5. IsFiniteSet(0 .. n - 1) /\ Cardinality(0 .. n - 1) = n
  <2>1. n \in Nat /\ 0 \in Int /\ n - 1 \in Int
    BY <1>1, <1>2
  <2> HIDE DEF n
  <2>2. IsFiniteSet(0 .. n - 1) /\ Cardinality(0 .. n - 1) = IF 0 > n - 1 THEN 0 ELSE (n - 1) - 0 + 1
    BY <2>1, FS_Interval
  <2> QED
    BY <2>1, <2>2
<1> QED
  BY <1>2, <1>3, <1>4, <1>5

\* The last h elements of a set, and how many of them are below one of them.
LastOf(L, h) == {i \in L : Cardinality({j \in L : j >= i}) <= h}

Under(T, i) == Cardinality({j \in T : j < i})

LEMMA LastOnes ==
  ASSUME NEW L, IsFiniteSet(L), L \in SUBSET Nat, NEW h \in Nat
  PROVE  /\ \A i \in LastOf(L, h) : Under(LastOf(L, h), i) \in 0 .. h - 1
         /\ \A i, k \in LastOf(L, h) : i # k => Under(LastOf(L, h), i) # Under(LastOf(L, h), k)
<1> DEFINE T == LastOf(L, h)
<1> USE DEF LastOf, Under
<1>0. T \subseteq L /\ IsFiniteSet(T) /\ T \in SUBSET Nat
  BY FS_Subset
<1>1. T # {} => Cardinality(T) <= h
  <2> SUFFICES ASSUME T # {} PROVE Cardinality(T) <= h
    OBVIOUS
  <2>1. PICK m \in T : \A j \in T : m <= j
    BY <1>0, LeastNat
  <2> DEFINE U == {j \in L : j >= m}
  <2>2. IsFiniteSet(U) /\ Cardinality(U) <= h
    BY <2>1, FS_Subset
  <2>3. T \subseteq U
    BY <1>0, <2>1
  <2>4. Cardinality(T) <= Cardinality(U)
    BY <2>2, <2>3, FS_Subset
  <2>5. Cardinality(T) \in Nat /\ Cardinality(U) \in Nat
    BY <1>0, <2>2, FS_CardinalityType
  <2> QED
    BY <2>2, <2>4, <2>5
<1>2. ASSUME NEW X \in SUBSET T, NEW y \in T, y \notin X
      PROVE  /\ Cardinality(X) \in Nat /\ Cardinality(X \union {y}) = Cardinality(X) + 1
             /\ IsFiniteSet(X \union {y})
  BY <1>0, <1>2, FS_Subset, FS_AddElement, FS_CardinalityType
<1>3. ASSUME NEW i \in T PROVE Under(T, i) \in 0 .. h - 1
  <2> DEFINE X == {j \in T : j < i}
  <2>1. X \in SUBSET T /\ i \notin X /\ X \union {i} \subseteq T
    BY <1>0
  <2>2. Cardinality(X) \in Nat /\ Cardinality(X \union {i}) = Cardinality(X) + 1
    BY <1>2, <2>1
  <2>3. Cardinality(X \union {i}) <= Cardinality(T) /\ Cardinality(T) \in Nat
    BY <1>0, <2>1, FS_Subset, FS_CardinalityType
  <2> QED
    BY <1>1, <2>2, <2>3
<1>4. ASSUME NEW i \in T, NEW k \in T, i < k
      PROVE  Under(T, i) < Under(T, k)
  <2> DEFINE X == {j \in T : j < i}
             Y == {j \in T : j < k}
  <2>1. X \in SUBSET T /\ i \notin X /\ X \union {i} \subseteq Y
    BY <1>0, <1>4
  <2>2. Cardinality(X) \in Nat /\ Cardinality(X \union {i}) = Cardinality(X) + 1
    BY <1>2, <2>1
  <2>3. IsFiniteSet(Y) /\ Cardinality(Y) \in Nat
    BY <1>0, FS_Subset, FS_CardinalityType
  <2>4. Cardinality(X \union {i}) <= Cardinality(Y)
    BY <2>1, <2>3, FS_Subset
  <2> QED
    BY <2>2, <2>3, <2>4
<1>5. ASSUME NEW i \in T, NEW k \in T, i # k
      PROVE  Under(T, i) # Under(T, k)
  <2>1. i < k \/ k < i
    BY <1>0, <1>5
  <2>2. Under(T, i) \in Int /\ Under(T, k) \in Int
    BY <1>3
  <2> HIDE DEF Under
  <2>3. CASE i < k
    <3>1. Under(T, i) < Under(T, k)
      BY <1>4, <2>3
    <3> QED
      BY <2>2, <3>1
  <2>4. CASE k < i
    <3>1. Under(T, k) < Under(T, i)
      BY <1>4, <2>4
    <3> QED
      BY <2>2, <3>1
  <2> QED
    BY <2>1, <2>3, <2>4
<1> HIDE DEF Under, LastOf
<1> QED
  BY <1>3, <1>5

\* A hole begins at an empty cell below the number of tokens.
LEMMA HoleExists ==
  ASSUME NEW C, NEW i0 \in Nat, NEW n \in Nat, i0 < n, IsEmpty(C, i0)
  PROVE  \E nh \in 1 .. n - i0 : /\ \A i \in i0 .. i0 + nh - 1 : IsEmpty(C, i)
                                 /\ i0 + nh < n => ~IsEmpty(C, i0 + nh)
<1> DEFINE T == {nh \in 1 .. n - i0 : i0 + nh < n => ~IsEmpty(C, i0 + nh)}
<1>1. T \in SUBSET Nat /\ n - i0 \in T
  OBVIOUS
<1>2. PICK m \in T : \A k \in T : m <= k
  <2> HIDE DEF T
  <2> QED
    BY <1>1, LeastNat
<1>3. ASSUME NEW i \in i0 .. i0 + m - 1 PROVE IsEmpty(C, i)
  <2>1. CASE i = i0
    BY <2>1
  <2>2. CASE i # i0
    <3>1. i - i0 \in 1 .. n - i0 /\ i - i0 < m /\ i0 + (i - i0) = i
      BY <2>2
    <3>2. i - i0 \notin T
      BY <1>1, <1>2, <3>1
    <3> QED
      BY <3>1, <3>2
  <2> QED
    BY <2>1, <2>2
<1> QED
  BY <1>2, <1>3

FillRound == INSTANCE Loops WITH Op <- LAMBDA S, k, C, x, y, z : FillStep(S, C)

\* The states of the loop of defrag_prepare.
FillOK(S, C) ==
    /\ S \in [i0 : Nat, n : Nat, ids : [0 .. UsedMaxP1(C) - 1 -> Nat]]
    /\ S.i0 <= Cardinality(C.used)
    /\ IdsOK(C, S.ids, S.i0)

\* A cell that is not empty stays where it is.
LEMMA StaysIs ==
  ASSUME NEW C, Good(C), NEW S, FillOK(S, C), S.i0 < Cardinality(C.used), ~IsEmpty(C, S.i0)
  PROVE  FillStep(S, C) = [i0 |-> S.i0 + 1, n |-> S.n, ids |-> [S.ids EXCEPT ![S.i0] = S.i0]]
<1> DEFINE a == S.i0
           b == S.n
           q == S.ids
           X == [0 .. UsedMaxP1(C) - 1 -> Nat]
<1>1. S \in [i0 : Nat, n : Nat, ids : X] /\ Cardinality(C.used) \in Nat
  BY UsedTyped, PosTyped DEF FillOK
<1>2. FillStep(S, C) = [S EXCEPT !.i0 = a + 1, !.ids[a] = a]
  BY <1>1 DEF FillStep
<1>3. S = [i0 |-> a, n |-> b, ids |-> q]
  <2> HIDE DEF X
  <2> QED
    BY <1>1
<1> HIDE DEF a, b, q
<1>4. [[i0 |-> a, n |-> b, ids |-> q] EXCEPT !.i0 = a + 1] = [i0 |-> a + 1, n |-> b, ids |-> q]
  OBVIOUS
<1>5. [[i0 |-> a + 1, n |-> b, ids |-> q] EXCEPT !.ids[a] = a] =
        [i0 |-> a + 1, n |-> b, ids |-> [q EXCEPT ![a] = a]]
  OBVIOUS
<1>6. FillStep(S, C) = [i0 |-> a + 1, n |-> b, ids |-> [q EXCEPT ![a] = a]]
  BY <1>2, <1>3, <1>4, <1>5
<1> QED
  BY <1>6 DEF a, b, q

LEMMA FillStays ==
  ASSUME NEW C, Good(C), NEW S, FillOK(S, C), S.i0 < Cardinality(C.used), ~IsEmpty(C, S.i0)
  PROVE  FillOK(FillStep(S, C), C)
<1> DEFINE i0 == S.i0
           n_kv == UsedMaxP1(C)
           new == [S.ids EXCEPT ![i0] = i0]
           Z == [i0 |-> i0 + 1, n |-> S.n, ids |-> new]
<1>1. /\ S \in [i0 : Nat, n : Nat, ids : [0 .. n_kv - 1 -> Nat]] /\ i0 \in Nat
      /\ i0 < Cardinality(C.used) /\ Cardinality(C.used) \in Nat /\ n_kv \in Nat
  BY UsedTyped, PosTyped DEF FillOK, IdsOK
<1>2. FillStep(S, C) = Z
  BY StaysIs
<1>4. new = [i \in 0 .. n_kv - 1 |-> IF i = i0 THEN i0 ELSE S.ids[i]]
  BY <1>1
<1>3. Z.i0 = i0 + 1 /\ Z.ids = new /\ Z \in [i0 : Nat, n : Nat, ids : [0 .. n_kv - 1 -> Nat]]
  <2>1. new \in [0 .. n_kv - 1 -> Nat] /\ i0 + 1 \in Nat /\ S.n \in Nat
    <3> DEFINE q == S.ids
    <3>1. q \in [0 .. n_kv - 1 -> Nat] /\ S.n \in Nat
      BY <1>1
    <3>2. new = [q EXCEPT ![i0] = i0]
      OBVIOUS
    <3> HIDE DEF q, new, i0, n_kv
    <3>3. i0 \in Nat /\ i0 + 1 \in Nat
      BY <1>1
    <3>4. new \in [0 .. n_kv - 1 -> Nat]
      BY <3>1, <3>2, <3>3
    <3> QED
      BY <3>1, <3>3, <3>4
  <2> HIDE DEF new
  <2> QED
    BY <2>1
<1>5. IdsOK(C, new, i0 + 1)
  <2>1. new \in [0 .. n_kv - 1 -> Nat]
    BY <1>1, <1>4
  <2>2. ASSUME NEW i \in 0 .. n_kv - 1, new[i] # n_kv, new[i] # i
        PROVE  new[i] = S.ids[i] /\ S.ids[i] # n_kv /\ S.ids[i] # i
    BY <1>4, <2>2
  <2> HIDE DEF new
  <2>3. ASSUME NEW i \in 0 .. n_kv - 1, new[i] # n_kv, new[i] # i
        PROVE  /\ ~IsEmpty(C, i) /\ new[i] \in Cell /\ IsEmpty(C, new[i])
               /\ new[i] < i0 + 1
    <3>1. ~IsEmpty(C, i) /\ new[i] \in Cell /\ IsEmpty(C, new[i]) /\ new[i] < i0
      BY <2>2, <2>3 DEF FillOK, IdsOK
    <3>2. new[i] \in Nat /\ i0 \in Nat
      BY <1>1, <3>1, PosTyped
    <3>3. new[i] < i0 + 1
      <4> HIDE DEF i0
      <4> QED
        BY <3>1, <3>2
    <3> QED
      BY <3>1, <3>3
  <2>4. ASSUME NEW i \in 0 .. n_kv - 1, NEW j \in 0 .. n_kv - 1, new[i] # n_kv, new[i] # i,
               new[j] # n_kv, new[j] # j, new[i] = new[j]
        PROVE  i = j
    <3>1. new[i] = S.ids[i] /\ S.ids[i] # n_kv /\ S.ids[i] # i
      BY <2>2, <2>4
    <3>2. new[j] = S.ids[j] /\ S.ids[j] # n_kv /\ S.ids[j] # j
      BY <2>2, <2>4
    <3> QED
      BY <2>4, <3>1, <3>2 DEF FillOK, IdsOK
  <2> QED
    BY <2>1, <2>3, <2>4 DEF IdsOK
<1> QED
  BY <1>1, <1>2, <1>3, <1>5 DEF FillOK

LEMMA FillMoves ==
  ASSUME NEW C, Good(C), NEW S, FillOK(S, C), S.i0 < Cardinality(C.used), IsEmpty(C, S.i0)
  PROVE  FillOK(FillStep(S, C), C)
<1> DEFINE i0 == S.i0
           ids == S.ids
           n_used == Cardinality(C.used)
           n_kv == UsedMaxP1(C)
           hole == CHOOSE nh \in 1 .. n_used - i0 :
                     /\ \A i \in i0 .. i0 + nh - 1 : IsEmpty(C, i)
                     /\ i0 + nh < n_used => ~IsEmpty(C, i0 + nh)
           left == {i \in i0 .. n_kv - 1 : ~IsEmpty(C, i) /\ ids[i] = n_kv}
           movers == {i \in left : Cardinality({j \in left : j >= i}) <= hole}
           starts == {i \in movers : i - 1 \notin movers}
           moved == {i \in movers : S.n + Cardinality({j \in starts : j <= i}) <= MaxMoves}
           moves == S.n + Cardinality(starts \intersect moved)
           new == [i \in 0 .. n_kv - 1 |->
                     IF i \in moved THEN i0 + Cardinality({j \in movers : j < i}) ELSE ids[i]]
           next == IF moves = MaxMoves THEN n_used ELSE i0 + hole
<1>1. /\ i0 \in Nat /\ i0 < n_used /\ n_used \in 0 .. NCells /\ n_used \in Nat /\ n_kv \in Nat
      /\ 0 .. n_kv - 1 \subseteq Cell /\ IsFiniteSet(0 .. n_kv - 1)
      /\ IdsOK(C, ids, i0) /\ S.n \in Nat /\ ids \in [0 .. n_kv - 1 -> Nat]
  BY UsedTyped, PosTyped DEF FillOK
<1>2. FillStep(S, C) = [i0 |-> next, n |-> moves, ids |-> new]
  BY <1>1 DEF FillStep
<1>3. \E nh \in 1 .. n_used - i0 : /\ \A i \in i0 .. i0 + nh - 1 : IsEmpty(C, i)
                                   /\ i0 + nh < n_used => ~IsEmpty(C, i0 + nh)
  BY <1>1, HoleExists
<1>4. hole \in 1 .. n_used - i0 /\ \A i \in i0 .. i0 + hole - 1 : IsEmpty(C, i)
  BY <1>3
<1> HIDE DEF hole
<1>5. hole \in Nat /\ next \in Nat /\ next <= n_used /\ i0 + hole <= next /\ i0 <= next
  BY <1>1, <1>4
<1>6. IsFiniteSet(left) /\ left \in SUBSET Nat /\ left \subseteq 0 .. n_kv - 1
  <2>1. left \subseteq 0 .. n_kv - 1
    BY <1>1
  <2> QED
    BY <1>1, <2>1, FS_Subset
<1>7. ASSUME NEW i \in movers
      PROVE  i \in 0 .. n_kv - 1 /\ ids[i] = n_kv /\ ~IsEmpty(C, i)
  BY <1>6
<1>m. moves \in Nat
  <2> DEFINE taken == starts \intersect moved
  <2>0. taken \subseteq left
    OBVIOUS
  <2> HIDE DEF taken, left
  <2>1. IsFiniteSet(taken)
    BY <1>6, <2>0, FS_Subset
  <2>2. Cardinality(taken) \in Nat
    BY <2>1, FS_CardinalityType
  <2>3. S.n + Cardinality(taken) \in Nat
    BY <1>1, <2>2
  <2> QED
    BY <2>3 DEF taken
<1> HIDE DEF left, next, starts
<1>e. movers = LastOf(left, hole)
  BY DEF LastOf
<1>a. \A i \in moved : i \in movers
  OBVIOUS
<1> HIDE DEF moved, movers, moves
<1>8. /\ \A i \in movers : Under(movers, i) \in 0 .. hole - 1
      /\ \A i, k \in movers : i # k => Under(movers, i) # Under(movers, k)
  <2>1. /\ \A i \in LastOf(left, hole) : Under(LastOf(left, hole), i) \in 0 .. hole - 1
        /\ \A i, k \in LastOf(left, hole) :
             i # k => Under(LastOf(left, hole), i) # Under(LastOf(left, hole), k)
    BY <1>5, <1>6, LastOnes
  <2> QED
    BY <1>e, <2>1
<1> DEFINE to(i) == i0 + Under(movers, i)
<1>9. ASSUME NEW i \in moved
      PROVE  /\ i \in 0 .. n_kv - 1 /\ ids[i] = n_kv /\ ~IsEmpty(C, i) /\ i \in movers
             /\ to(i) \in i0 .. i0 + hole - 1 /\ IsEmpty(C, to(i)) /\ to(i) \in Cell
             /\ to(i) < next
  <2>1. i \in movers
    BY <1>a
  <2>2. Under(movers, i) \in 0 .. hole - 1
    BY <1>8, <2>1
  <2>3. i \in 0 .. n_kv - 1 /\ ids[i] = n_kv /\ ~IsEmpty(C, i)
    BY <1>7, <2>1
  <2>4. to(i) \in i0 .. i0 + hole - 1
    BY <1>1, <1>5, <2>2
  <2> HIDE DEF to
  <2>5. IsEmpty(C, to(i))
    BY <1>4, <2>4
  <2>6. to(i) < next /\ to(i) \in Nat /\ to(i) < NCells
    <3>1. i0 \in Nat /\ n_used \in Nat /\ n_used <= NCells /\ NCells \in Nat
      BY <1>1, PosTyped
    <3> HIDE DEF i0, n_used
    <3> QED
      BY <1>5, <2>4, <3>1
  <2>7. to(i) \in Cell
    BY <2>6, PosTyped DEF Cell
  <2> QED
    BY <2>1, <2>3, <2>4, <2>5, <2>6, <2>7
<1>10. ASSUME NEW i \in moved, NEW k \in moved, to(i) = to(k) PROVE i = k
  <2>1. i \in movers /\ k \in movers
    BY <1>a
  <2>0. \A x \in 0 .. hole - 1 : x \in Nat
    BY <1>5
  <2>2. Under(movers, i) \in Nat /\ Under(movers, k) \in Nat
    BY <1>8, <2>0, <2>1
  <2>3. Under(movers, i) = Under(movers, k)
    BY <1>1, <1>10, <2>2
  <2> QED
    BY <1>8, <2>1, <2>3
<1>11. \A i \in 0 .. n_kv - 1 : new[i] = IF i \in moved THEN to(i) ELSE ids[i]
  BY DEF Under
<1>12. new \in [0 .. n_kv - 1 -> Nat]
  <2>0. \A i \in moved : to(i) \in Nat
    BY <1>9, PosTyped
  <2>1. \A i \in 0 .. n_kv - 1 : i \in moved => i0 + Under(movers, i) \in Nat
    BY <2>0
  <2>2. \A i \in 0 .. n_kv - 1 : ids[i] \in Nat
    BY <1>1
  <2>3. new = [i \in 0 .. n_kv - 1 |-> IF i \in moved THEN i0 + Under(movers, i) ELSE ids[i]]
    BY DEF Under
  <2> HIDE DEF ids, new, i0
  <2> QED
    BY <2>1, <2>2, <2>3
<1> HIDE DEF new, to
<1>13. ASSUME NEW i \in 0 .. n_kv - 1, new[i] # n_kv, new[i] # i
       PROVE  /\ ~IsEmpty(C, i) /\ new[i] \in Cell /\ IsEmpty(C, new[i]) /\ new[i] < next
              /\ i \notin moved => ids[i] # n_kv /\ ids[i] # i /\ new[i] = ids[i] /\ new[i] < i0
  <2>1. CASE i \in moved
    BY <1>9, <1>11, <2>1
  <2>2. CASE i \notin moved
    <3>1. new[i] = ids[i]
      BY <1>11, <2>2
    <3>2. ~IsEmpty(C, i) /\ ids[i] \in Cell /\ IsEmpty(C, ids[i]) /\ ids[i] < i0
      BY <1>1, <1>13, <3>1 DEF IdsOK
    <3>3. ids[i] < next
      BY <1>1, <1>5, <3>2, PosTyped
    <3> QED
      BY <1>13, <3>1, <3>2, <3>3, <2>2
  <2> QED
    BY <2>1, <2>2
<1>14. ASSUME NEW i \in 0 .. n_kv - 1, NEW j \in 0 .. n_kv - 1, new[i] # n_kv, new[i] # i,
              new[j] # n_kv, new[j] # j, new[i] = new[j]
       PROVE  i = j
  <2>1. CASE i \in moved /\ j \in moved
    BY <1>10, <1>11, <1>14, <2>1
  <2>2. CASE i \notin moved /\ j \notin moved
    <3>1. ids[i] # n_kv /\ ids[i] # i /\ ids[j] # n_kv /\ ids[j] # j /\ ids[i] = ids[j]
      BY <1>13, <1>14, <2>2
    <3> QED
      BY <1>1, <3>1 DEF IdsOK
  <2>3. CASE i \in moved /\ j \notin moved
    <3>1. new[i] = to(i) /\ to(i) >= i0 /\ new[j] < i0
      BY <1>1, <1>5, <1>9, <1>11, <1>13, <1>14, <2>3
    <3> QED
      BY <1>1, <1>9, <1>14, <2>3, <3>1, PosTyped
  <2>4. CASE i \notin moved /\ j \in moved
    <3>1. new[j] = to(j) /\ to(j) >= i0 /\ new[i] < i0
      BY <1>1, <1>5, <1>9, <1>11, <1>13, <1>14, <2>4
    <3> QED
      BY <1>1, <1>9, <1>14, <2>4, <3>1, PosTyped
  <2> QED
    BY <2>1, <2>2, <2>3, <2>4
<1>15. IdsOK(C, new, next)
  BY <1>12, <1>13, <1>14 DEF IdsOK
<1> QED
  BY <1>2, <1>5, <1>m, <1>12, <1>15 DEF FillOK


\* What defrag_prepare returns moves tokens to empty cells, each to its own.
LEMMA FillDone ==
  ASSUME NEW C, Good(C)
  PROVE  FillOK(Fill(C), C)
<1> DEFINE n == Cardinality(C.used)
           F == [i0 : Nat, n : Nat, ids : [0 .. UsedMaxP1(C) - 1 -> Nat]]
           A == [k \in 0 .. n |-> {S \in F : FillOK(S, C)}]
<1>1. n \in Nat /\ UsedMaxP1(C) \in Nat
  BY UsedTyped
<1>2. FillOK(Unfilled(C), C)
  BY <1>1 DEF Unfilled, FillOK, IdsOK
<1>3. ASSUME NEW S, FillOK(S, C) PROVE FillOK(FillStep(S, C), C)
  <2>1. CASE S.i0 < n /\ ~IsEmpty(C, S.i0)
    BY <1>3, <2>1, FillStays
  <2>2. CASE S.i0 < n /\ IsEmpty(C, S.i0)
    BY <1>3, <2>2, FillMoves
  <2>3. CASE ~(S.i0 < n)
    <3>1. S.i0 >= n
      BY <1>1, <1>3, <2>3 DEF FillOK
    <3>2. S.i0 \in Nat /\ ~(S.i0 < n)
      BY <1>3, <2>3 DEF FillOK
    <3>3. FillStep(S, C) = S
      BY <3>1, <3>2 DEF FillStep
    <3> QED
      BY <1>3, <3>3
  <2> QED
    BY <2>1, <2>2, <2>3
<1>4. \A S : FillOK(S, C) => S \in F
  BY DEF FillOK
<1>5. Fill(C) = FillRound!Result(Unfilled(C), Rounds(n), C, 0, 0, 0)
  BY DEF Fill, Loop, FillRound!Result
<1> HIDE DEF F
<1>6. FillRound!Keeps(A, Unfilled(C), Rounds(n), C, 0, 0, 0)
  <2>1. Unfilled(C) \in A[0]
    BY <1>1, <1>2, <1>4
  <2>2. \A k \in 1 .. Len(Rounds(n)) : \A S \in A[k - 1] : FillStep(S, C) \in A[k]
    <3>1. \A k \in 1 .. n : k - 1 \in 0 .. n /\ k \in 0 .. n
      BY <1>1
    <3> QED
      BY <1>1, <1>3, <1>4, <3>1, Orders
  <2> HIDE DEF A
  <2> QED
    BY <2>1, <2>2 DEF FillRound!Keeps
<1>7. Fill(C) \in A[n]
  <2> HIDE DEF A
  <2>i. FillRound!Inductive
    BY Induct DEF FillRound!Inductive
  <2> QED
    BY <1>1, <1>5, <1>6, Orders, <2>i, FillRound!Invariant
<1> QED
  BY <1>1, <1>7

\* The moves of a defragmentation: tokens to empty cells, each to its own.
Plan(C, ids) ==
    /\ \A i : Moved(ids, i) => /\ i \in Cell /\ ~IsEmpty(C, i)
                               /\ ids[i] \in Cell /\ IsEmpty(C, ids[i])
    /\ \A i, j : Moved(ids, i) /\ Moved(ids, j) /\ ids[i] = ids[j] => i = j

LEMMA PlanOK ==
  ASSUME NEW C, Good(C)
  PROVE  Plan(C, DefragPrepare(C)) /\ Plan(C, <<>>)
<1>1. Plan(C, <<>>)
  BY DEF Plan, Moved
<1>2. Plan(C, Fill(C).ids)
  <2> DEFINE ids == Fill(C).ids
             n_kv == UsedMaxP1(C)
  <2>1. IdsOK(C, ids, Fill(C).i0)
    BY FillDone DEF FillOK
  <2>2. DOMAIN ids = 0 .. n_kv - 1 /\ Cardinality(DOMAIN ids) = n_kv /\ 0 .. n_kv - 1 \subseteq Cell
    BY <2>1, UsedTyped DEF IdsOK
  <2> QED
    BY <2>1, <2>2 DEF Plan, Moved, IdsOK
<1> QED
  BY <1>1, <1>2 DEF DefragPrepare

DefragRound == INSTANCE Loops WITH Op <- LAMBDA C, i, ids, x, y, z :
                 IF Moved(ids, i) THEN Mv(C, i, ids[i]) ELSE C

\* The cells after the moves of the first k.
Moving(C, D, ids, k) ==
    /\ Good(D)
    /\ \A i \in Cell : Moved(ids, i) /\ i < k => At(D, i) = Gone /\ At(D, ids[i]) = At(C, i)
    /\ \A i \in Cell :
         /\ ~(Moved(ids, i) /\ i < k)
         /\ \A j \in Cell : Moved(ids, j) /\ j < k => ids[j] # i
         => At(D, i) = At(C, i)

LEMMA MovingNext ==
  ASSUME NEW C, Good(C), NEW ids, Plan(C, ids), NEW k \in Cell, NEW D, Moving(C, D, ids, k),
         Moved(ids, k)
  PROVE  Moving(C, Mv(D, k, ids[k]), ids, k + 1)
<1> DEFINE to == ids[k]
           E == Mv(D, k, ids[k])
<1>1. to \in Cell /\ IsEmpty(C, to) /\ ~IsEmpty(C, k) /\ Good(D) /\ to # k
  BY DEF Plan, Moving
<1>2. At(D, k) = At(C, k)
  <2>1. \A j \in Cell : Moved(ids, j) => ids[j] # k
    BY <1>1 DEF Plan
  <2>2. ~(k < k)
    BY PosTyped
  <2> QED
    BY <2>1, <2>2 DEF Moving
<1>3. At(D, to) = At(C, to) /\ ~Moved(ids, to)
  <2>1. ~Moved(ids, to)
    BY <1>1 DEF Plan
  <2>2. \A j \in Cell : Moved(ids, j) /\ j < k => ids[j] # to
    BY PosTyped DEF Plan
  <2> QED
    BY <1>1, <2>1, <2>2 DEF Moving
<1>4. ~IsEmpty(D, k) /\ IsEmpty(D, to)
  BY <1>1, <1>2, <1>3 DEF At, IsEmpty
<1>5. /\ Good(E) /\ At(E, to) = At(D, k) /\ At(E, k) = Gone
      /\ \A i \in Cell \ {k, to} : At(E, i) = At(D, i)
  <2>1. /\ Good(E) /\ E.pos[to] = D.pos[k] /\ E.seq[to] = D.seq[k] /\ E.shift[to] = D.shift[k]
        /\ E.pos[k] = -1 /\ E.seq[k] = {} /\ E.shift[k] = 0
        /\ \A i \in Cell \ {k, to} :
             E.pos[i] = D.pos[i] /\ E.seq[i] = D.seq[i] /\ E.shift[i] = D.shift[i]
    BY <1>1, <1>4, MvGood
  <2> HIDE DEF E, to
  <2> QED
    BY <2>1 DEF At, Gone
<1> HIDE DEF E
<1>6. \A i \in Cell : i < k + 1 <=> i < k \/ i = k
  BY PosTyped
<1>7. ASSUME NEW i \in Cell, Moved(ids, i), i < k + 1
      PROVE  At(E, i) = Gone /\ At(E, ids[i]) = At(C, i)
  <2>1. CASE i = k
    BY <1>2, <1>5, <2>1
  <2>2. CASE i # k
    <3>1. i < k
      BY <1>6, <1>7, <2>2
    <3>2. At(D, i) = Gone /\ At(D, ids[i]) = At(C, i)
      BY <1>7, <3>1 DEF Moving
    <3>3. i # to /\ ids[i] # to /\ ids[i] # k /\ ids[i] \in Cell
      BY <1>1, <1>3, <1>7, <2>2 DEF Plan
    <3> QED
      BY <1>5, <2>2, <3>2, <3>3
  <2> QED
    BY <2>1, <2>2
<1>8. ASSUME NEW i \in Cell, ~(Moved(ids, i) /\ i < k + 1),
             \A j \in Cell : Moved(ids, j) /\ j < k + 1 => ids[j] # i
      PROVE  At(E, i) = At(C, i)
  <2>1. i # k /\ i # to
    BY <1>6, <1>8
  <2>2. At(D, i) = At(C, i)
    BY <1>6, <1>8 DEF Moving
  <2> QED
    BY <1>5, <2>1, <2>2
<1> QED
  BY <1>5, <1>7, <1>8 DEF Moving, E

LEMMA DefragEach ==
  ASSUME NEW C, Good(C), NEW ids, Plan(C, ids)
  PROVE  Moving(C, DefragRound!Result(C, CellOrder, ids, 0, 0, 0), ids, NCells)
<1> DEFINE A == [k \in 0 .. NCells |-> {D \in CellsType : Moving(C, D, ids, k)}]
<1>1. C \in A[0]
  <2>1. \A i \in Cell : ~(i < 0)
    BY PosTyped
  <2> QED
    BY <2>1, GoodTyped, PosTyped DEF Moving
<1>2. ASSUME NEW k \in 1 .. NCells, NEW D \in A[k - 1]
      PROVE  (IF Moved(ids, CellOrder[k]) THEN Mv(D, CellOrder[k], ids[CellOrder[k]]) ELSE D) \in A[k]
  <2> DEFINE j == k - 1
  <2>1. CellOrder[k] = j /\ j \in Cell /\ j + 1 = k /\ k \in 0 .. NCells /\ j \in 0 .. NCells
    <3>1. CellOrder[k] = 0 + j /\ 0 + j \in Cell /\ j \in Nat /\ k \in 0 .. NCells /\ j \in 0 .. NCells
      BY Orders
    <3>2. 0 + j = j /\ j + 1 = k
      OBVIOUS
    <3> HIDE DEF j
    <3> QED
      BY <3>1, <3>2
  <2>2. Moving(C, D, ids, j)
    BY <2>1
  <2> HIDE DEF j
  <2>3. CASE Moved(ids, j)
    <3>1. Moving(C, Mv(D, j, ids[j]), ids, k)
      BY <2>1, <2>2, <2>3, MovingNext
    <3>2. Mv(D, j, ids[j]) \in CellsType
      BY <3>1, GoodTyped DEF Moving
    <3> QED
      BY <2>1, <2>3, <3>1, <3>2
  <2>4. CASE ~Moved(ids, j)
    <3>1. \A i \in Cell : Moved(ids, i) => (i < k <=> i < j)
      BY <2>1, <2>4, PosTyped
    <3>2. Moving(C, D, ids, k)
      BY <2>2, <3>1 DEF Moving
    <3>3. D \in CellsType
      BY <2>2, GoodTyped DEF Moving
    <3> QED
      BY <2>1, <2>4, <3>2, <3>3
  <2> QED
    BY <2>3, <2>4
<1>3. DefragRound!Result(C, CellOrder, ids, 0, 0, 0) \in A[NCells]
  <2> HIDE DEF A
  <2>1. DefragRound!Keeps(A, C, CellOrder, ids, 0, 0, 0)
    BY <1>1, <1>2, Orders DEF DefragRound!Keeps
  <2>i. DefragRound!Inductive
    BY Induct DEF DefragRound!Inductive
  <2> QED
    BY <2>1, Orders, <2>i, DefragRound!Invariant
<1> QED
  BY <1>3, Orders

\* A defragmentation moves what a cell holds and its row together.
LEMMA DefragDone ==
  ASSUME NEW M, Sound(M), NEW ids, Plan(M.c, ids)
  PROVE  LET N == Defrag(M, ids) IN
         /\ Sound(N)
         /\ \A i \in Cell : Moved(ids, i) => /\ At(N.c, i) = Gone /\ At(N.c, ids[i]) = At(M.c, i)
                                             /\ N.d[ids[i]] = M.d[i]
         /\ \A i \in Cell : ~Moved(ids, i) /\ (\A j \in Cell : Moved(ids, j) => ids[j] # i)
                            => At(N.c, i) = At(M.c, i) /\ N.d[i] = M.d[i]
<1> DEFINE R == DefragRound!Result(M.c, CellOrder, ids, 0, 0, 0)
           d == [k \in Cell |-> IF \E i \in Cell : Moved(ids, i) /\ ids[i] = k
                                THEN M.d[CHOOSE i \in Cell : Moved(ids, i) /\ ids[i] = k]
                                ELSE M.d[k]]
           N == Defrag(M, ids)
<1>1. Good(M.c) /\ M.d \in [Cell -> Row] /\ 0 \in 0 .. NCells
  BY PosTyped DEF Sound, Caches
<1>2. Moving(M.c, R, ids, NCells)
  BY <1>1, DefragEach
<1>3. N = [M EXCEPT !.c = R, !.h = 0, !.d = d]
  BY DEF Defrag, EachCell, Loop, DefragRound!Result
<1> HIDE DEF R
<1>4. d \in [Cell -> Row]
  BY <1>1
<1>5. ASSUME NEW i \in Cell, Moved(ids, i) PROVE d[ids[i]] = M.d[i]
  <2>1. ids[i] \in Cell /\ \A j \in Cell : Moved(ids, j) /\ ids[j] = ids[i] => j = i
    BY <1>5 DEF Plan
  <2> QED
    BY <1>5, <2>1
<1>6. ASSUME NEW i \in Cell, \A j \in Cell : Moved(ids, j) => ids[j] # i PROVE d[i] = M.d[i]
  BY <1>6
<1> HIDE DEF d
<1>7. N = [c |-> R, h |-> 0, d |-> d]
  <2>1. \A C, h, x : [M EXCEPT !.c = C, !.h = h, !.d = x] = [c |-> C, h |-> h, d |-> x]
    BY SoundWith
  <2>2. [M EXCEPT !.c = R, !.h = 0, !.d = d] = [c |-> R, h |-> 0, d |-> d]
    BY <2>1
  <2> QED
    BY <1>3, <2>2
<1> HIDE DEF N
<1>8. Sound(N)
  BY <1>1, <1>2, <1>4, <1>7, SoundIs DEF Moving
<1>9. \A i \in Cell : i < NCells
  BY PosTyped DEF Cell
<1> QED
  BY <1>2, <1>5, <1>6, <1>7, <1>8, <1>9 DEF Moving, N

\* A K-shift applies what is pending and touches nothing else.
LEMMA KShiftDone ==
  ASSUME NEW M, Sound(M)
  PROVE  LET N == KShift(M) IN
         /\ Sound(N) /\ N.c.pos = M.c.pos /\ N.c.seq = M.c.seq /\ N.c.shift = [i \in Cell |-> 0]
         /\ \A i \in Cell : N.d[i].tok = M.d[i].tok
         /\ \A i \in Cell : ~IsEmpty(M.c, i) => N.d[i].rope = M.d[i].rope + M.c.shift[i]
<1> DEFINE R == ResetShift(M.c)
           d == [i \in Cell |-> IF IsEmpty(M.c, i) THEN M.d[i]
                                ELSE [tok |-> M.d[i].tok, rope |-> M.d[i].rope + M.c.shift[i]]]
           N == KShift(M)
<1>1. Good(M.c) /\ M.d \in [Cell -> Row] /\ M.h \in 0 .. NCells
  BY DEF Sound, Caches
<1>2. /\ Good(R) /\ R.pos = M.c.pos /\ R.seq = M.c.seq /\ R.shift = [i \in Cell |-> 0]
  BY <1>1, ResetShiftGood
<1>3. N = [M EXCEPT !.c = R, !.d = d]
  BY DEF KShift
<1> HIDE DEF R
<1>4. ASSUME NEW i \in Cell
      PROVE  /\ d[i] \in Row /\ d[i].tok = M.d[i].tok
             /\ ~IsEmpty(M.c, i) => d[i].rope = M.d[i].rope + M.c.shift[i]
  <2>1. M.d[i] \in Row /\ M.c.shift[i] \in Int
    BY <1>1, GoodTyped
  <2>2. d[i] = IF IsEmpty(M.c, i) THEN M.d[i] ELSE [tok |-> M.d[i].tok, rope |-> M.d[i].rope + M.c.shift[i]]
    OBVIOUS
  <2> QED
    BY <2>1, <2>2 DEF Row
<1>5. d \in [Cell -> Row]
  BY <1>4
<1> HIDE DEF d
<1>6. N = [c |-> R, h |-> M.h, d |-> d]
  BY <1>2, <1>3, <1>5, SoundWith
<1> HIDE DEF N
<1>7. Sound(N)
  BY <1>1, <1>2, <1>5, <1>6, SoundIs
<1> QED
  BY <1>2, <1>4, <1>6, <1>7 DEF N

-----------------------------------------------------------------------------
(* What shifts and defragmentation keep.                                   *)

\* KeysRotated and Entries in the middle of an operation.
Rotated(M) == \A i \in Cell : ~IsEmpty(M.c, i) => M.d[i].rope + M.c.shift[i] = M.c.pos[i]
EntryAt(M, i) == [pos |-> M.c.pos[i], seqs |-> M.c.seq[i], tok |-> M.d[i].tok]
EntriesOf(M) == {EntryAt(M, i) : i \in {j \in Cell : ~IsEmpty(M.c, j)}}
Unshifted(M) == \A i \in Cell : M.c.shift[i] = 0

LEMMA DefragKept ==
  ASSUME NEW M, Sound(M), NEW ids, Plan(M.c, ids)
  PROVE  LET N == Defrag(M, ids) IN
         /\ Sound(N)
         /\ Rotated(M) => Rotated(N)
         /\ EntriesOf(N) = EntriesOf(M)
         /\ Unshifted(M) => Unshifted(N)
<1> DEFINE N == Defrag(M, ids)
<1>1. /\ Sound(N)
      /\ \A i \in Cell : Moved(ids, i) => /\ At(N.c, i) = Gone /\ At(N.c, ids[i]) = At(M.c, i)
                                          /\ N.d[ids[i]] = M.d[i]
      /\ \A i \in Cell : ~Moved(ids, i) /\ (\A j \in Cell : Moved(ids, j) => ids[j] # i)
                         => At(N.c, i) = At(M.c, i) /\ N.d[i] = M.d[i]
  BY DefragDone
<1> HIDE DEF N
\* A cell that is not empty after it has the token of one before it.
<1>2. ASSUME NEW i \in Cell, ~IsEmpty(N.c, i)
      PROVE  \E j \in Cell : At(N.c, i) = At(M.c, j) /\ N.d[i] = M.d[j]
  <2>1. ~Moved(ids, i)
    BY <1>1, <1>2 DEF At, Gone, IsEmpty
  <2>2. CASE \E j \in Cell : Moved(ids, j) /\ ids[j] = i
    BY <1>1, <2>2
  <2>3. CASE \A j \in Cell : Moved(ids, j) => ids[j] # i
    BY <1>1, <2>1, <2>3
  <2> QED
    BY <2>2, <2>3
<1>3. ASSUME NEW i \in Cell, ~IsEmpty(M.c, i)
      PROVE  \E j \in Cell : At(N.c, j) = At(M.c, i) /\ N.d[j] = M.d[i]
  <2>1. \A j \in Cell : Moved(ids, j) => ids[j] # i
    BY <1>3 DEF Plan
  <2>2. CASE Moved(ids, i)
    BY <1>1, <2>2 DEF Plan
  <2>3. CASE ~Moved(ids, i)
    BY <1>1, <2>1, <2>3
  <2> QED
    BY <2>2, <2>3
<1>4. Rotated(M) => Rotated(N)
  BY <1>2 DEF Rotated, At, IsEmpty
<1>5. EntriesOf(N) \subseteq EntriesOf(M)
  <2> SUFFICES ASSUME NEW i \in Cell, ~IsEmpty(N.c, i) PROVE EntryAt(N, i) \in EntriesOf(M)
    BY DEF EntriesOf
  <2>1. PICK j \in Cell : At(N.c, i) = At(M.c, j) /\ N.d[i] = M.d[j]
    BY <1>2
  <2>2. EntryAt(N, i) = EntryAt(M, j) /\ ~IsEmpty(M.c, j)
    BY <2>1 DEF EntryAt, At, IsEmpty
  <2> QED
    BY <2>2 DEF EntriesOf
<1>6. EntriesOf(M) \subseteq EntriesOf(N)
  <2> SUFFICES ASSUME NEW i \in Cell, ~IsEmpty(M.c, i) PROVE EntryAt(M, i) \in EntriesOf(N)
    BY DEF EntriesOf
  <2>1. PICK j \in Cell : At(N.c, j) = At(M.c, i) /\ N.d[j] = M.d[i]
    BY <1>3
  <2>2. EntryAt(M, i) = EntryAt(N, j) /\ ~IsEmpty(N.c, j)
    BY <2>1 DEF EntryAt, At, IsEmpty
  <2> QED
    BY <2>2 DEF EntriesOf
<1>7. Unshifted(M) => Unshifted(N)
  <2> SUFFICES ASSUME Unshifted(M), NEW i \in Cell PROVE N.c.shift[i] = 0
    BY DEF Unshifted
  <2>1. CASE IsEmpty(N.c, i)
    BY <1>1, <2>1, GoodTyped DEF Sound
  <2>2. CASE ~IsEmpty(N.c, i)
    BY <1>2, <2>2 DEF At, Unshifted
  <2> QED
    BY <2>1, <2>2
<1> QED
  BY <1>1, <1>4, <1>5, <1>6, <1>7 DEF N

LEMMA KShiftKept ==
  ASSUME NEW M, Sound(M)
  PROVE  LET N == KShift(M) IN
         /\ Sound(N)
         /\ Rotated(M) => Rotated(N)
         /\ EntriesOf(N) = EntriesOf(M)
         /\ Unshifted(N)
         /\ \A i \in Cell : IsEmpty(N.c, i) = IsEmpty(M.c, i)
<1> DEFINE N == KShift(M)
<1>1. /\ Sound(N) /\ N.c.pos = M.c.pos /\ N.c.seq = M.c.seq /\ N.c.shift = [i \in Cell |-> 0]
      /\ \A i \in Cell : N.d[i].tok = M.d[i].tok
      /\ \A i \in Cell : ~IsEmpty(M.c, i) => N.d[i].rope = M.d[i].rope + M.c.shift[i]
  BY KShiftDone
<1> HIDE DEF N
<1>2. \A i \in Cell : IsEmpty(N.c, i) = IsEmpty(M.c, i) /\ EntryAt(N, i) = EntryAt(M, i)
  BY <1>1 DEF IsEmpty, EntryAt
<1>3. EntriesOf(N) = EntriesOf(M)
  BY <1>2 DEF EntriesOf
<1>4. Unshifted(N)
  BY <1>1 DEF Unshifted
<1>5. Rotated(M) => Rotated(N)
  <2> SUFFICES ASSUME Rotated(M), NEW i \in Cell, ~IsEmpty(N.c, i)
               PROVE  N.d[i].rope + N.c.shift[i] = N.c.pos[i]
    BY DEF Rotated
  <2>1. N.d[i].rope = N.c.pos[i] /\ N.c.shift[i] = 0
    BY <1>1, <1>2 DEF Rotated
  <2>2. N.c.pos[i] \in Int
    BY <1>1, GoodTyped DEF Sound
  <2> QED
    BY <2>1, <2>2
<1> QED
  BY <1>1, <1>2, <1>3, <1>4, <1>5 DEF N

\* kv_self_update, whatever it does and whichever of its graphs fails.
LEMMA UpdateDone ==
  ASSUME NEW M, Sound(M), NEW optimize \in BOOLEAN, NEW u \in Update(M, optimize)
  PROVE  /\ Sound(u.m)
         /\ ("defrag" \notin MayFail /\ Rotated(M)) => Rotated(u.m)
         /\ "defrag" \notin MayFail => EntriesOf(u.m) = EntriesOf(M)
         /\ "shift" \notin MayFail => Unshifted(u.m)
<1> DEFINE ids == IF optimize THEN DefragPrepare(M.c) ELSE <<>>
           did == M.c.has_shift \/ ids # <<>>
           Shifted == IF ~M.c.has_shift THEN M ELSE KShift(M)
           Done == IF ids = <<>> THEN Shifted ELSE Defrag(Shifted, ids)
<1>1. Good(M.c)
  BY DEF Sound
<1>2. Plan(M.c, ids)
  BY <1>1, PlanOK
<1>3. \/ u = [m |-> Done, did |-> did]
      \/ "shift" \in MayFail /\ u = [m |-> M, did |-> did]
      \/ "defrag" \in MayFail /\ u = [m |-> [Done EXCEPT !.d = Shifted.d], did |-> did]
  BY DEF Update
<1> HIDE DEF ids, did
<1>4. /\ Sound(Shifted)
      /\ Rotated(M) => Rotated(Shifted)
      /\ EntriesOf(Shifted) = EntriesOf(M)
      /\ Unshifted(Shifted)
      /\ \A i \in Cell : IsEmpty(Shifted.c, i) = IsEmpty(M.c, i)
  <2>1. CASE M.c.has_shift
    BY <2>1, KShiftKept
  <2>2. CASE ~M.c.has_shift
    <3>1. Unshifted(M)
      BY <1>1, <2>2 DEF Good, ShiftOK, Unshifted
    <3> QED
      BY <2>2, <3>1
  <2> QED
    BY <2>1, <2>2
<1> HIDE DEF Shifted
<1>5. Plan(Shifted.c, ids)
  BY <1>2, <1>4 DEF Plan
<1>6. /\ Sound(Done)
      /\ Rotated(M) => Rotated(Done)
      /\ EntriesOf(Done) = EntriesOf(M)
      /\ Unshifted(Done)
  BY <1>4, <1>5, DefragKept
<1> HIDE DEF Done
<1>7. Sound([Done EXCEPT !.d = Shifted.d])
  <2>1. Shifted.d \in [Cell -> Row]
    BY <1>4 DEF Sound, Caches
  <2>2. [Done EXCEPT !.d = Shifted.d] = [c |-> Done.c, h |-> Done.h, d |-> Shifted.d]
    <3>1. Sound(Done)
      BY <1>6
    <3>2. \A d : [Done EXCEPT !.d = d] = [c |-> Done.c, h |-> Done.h, d |-> d]
      BY <3>1, SoundWith
    <3> QED
      BY <3>2
  <2>3. Done.h \in 0 .. NCells /\ Good(Done.c)
    BY <1>6, SoundWith
  <2> QED
    BY <2>1, <2>2, <2>3, SoundIs
<1>8. CASE u = [m |-> Done, did |-> did]
  BY <1>6, <1>8
<1>9. CASE "shift" \in MayFail /\ u = [m |-> M, did |-> did]
  BY <1>9
<1>10. CASE "defrag" \in MayFail /\ u = [m |-> [Done EXCEPT !.d = Shifted.d], did |-> did]
  <2>1. u.m = [c |-> Done.c, h |-> Done.h, d |-> Shifted.d]
    BY <1>6, <1>10, SoundWith
  <2>2. Unshifted(u.m)
    BY <1>6, <2>1 DEF Unshifted
  <2>3. Sound(u.m)
    BY <1>7, <1>10
  <2> QED
    BY <1>10, <2>2, <2>3
<1> QED
  BY <1>3, <1>8, <1>9, <1>10

-----------------------------------------------------------------------------
(* find_slot.                                                              *)

SearchRound == INSTANCE Loops WITH Op <- LAMBDA r, k, C, n, x, y : SearchStep(r, C, n)

\* n cells in a row that can be used, and no such row that begins in S.
Slot(C, n, h) == h \in 0 .. NCells - n /\ \A i \in 0 .. n - 1 : CanUse(C, h + i)
NoSlot(C, n, S) == \A h \in S : ~Slot(C, n, h)

\* The state of the search after k rounds from h0: it goes up from h0, then
\* from 0 to h0, and perhaps begins at 0 once more; what it has passed is no slot.
Up(C, n, h0, k, r) ==
    /\ r.h = h0 + r.tested /\ (k = 0 \/ r.tested < NCells) /\ k <= r.tested
    /\ r.h <= NCells
    /\ NoSlot(C, n, h0 .. r.h - 1)
Around(C, n, h0, k, r) ==
    /\ r.tested = NCells - h0 + r.h /\ (r.h = 0 \/ r.tested < NCells) /\ k <= r.tested + 1
    /\ NoSlot(C, n, h0 .. NCells - n) /\ NoSlot(C, n, 0 .. r.h - 1)
Again(C, n, k, r) == r.h = 0 /\ r.tested >= NCells /\ k <= NCells + 1 /\ NoSlot(C, n, 0 .. NCells - n)
Searching(C, n, h0, k, r) == Up(C, n, h0, k, r) \/ Around(C, n, h0, k, r) \/ Again(C, n, k, r)
Finished(C, n, r) == IF r.h = -1 THEN NoSlot(C, n, 0 .. NCells - n) ELSE Slot(C, n, r.h)

Searches == [h : 0 .. NCells \union {-1}, tested : Nat, done : BOOLEAN]
SearchOK(C, n, h0, k, r) ==
    /\ r \in Searches
    /\ r.done => Finished(C, n, r)
    /\ ~r.done => r.h # -1 /\ Searching(C, n, h0, k, r)

\* The next start is behind the first cell that cannot be used.
LEMMA BadSkips ==
  ASSUME NEW C, NEW n \in 0 .. NCells, NEW h \in 0 .. NCells - n,
         NEW bad, bad = {i \in 0 .. n - 1 : ~CanUse(C, h + i)}, bad # {}
  PROVE  Min(bad) \in 0 .. n - 1 /\ NoSlot(C, n, h .. h + Min(bad))
<1>0. n \in Nat /\ NCells \in Nat /\ n <= NCells /\ h \in Nat /\ h + n <= NCells
  BY PosTyped
<1>1. bad \in SUBSET Nat /\ bad \subseteq 0 .. n - 1
  BY <1>0
<1>2. Min(bad) \in bad
  BY <1>1, MinNat
<1> DEFINE b == Min(bad)
<1>3. b \in 0 .. n - 1 /\ ~CanUse(C, h + b)
  BY <1>2
<1> HIDE DEF b
<1>4. ASSUME NEW x \in h .. h + b, Slot(C, n, x) PROVE FALSE
  <2>1. x \in Int /\ h + b - x \in 0 .. n - 1 /\ x + (h + b - x) = h + b
    BY <1>0, <1>3
  <2>2. CanUse(C, x + (h + b - x))
    BY <1>4, <2>1 DEF Slot
  <2> QED
    BY <1>3, <2>1, <2>2
<1> QED
  BY <1>3, <1>4 DEF b, NoSlot

\* What a round does.
LEMMA SearchStepIs ==
  ASSUME NEW C, NEW n \in 0 .. NCells, NEW r \in Searches, r.done \/ r.h # -1
  PROVE  LET bad == {i \in 0 .. n - 1 : ~CanUse(C, r.h + i)}
             k == Min(bad) + 1
             N == SearchStep(r, C, n) IN
         /\ r.done => N = r
         /\ (~r.done /\ r.h + n > NCells) =>
              N = [h |-> 0, tested |-> r.tested + NCells - r.h, done |-> FALSE]
         /\ (~r.done /\ r.h + n <= NCells /\ bad = {}) =>
              N = [h |-> r.h, tested |-> r.tested, done |-> TRUE]
         /\ (~r.done /\ r.h + n <= NCells /\ bad # {} /\ r.tested + k >= NCells) =>
              N = [h |-> -1, tested |-> r.tested, done |-> TRUE]
         /\ (~r.done /\ r.h + n <= NCells /\ bad # {} /\ ~(r.tested + k >= NCells)) =>
              N = [h |-> r.h + k, tested |-> r.tested + k, done |-> FALSE]
<1> DEFINE bad == {i \in 0 .. n - 1 : ~CanUse(C, r.h + i)}
           k == Min(bad) + 1
           N == SearchStep(r, C, n)
           a == r.h
           t == r.tested
           e == r.done
<1>1. r = [h |-> a, tested |-> t, done |-> e] /\ e \in BOOLEAN /\ a \in Int /\ t \in Nat
  BY PosTyped DEF Searches
<1>2. N = CASE e -> r
            [] ~e /\ a + n > NCells -> [h |-> 0, tested |-> t + NCells - a, done |-> FALSE]
            [] ~e /\ a + n <= NCells /\ bad = {} -> [r EXCEPT !.done = TRUE]
            [] OTHER -> IF t + k >= NCells THEN [r EXCEPT !.h = -1, !.done = TRUE]
                        ELSE [h |-> a + k, tested |-> t + k, done |-> FALSE]
  BY DEF SearchStep
<1> HIDE DEF a, t, e, bad, k, N
<1>x. \A x, y, z, w : /\ [[h |-> x, tested |-> y, done |-> z] EXCEPT !.done = w] = [h |-> x, tested |-> y, done |-> w]
                     /\ [[h |-> x, tested |-> y, done |-> z] EXCEPT !.h = w] = [h |-> w, tested |-> y, done |-> z]
  OBVIOUS
<1> DEFINE yes == TRUE
           none == -1
<1>y. yes = TRUE /\ none = -1
  OBVIOUS
<1> HIDE DEF yes, none
<1>3. [r EXCEPT !.done = TRUE] = [h |-> a, tested |-> t, done |-> TRUE]
  <2>1. [[h |-> a, tested |-> t, done |-> e] EXCEPT !.done = yes] = [h |-> a, tested |-> t, done |-> yes]
    BY <1>x
  <2> QED
    BY <1>1, <1>y, <2>1, Zenon
<1>4. [r EXCEPT !.h = -1, !.done = TRUE] = [h |-> -1, tested |-> t, done |-> TRUE]
  <2>1. [[h |-> a, tested |-> t, done |-> e] EXCEPT !.h = none] = [h |-> none, tested |-> t, done |-> e]
    BY <1>x
  <2>2. [[h |-> none, tested |-> t, done |-> e] EXCEPT !.done = yes] = [h |-> none, tested |-> t, done |-> yes]
    BY <1>x
  <2> QED
    BY <1>1, <1>y, <2>1, <2>2, Zenon
<1>5. a + n > NCells <=> ~(a + n <= NCells)
  BY <1>1, PosTyped
<1>6. e => N = r
  BY <1>2
<1>7. (~e /\ a + n > NCells) => N = [h |-> 0, tested |-> t + NCells - a, done |-> FALSE]
  BY <1>2, <1>5
<1>8. (~e /\ a + n <= NCells /\ bad = {}) => N = [h |-> a, tested |-> t, done |-> TRUE]
  BY <1>2, <1>3, <1>5
<1>9. (~e /\ a + n <= NCells /\ bad # {}) =>
        N = IF t + k >= NCells THEN [r EXCEPT !.h = -1, !.done = TRUE]
            ELSE [h |-> a + k, tested |-> t + k, done |-> FALSE]
  BY <1>2, <1>5
<1> QED
  BY <1>4, <1>6, <1>7, <1>8, <1>9 DEF a, t, e, bad, k, N

LEMMA SearchKept ==
  ASSUME NEW C, NEW n \in 0 .. NCells, NEW h0 \in 0 .. NCells, NEW m \in Nat, NEW r,
         SearchOK(C, n, h0, m, r)
  PROVE  SearchOK(C, n, h0, m + 1, SearchStep(r, C, n))
<1> DEFINE bad == {i \in 0 .. n - 1 : ~CanUse(C, r.h + i)}
           b == Min(bad)
           N == SearchStep(r, C, n)
           a == r.h
           t == r.tested
<1>1. r \in Searches /\ (r.done \/ r.h # -1)
  BY DEF SearchOK
<1>2. /\ r.done => N = r
      /\ (~r.done /\ a + n > NCells) =>
           N = [h |-> 0, tested |-> t + NCells - a, done |-> FALSE]
      /\ (~r.done /\ a + n <= NCells /\ bad = {}) =>
           N = [h |-> a, tested |-> t, done |-> TRUE]
      /\ (~r.done /\ a + n <= NCells /\ bad # {} /\ t + (b + 1) >= NCells) =>
           N = [h |-> -1, tested |-> t, done |-> TRUE]
      /\ (~r.done /\ a + n <= NCells /\ bad # {} /\ ~(t + (b + 1) >= NCells)) =>
           N = [h |-> a + (b + 1), tested |-> t + (b + 1), done |-> FALSE]
  BY <1>1, SearchStepIs
<1> HIDE DEF N
<1>3. CASE r.done
  <2>1. N = r
    BY <1>2, <1>3
  <2> QED
    BY <1>3, <2>1 DEF SearchOK, N
<1>4. CASE ~r.done
  <2> DEFINE V == 0 .. NCells - n
  <2>1. Searching(C, n, h0, m, r) /\ a # -1 /\ t \in Nat /\ a \in 0 .. NCells
    BY <1>1, <1>4 DEF SearchOK, Searches
  <2>2. n \in Nat /\ NCells \in Nat /\ n <= NCells /\ h0 \in Nat /\ h0 <= NCells /\ NCells >= 1
    BY PosTyped
  <2>u. Up(C, n, h0, m, r) =>
          /\ a = h0 + t /\ (m = 0 \/ t < NCells) /\ m <= t /\ NoSlot(C, n, h0 .. a - 1)
    BY DEF Up
  <2>r. Around(C, n, h0, m, r) =>
          /\ t = NCells - h0 + a /\ (a = 0 \/ t < NCells) /\ m <= t + 1
          /\ NoSlot(C, n, h0 .. NCells - n) /\ NoSlot(C, n, 0 .. a - 1)
    BY DEF Around
  <2>g. Again(C, n, m, r) => a = 0 /\ t >= NCells /\ m <= NCells + 1 /\ NoSlot(C, n, V)
    BY DEF Again
  <2>s. Up(C, n, h0, m, r) \/ Around(C, n, h0, m, r) \/ Again(C, n, m, r)
    BY <2>1 DEF Searching
  <2>3. CASE a + n > NCells
    <3>1. N = [h |-> 0, tested |-> t + NCells - a, done |-> FALSE]
      BY <1>2, <1>4, <2>3
    <3>2. t + NCells - a \in Nat
      BY <2>1, <2>2
    <3>3. N \in Searches /\ N.h = 0 /\ N.tested = t + NCells - a /\ ~N.done
      BY <2>2, <3>1, <3>2 DEF Searches
    <3> HIDE DEF a, t
    <3>4. CASE Up(C, n, h0, m, r)
      <4>1. NoSlot(C, n, h0 .. NCells - n)
        BY <2>1, <2>2, <2>3, <2>u, <3>4 DEF NoSlot
      <4>2. NoSlot(C, n, 0 .. 0 - 1)
        BY DEF NoSlot
      <4>3. t + NCells - a = NCells - h0 + 0 /\ m + 1 <= t + NCells - a + 1
        BY <2>1, <2>2, <2>u, <3>4
      <4>4. Around(C, n, h0, m + 1, N)
        BY <3>3, <4>1, <4>2, <4>3 DEF Around
      <4> QED
        BY <3>3, <4>4 DEF SearchOK, Searching, N
    <3>5. CASE Around(C, n, h0, m, r)
      <4>1. a >= 1 /\ t < NCells
        BY <2>1, <2>2, <2>3, <2>r, <3>5
      <4>2. m + 1 <= NCells + 1 /\ t + NCells - a >= NCells
        BY <2>1, <2>2, <2>r, <3>5, <4>1
      <4>3. NoSlot(C, n, 0 .. NCells - n)
        BY <2>1, <2>2, <2>3, <2>r, <3>5 DEF NoSlot
      <4>4. Again(C, n, m + 1, N)
        BY <3>3, <4>2, <4>3 DEF Again
      <4> QED
        BY <3>3, <4>4 DEF SearchOK, Searching, N
    <3>6. CASE Again(C, n, m, r)
      BY <2>1, <2>2, <2>3, <2>g, <3>6
    <3> QED
      BY <2>s, <3>4, <3>5, <3>6
  <2>4. CASE a + n <= NCells /\ bad = {}
    <3>1. N = [h |-> a, tested |-> t, done |-> TRUE]
      BY <1>2, <1>4, <2>4
    <3>2. N \in Searches /\ N.h = a /\ N.done
      BY <2>1, <3>1 DEF Searches
    <3>3. Slot(C, n, a)
      BY <2>1, <2>2, <2>4 DEF Slot
    <3>4. a # -1
      BY <2>1
    <3> HIDE DEF a
    <3>5. Finished(C, n, N)
      BY <3>2, <3>3, <3>4 DEF Finished
    <3> QED
      BY <3>2, <3>5 DEF SearchOK, N
  <2>5. CASE a + n <= NCells /\ bad # {}
    <3>1. a \in 0 .. NCells - n
      BY <2>1, <2>2, <2>5
    <3>2. b \in 0 .. n - 1 /\ NoSlot(C, n, a .. a + b)
      BY <2>5, <3>1, BadSkips
    <3>3. CASE t + (b + 1) >= NCells
      <4>1. N = [h |-> -1, tested |-> t, done |-> TRUE]
        BY <1>2, <1>4, <2>5, <3>3
      <4>2. N \in Searches /\ N.h = -1 /\ N.done
        BY <2>1, <4>1 DEF Searches
      <4> HIDE DEF a, t, b
      <4>3. ASSUME NEW x \in V PROVE ~Slot(C, n, x)
        <5>1. CASE Up(C, n, h0, m, r)
          <6>1. x \in h0 .. a - 1 \/ x \in a .. a + b
            BY <2>1, <2>2, <2>5, <2>u, <3>2, <3>3, <5>1
          <6> QED
            BY <2>u, <3>2, <5>1, <6>1 DEF NoSlot
        <5>2. CASE Around(C, n, h0, m, r)
          <6>1. x \in 0 .. a - 1 \/ x \in a .. a + b \/ x \in h0 .. NCells - n
            BY <2>1, <2>2, <2>5, <2>r, <3>2, <3>3, <5>2
          <6> QED
            BY <2>r, <3>2, <5>2, <6>1 DEF NoSlot
        <5>3. CASE Again(C, n, m, r)
          BY <2>g, <5>3 DEF NoSlot
        <5> QED
          BY <2>s, <5>1, <5>2, <5>3
      <4>4. Finished(C, n, N)
        BY <4>2, <4>3 DEF Finished, NoSlot
      <4> QED
        BY <4>2, <4>4 DEF SearchOK, N
    <3>4. CASE ~(t + (b + 1) >= NCells)
      <4>1. N = [h |-> a + (b + 1), tested |-> t + (b + 1), done |-> FALSE]
        BY <1>2, <1>4, <2>5, <3>4
      <4>2. t + (b + 1) \in Nat /\ a + (b + 1) \in 0 .. NCells /\ a + (b + 1) # -1
        <5>1. a \in Nat /\ t \in Nat /\ a + n <= NCells /\ b \in 0 .. n - 1
          BY <2>1, <2>5, <3>2
        <5> HIDE DEF a, t, b
        <5> QED
          BY <2>2, <5>1
      <4>3. N \in Searches /\ N.h = a + (b + 1) /\ N.tested = t + (b + 1) /\ ~N.done
        BY <4>1, <4>2 DEF Searches
      <4> HIDE DEF a, t, b
      <4>4. CASE Up(C, n, h0, m, r)
        <5>1. NoSlot(C, n, h0 .. (a + (b + 1)) - 1)
          <6>1. \A x \in h0 .. (a + (b + 1)) - 1 : x \in h0 .. a - 1 \/ x \in a .. a + b
            BY <2>1, <2>2, <3>2
          <6> QED
            BY <2>u, <3>2, <4>4, <6>1 DEF NoSlot
        <5>2. /\ a + (b + 1) = h0 + (t + (b + 1)) /\ t + (b + 1) < NCells /\ m + 1 <= t + (b + 1)
              /\ a + (b + 1) <= NCells
          BY <2>1, <2>2, <2>u, <3>2, <3>4, <4>2, <4>4
        <5>3. Up(C, n, h0, m + 1, N)
          BY <4>3, <5>1, <5>2 DEF Up
        <5> QED
          BY <4>2, <4>3, <5>3 DEF SearchOK, Searching, N
      <4>5. CASE Around(C, n, h0, m, r)
        <5>1. NoSlot(C, n, 0 .. (a + (b + 1)) - 1)
          <6>1. \A x \in 0 .. (a + (b + 1)) - 1 : x \in 0 .. a - 1 \/ x \in a .. a + b
            BY <2>1, <2>2, <3>2
          <6> QED
            BY <2>r, <3>2, <4>5, <6>1 DEF NoSlot
        <5>2. /\ t + (b + 1) = NCells - h0 + (a + (b + 1)) /\ t + (b + 1) < NCells
              /\ m + 1 <= t + (b + 1) + 1
          BY <2>1, <2>2, <2>r, <3>2, <3>4, <4>5
        <5>3. Around(C, n, h0, m + 1, N)
          BY <2>r, <4>3, <4>5, <5>1, <5>2 DEF Around
        <5> QED
          BY <4>2, <4>3, <5>3 DEF SearchOK, Searching, N
      <4>6. CASE Again(C, n, m, r)
        <5>1. t >= NCells /\ t \in Nat /\ b \in Nat
          BY <2>1, <2>2, <2>g, <3>2, <4>6
        <5> QED
          BY <2>2, <3>4, <5>1
      <4> QED
        BY <2>s, <4>4, <4>5, <4>6
    <3> QED
      BY <3>3, <3>4
  <2> QED
    BY <2>1, <2>2, <2>3, <2>4, <2>5
<1> QED
  BY <1>3, <1>4

\* The search ends: it reports a slot, or -1 when there is none.
LEMMA SearchDone ==
  ASSUME NEW C, NEW n \in 0 .. NCells, NEW h0 \in 0 .. NCells
  PROVE  LET f == Search(C, h0, 0, n) IN
         IF f = -1 THEN NoSlot(C, n, 0 .. NCells - n) ELSE Slot(C, n, f)
<1> DEFINE r0 == [h |-> h0, tested |-> 0, done |-> FALSE]
           L == NCells + 2
           A == [k \in 0 .. L |-> {r \in Searches : SearchOK(C, n, h0, k, r)}]
           R == SearchRound!Result(r0, Rounds(L), C, n, 0, 0)
<1>1. L \in Nat /\ NCells \in Nat /\ h0 \in Nat /\ h0 <= NCells
  BY PosTyped
<1>2. r0 \in A[0]
  <2>1. r0 \in Searches /\ r0.h = h0 /\ r0.tested = 0 /\ ~r0.done /\ h0 # -1
    BY <1>1 DEF Searches
  <2>2. NoSlot(C, n, h0 .. h0 - 1)
    BY <1>1 DEF NoSlot
  <2> HIDE DEF r0
  <2>3. Up(C, n, h0, 0, r0)
    BY <1>1, <2>1, <2>2 DEF Up
  <2>4. SearchOK(C, n, h0, 0, r0)
    BY <2>1, <2>3 DEF SearchOK, Searching
  <2>5. 0 \in 0 .. L
    BY <1>1
  <2> QED
    BY <2>1, <2>4, <2>5
<1> HIDE DEF r0
<1>3. ASSUME NEW k \in 1 .. L, NEW r \in A[k - 1]
      PROVE  SearchStep(r, C, n) \in A[k]
  <2>1. k \in 0 .. L /\ k - 1 \in 0 .. L /\ k - 1 \in Nat /\ (k - 1) + 1 = k
    BY <1>1
  <2> DEFINE m == k - 1
  <2>2. SearchOK(C, n, h0, m, r)
    BY <2>1
  <2>3. m \in Nat /\ m + 1 = k
    BY <2>1
  <2> HIDE DEF m
  <2>4. SearchOK(C, n, h0, m + 1, SearchStep(r, C, n))
    BY <2>2, <2>3, SearchKept
  <2>5. SearchStep(r, C, n) \in Searches
    BY <2>4 DEF SearchOK
  <2> QED
    BY <2>1, <2>3, <2>4, <2>5
<1>4. Len(Rounds(L)) = L /\ \A k \in 1 .. L : Rounds(L)[k] = k
  BY <1>1, Orders
<1>5. R \in A[L]
  <2> HIDE DEF A, L
  <2>1. SearchRound!Keeps(A, r0, Rounds(L), C, n, 0, 0)
    BY <1>2, <1>3, <1>4 DEF SearchRound!Keeps
  <2>i. SearchRound!Inductive
    BY Induct DEF SearchRound!Inductive
  <2> QED
    BY <1>1, <1>4, <2>1, <2>i, SearchRound!Invariant
<1>6. Search(C, h0, 0, n) = R.h
  BY DEF Search, Loop, SearchRound!Result, r0
<1> HIDE DEF R
<1>7. R \in Searches /\ SearchOK(C, n, h0, L, R)
  <2>1. L \in 0 .. L
    BY <1>1
  <2> QED
    BY <1>5, <2>1
<1>8. ASSUME ~R.done PROVE FALSE
  <2>1. Searching(C, n, h0, L, R) /\ R.tested \in Nat /\ R.h \in Int
    BY <1>1, <1>7, <1>8 DEF SearchOK, Searches
  <2>2. CASE Up(C, n, h0, L, R)
    BY <1>1, <2>1, <2>2 DEF Up
  <2>3. CASE Around(C, n, h0, L, R)
    BY <1>1, <2>1, <2>3 DEF Around
  <2>4. CASE Again(C, n, L, R)
    BY <1>1, <2>1, <2>4 DEF Again
  <2> QED
    BY <2>1, <2>2, <2>3, <2>4 DEF Searching
<1>9. Finished(C, n, R)
  BY <1>7, <1>8 DEF SearchOK
<1> QED
  BY <1>6, <1>9 DEF Finished

LEMMA FindSlotDone ==
  ASSUME NEW M, Sound(M), NEW n \in Nat
  PROVE  LET f == FindSlot(M, n) IN
         /\ (f = -1 /\ n <= NCells) => NoSlot(M.c, n, 0 .. NCells - n)
         /\ f # -1 => n <= NCells /\ Slot(M.c, n, f)
<1> DEFINE h == IF M.h > Cardinality(M.c.used) + 2 * n THEN 0 ELSE M.h
<1>1. h \in 0 .. NCells
  BY PosTyped DEF Sound, Caches
<1>2. FindSlot(M, n) = IF n > NCells THEN -1 ELSE Search(M.c, h, 0, n)
  BY DEF FindSlot
<1> HIDE DEF h
<1>3. CASE n > NCells
  BY <1>2, <1>3, PosTyped
<1>4. CASE ~(n > NCells)
  <2>1. n \in 0 .. NCells /\ n <= NCells
    BY <1>4, PosTyped
  <2> QED
    BY <1>1, <1>2, <1>4, <2>1, SearchDone
<1> QED
  BY <1>3, <1>4
-----------------------------------------------------------------------------
(* apply_ubatch.                                                           *)

SeqsRound == INSTANCE Loops WITH Op <- LAMBDA E, s, i, x, y, z : SeqAddCell(E, i, s)
PlaceRound == INSTANCE Loops WITH Op <- LAMBDA C, k, h, ub, y, z : Place(C, h + k - 1, ub[k])
PurgeRound == INSTANCE Loops WITH Op <- LAMBDA N, s, M, h, n, z : Purge(N, s, Overwritten(M, h, n, s))

\* A token of a ubatch, and a ubatch that fits behind h.
TokenOK(t) == /\ t.tok \in Tokens /\ t.pos \in Pos
              /\ t.seqs \in Seq(Seqs) /\ t.seqs # <<>> /\ IsInjective(t.seqs)
UbatchOK(ub) == Len(ub) \in Nat /\ \A k \in 1 .. Len(ub) : TokenOK(ub[k])
InSlot(h, ub, i) == h <= i /\ i < h + Len(ub)

\* What is stored for token t.
Stored(t) == [pos |-> t.pos, seq |-> Range(t.seqs), shift |-> 0]

LEMMA AssignsAgain ==
  ASSUME NEW C, NEW D, NEW E, NEW i \in Cell, NEW q, NEW S, NEW e, NEW r, NEW T, NEW f,
         Assigns(C, D, i, q, S, e), Assigns(D, E, i, r, T, f)
  PROVE  Assigns(C, E, i, r, T, f)
  BY DEF Assigns

LEMMA PlaceDone ==
  ASSUME NEW C, Good(C), NEW i \in Cell, NEW t, TokenOK(t)
  PROVE  Assigns(C, Place(C, i, t), i, t.pos, Range(t.seqs), 0)
<1> DEFINE D == IF IsEmpty(C, i) THEN C ELSE Rm(C, i)
           E == PosSet(D, i, t.pos)
           q == t.seqs
           n == Len(q)
           T(k) == {q[j] : j \in 1 .. k}
           A == [k \in 0 .. n |-> {F \in CellsType : Assigns(C, F, i, t.pos, T(k), 0)}]
           R == SeqsRound!Result(E, q, i, 0, 0, 0)
<1>1. n \in Nat /\ q \in Seq(Seqs) /\ DOMAIN q = 1 .. n /\ IsInjective(q) /\ t.pos \in Pos
  BY DEF TokenOK
<1>2. Assigns(C, E, i, t.pos, {}, 0)
  <2>1. CASE IsEmpty(C, i)
    BY <1>1, <2>1, PosSetGood
  <2>2. CASE ~IsEmpty(C, i)
    <3>1. Assigns(C, D, i, -1, {}, 0)
      BY <2>2, RmGood
    <3>2. Good(D) /\ IsEmpty(D, i)
      BY <3>1 DEF Assigns, IsEmpty
    <3> HIDE DEF D
    <3>3. Assigns(D, PosSet(D, i, t.pos), i, t.pos, {}, 0)
      BY <1>1, <3>2, PosSetGood
    <3> QED
      BY <3>1, <3>3, AssignsAgain
  <2> QED
    BY <2>1, <2>2
<1>3. Place(C, i, t) = R
  BY DEF Place, Loop, SeqsRound!Result
<1> HIDE DEF E, q, n
<1>4. E \in A[0]
  <2>1. T(0) = {} /\ 0 \in 0 .. n
    BY <1>1
  <2>2. E \in CellsType
    BY <1>2, GoodTyped DEF Assigns
  <2> QED
    BY <1>2, <2>1, <2>2
<1>5. ASSUME NEW k \in 1 .. n, NEW F \in A[k - 1]
      PROVE  SeqAddCell(F, i, q[k]) \in A[k]
  <2>1. k \in 0 .. n /\ k - 1 \in 0 .. n
    BY <1>1
  <2>2. Assigns(C, F, i, t.pos, T(k - 1), 0)
    BY <2>1
  <2>3. Good(F) /\ F.pos[i] = t.pos /\ F.seq[i] = T(k - 1) /\ F.shift[i] = 0
    BY <2>2 DEF Assigns
  <2>4. q[k] \in Seqs
    BY <1>1
  <2>5. q[k] \notin T(k - 1)
    <3>1. ASSUME NEW j \in 1 .. k - 1, q[k] = q[j] PROVE FALSE
      <4>1. j \in 1 .. n /\ k \in 1 .. n /\ j # k
        BY <1>1
      <4> QED
        BY <1>1, <3>1, <4>1 DEF IsInjective
    <3> QED
      BY <3>1
  <2>6. ~IsEmpty(F, i)
    BY <1>1, <2>3, PosTyped DEF IsEmpty
  <2>7. Assigns(F, SeqAddCell(F, i, q[k]), i, t.pos, T(k - 1) \union {q[k]}, 0)
    <3>1. Assigns(F, SeqAddCell(F, i, q[k]), i, F.pos[i], F.seq[i] \union {q[k]}, F.shift[i])
      BY <2>3, <2>4, <2>5, <2>6, SeqAddGood
    <3> QED
      BY <2>3, <3>1
  <2>8. T(k - 1) \union {q[k]} = T(k)
    <3>1. \A j \in 1 .. k : j \in 1 .. k - 1 \/ j = k
      BY <1>1
    <3>2. 1 .. k - 1 \subseteq 1 .. k /\ k \in 1 .. k
      BY <1>1
    <3> QED
      BY <3>1, <3>2
  <2> HIDE DEF T
  <2>9. Assigns(C, SeqAddCell(F, i, q[k]), i, t.pos, T(k), 0)
    <3>1. Assigns(F, SeqAddCell(F, i, q[k]), i, t.pos, T(k), 0)
      BY <2>7, <2>8
    <3> QED
      BY <2>2, <3>1 DEF Assigns
  <2>10. SeqAddCell(F, i, q[k]) \in CellsType
    BY <2>9, GoodTyped DEF Assigns
  <2> QED
    BY <2>1, <2>9, <2>10
<1>6. R \in A[n]
  <2> HIDE DEF A
  <2>1. SeqsRound!Keeps(A, E, q, i, 0, 0, 0)
    BY <1>4, <1>5 DEF SeqsRound!Keeps, n
  <2>i. SeqsRound!Inductive
    BY Induct DEF SeqsRound!Inductive
  <2> QED
    BY <1>1, <2>1, <2>i, SeqsRound!Invariant DEF n
<1>7. Assigns(C, R, i, t.pos, T(n), 0)
  <2>1. n \in 0 .. n
    BY <1>1
  <2> QED
    BY <1>6, <2>1
<1>8. T(n) = Range(q)
  BY <1>1 DEF Range
<1> HIDE DEF T, R
<1> QED
  BY <1>3, <1>7, <1>8 DEF q

AfterPlace(h, ub) == [i \in Cell |-> Stored(ub[i - h + 1])]

LEMMA PlacedDone ==
  ASSUME NEW M, Sound(M), NEW h \in Nat, NEW ub, UbatchOK(ub), h + Len(ub) <= NCells
  PROVE  LET D == Placed(M, h, ub) IN
         /\ Good(D)
         /\ \A i \in Cell : At(D, i) = IF InSlot(h, ub, i) THEN Stored(ub[i - h + 1]) ELSE At(M.c, i)
<1> DEFINE C == M.c
           W == AfterPlace(h, ub)
           n == Len(ub)
           A == [k \in 0 .. n |-> Mid(C, W, h, k)]
           R == PlaceRound!Result(C, Rounds(n), h, ub, 0, 0)
<1>1. Good(C) /\ n \in Nat /\ NCells \in Nat /\ h + n <= NCells
  BY PosTyped DEF Sound, UbatchOK
<1>2. C \in A[0]
  BY <1>1, MidStart
<1>3. ASSUME NEW k \in 1 .. n, NEW D \in A[k - 1]
      PROVE  Place(D, h + k - 1, ub[k]) \in A[k]
  <2> DEFINE j == k - 1
             i == h + k - 1
  <2>1. /\ j \in Nat /\ j + 1 = k /\ k \in 0 .. n /\ j \in 0 .. n /\ i = h + j /\ i - h + 1 = k
        /\ i \in Cell
    BY <1>1 DEF Cell
  <2>2. A[k] = Mid(C, W, h, j + 1) /\ D \in Mid(C, W, h, j)
    BY <2>1
  <2>3. W[i] = Stored(ub[k])
    BY <2>1 DEF AfterPlace
  <2> HIDE DEF i, j, A, W
  <2>4. Good(D)
    BY <2>2 DEF Mid
  <2>5. TokenOK(ub[k])
    BY DEF UbatchOK
  <2>6. Assigns(D, Place(D, i, ub[k]), i, ub[k].pos, Range(ub[k].seqs), 0)
    BY <2>1, <2>4, <2>5, PlaceDone
  <2>7. Place(D, i, ub[k]) \in Mid(C, W, h, j + 1)
    BY <2>1, <2>2, <2>3, <2>6, MidSets DEF Stored
  <2> QED
    BY <2>2, <2>7 DEF i
<1>4. Len(Rounds(n)) = n /\ \A k \in 1 .. n : Rounds(n)[k] = k
  BY <1>1, Orders
<1>5. R \in A[n]
  <2> HIDE DEF A, n
  <2>1. PlaceRound!Keeps(A, C, Rounds(n), h, ub, 0, 0)
    BY <1>2, <1>3, <1>4 DEF PlaceRound!Keeps
  <2>i. PlaceRound!Inductive
    BY Induct DEF PlaceRound!Inductive
  <2> QED
    BY <1>1, <1>4, <2>1, <2>i, PlaceRound!Invariant
<1>6. Placed(M, h, ub) = R
  BY DEF Placed, Loop, PlaceRound!Result
<1> HIDE DEF R
<1>7. R \in Mid(C, W, h, n)
  <2>1. n \in 0 .. n
    BY <1>1
  <2> QED
    BY <1>5, <2>1
<1>8. Good(R) /\ \A i \in Cell : At(R, i) = IF h <= i /\ i < h + n THEN W[i] ELSE At(C, i)
  BY <1>7 DEF Mid
<1> QED
  BY <1>6, <1>8 DEF InSlot, AfterPlace

\* What a purge leaves of a cell.
Less(C, D, i) ==
    D.pos[i] = -1 \/ (/\ D.pos[i] = C.pos[i] /\ D.shift[i] = C.shift[i]
                      /\ D.seq[i] \subseteq C.seq[i] /\ (D.seq[i] = {} => C.seq[i] = {}))

LEMMA SeqOrders ==
  /\ Len(SeqOrder) \in Nat
  /\ \A k \in 1 .. Len(SeqOrder) : SeqOrder[k] \in Seqs
<1>1. Cardinality(Seqs) \in Nat /\ Seqs = 0 .. Cardinality(Seqs) - 1
  BY CacheAssumption, FS_CardinalityType
<1>2. Len(SeqOrder) = Cardinality(Seqs)
  BY <1>1 DEF SeqOrder
<1>3. ASSUME NEW k \in 1 .. Cardinality(Seqs) PROVE SeqOrder[k] \in Seqs
  <2>1. SeqOrder[k] = k - 1 /\ k - 1 \in 0 .. Cardinality(Seqs) - 1
    BY <1>1 DEF SeqOrder
  <2> QED
    BY <1>1, <2>1
<1> QED
  BY <1>1, <1>2, <1>3

LEMMA SeqRmLess ==
  ASSUME NEW M, Sound(M), NEW s, NEW p0, NEW p1, s \in Seqs \/ (s = -1 /\ p0 \in Int)
  PROVE  LET N == SeqRm(M, s, p0, p1) IN
         Sound(N) /\ N.d = M.d /\ \A i \in Cell : Less(M.c, N.c, i)
<1> DEFINE N == SeqRm(M, s, p0, p1)
<1>1. Sound(N) /\ N.d = M.d /\ Holds(N.c, AfterRm(M.c, s, p0, p1))
  BY SeqRmDone
<1> HIDE DEF N
<1>2. ASSUME NEW i \in Cell PROVE Less(M.c, N.c, i)
  <2>1. At(N.c, i) \in {Gone, Without(M.c, i, s), At(M.c, i)}
    <3>1. At(N.c, i) = AfterRm(M.c, s, p0, p1)[i]
      BY <1>1 DEF Holds
    <3> QED
      BY <3>1 DEF AfterRm
  <2>2. CASE At(N.c, i) = Without(M.c, i, s) /\ M.c.seq[i] # {s}
    <3>1. At(N.c, i) = [pos |-> M.c.pos[i], seq |-> M.c.seq[i] \ {s}, shift |-> M.c.shift[i]]
      BY <2>2 DEF Without
    <3>2. M.c.seq[i] \ {s} = {} => M.c.seq[i] = {}
      BY <2>2
    <3> QED
      BY <3>1, <3>2 DEF Less, At
  <2>3. CASE At(N.c, i) = Gone
    BY <2>3 DEF Less, Gone, At
  <2>4. CASE At(N.c, i) = At(M.c, i)
    BY <2>4 DEF Less, At
  <2> QED
    BY <2>1, <2>2, <2>3, <2>4 DEF Without
<1> QED
  BY <1>1, <1>2 DEF N

LEMMA LessAgain ==
  ASSUME NEW C, NEW D, NEW E, NEW i \in Cell, Less(C, D, i), Less(D, E, i)
  PROVE  Less(C, E, i)
  BY DEF Less

LEMMA PurgeDone ==
  ASSUME NEW N, Sound(N), NEW s \in Seqs, NEW last
  PROVE  LET R == Purge(N, s, last) IN
         /\ Sound(R) /\ R.d = N.d /\ \A i \in Cell : Less(N.c, R.c, i)
         /\ last = -1 => R = N
<1>1. \A i \in Cell : Less(N.c, N.c, i)
  BY DEF Less
<1>2. Purge(N, s, last) = N \/ (last # -1 /\ Purge(N, s, last) = SeqRm(N, s, SeqPosMin(N.c, s), last + 1))
  BY DEF Purge
<1>3. last = -1 => Purge(N, s, last) = N
  BY DEF Purge
<1>4. CASE Purge(N, s, last) = N
  BY <1>1, <1>4
<1>5. CASE last # -1 /\ Purge(N, s, last) = SeqRm(N, s, SeqPosMin(N.c, s), last + 1)
  BY <1>5, SeqRmLess
<1> QED
  BY <1>2, <1>3, <1>4, <1>5

LEMMA SoundHead ==
  ASSUME NEW M, Sound(M), NEW h \in 0 .. NCells
  PROVE  LET N == [M EXCEPT !.h = h] IN Sound(N) /\ N.c = M.c /\ N.d = M.d /\ N.h = h
<1> DEFINE x == M.c
           y == M.h
           z == M.d
<1>1. M = [c |-> x, h |-> y, d |-> z] /\ Good(x) /\ z \in [Cell -> Row]
  BY SoundWith
<1> HIDE DEF x, y, z
<1>2. [M EXCEPT !.h = h] = [c |-> x, h |-> h, d |-> z]
  BY <1>1
<1>3. Sound([c |-> x, h |-> h, d |-> z])
  BY <1>1, SoundIs
<1> QED
  BY <1>2, <1>3 DEF x, z

LEMMA ApplyDone ==
  ASSUME NEW M, Sound(M), NEW h \in Nat, NEW ub, UbatchOK(ub), h + Len(ub) <= NCells
  PROVE  LET N == Apply(M, h, ub)
             D == Placed(M, h, ub) IN
         /\ Sound(N) /\ N.d = M.d /\ N.h = h + Len(ub)
         /\ Good(D)
         /\ \A i \in Cell : At(D, i) = IF InSlot(h, ub, i) THEN Stored(ub[i - h + 1]) ELSE At(M.c, i)
         /\ \A i \in Cell : Less(D, N.c, i)
         /\ (\A i \in Cell : InSlot(h, ub, i) => IsEmpty(M.c, i)) => N.c = D
<1> DEFINE D == Placed(M, h, ub)
           n == Len(ub)
           x == [M EXCEPT !.c = D]
           Free == \A i \in Cell : InSlot(h, ub, i) => IsEmpty(M.c, i)
           L == Len(SeqOrder)
           Kept(N) == Sound(N) /\ N.d = M.d /\ (\A i \in Cell : Less(D, N.c, i)) /\ (Free => N.c = D)
           A == [k \in 0 .. L |-> {N \in Caches : Kept(N)}]
           R == PurgeRound!Result(x, SeqOrder, M, h, n, 0)
<1>1. /\ Good(D) /\ n \in Nat /\ L \in Nat /\ NCells \in Nat
      /\ \A i \in Cell : At(D, i) = IF InSlot(h, ub, i) THEN Stored(ub[i - h + 1]) ELSE At(M.c, i)
  BY PlacedDone, SeqOrders, PosTyped DEF UbatchOK
<1>2. Apply(M, h, ub) = [R EXCEPT !.h = h + n]
  BY DEF Apply, Loop, PurgeRound!Result
<1>3. Free => \A s \in Seqs : Overwritten(M, h, n, s) = -1
  <2> SUFFICES ASSUME Free, NEW s \in Seqs PROVE Overwritten(M, h, n, s) = -1
    OBVIOUS
  <2>1. \A j \in h .. h + n - 1 : s \notin M.c.seq[j]
    <3> SUFFICES ASSUME NEW j \in h .. h + n - 1 PROVE s \notin M.c.seq[j]
      OBVIOUS
    <3>1. j \in Cell /\ InSlot(h, ub, j)
      BY <1>1 DEF Cell, InSlot
    <3>2. IsEmpty(M.c, j)
      BY <3>1
    <3> QED
      BY <3>1, <3>2, GoodTyped DEF Sound
  <2>2. {-1} \union {M.c.pos[i] : i \in {j \in h .. h + n - 1 : s \in M.c.seq[j]}} = {-1}
    BY <2>1
  <2>3. Max({-1}) = -1
    BY DEF Max
  <2> QED
    BY <2>2, <2>3 DEF Overwritten
<1> HIDE DEF D
<1>4. x \in A[0]
  <2>1. x = [c |-> D, h |-> M.h, d |-> M.d]
    BY SoundWith
  <2>2. Sound(x)
    <3>1. M.h \in 0 .. NCells /\ M.d \in [Cell -> Row]
      BY SoundWith
    <3>2. Sound([c |-> D, h |-> M.h, d |-> M.d])
      BY <1>1, <3>1, SoundIs
    <3> QED
      BY <2>1, <3>2
  <2>3. x.c = D /\ x.d = M.d
    BY <2>1
  <2> HIDE DEF x
  <2>4. \A i \in Cell : Less(D, x.c, i)
    BY <2>3 DEF Less
  <2>5. Kept(x) /\ x \in Caches
    BY <2>2, <2>3, <2>4 DEF Sound
  <2> QED
    BY <1>1, <2>5
<1> HIDE DEF x, Free
<1>5. ASSUME NEW k \in 1 .. L, NEW N \in A[k - 1]
      PROVE  Purge(N, SeqOrder[k], Overwritten(M, h, n, SeqOrder[k])) \in A[k]
  <2> DEFINE s == SeqOrder[k]
             P == Purge(N, s, Overwritten(M, h, n, s))
  <2>1. k \in 0 .. L /\ k - 1 \in 0 .. L /\ s \in Seqs
    BY <1>1, SeqOrders
  <2>2. Kept(N)
    BY <2>1
  <2> HIDE DEF s
  <2>3. /\ Sound(P) /\ P.d = N.d /\ (\A i \in Cell : Less(N.c, P.c, i))
        /\ Overwritten(M, h, n, s) = -1 => P = N
    BY <2>1, <2>2, PurgeDone
  <2> HIDE DEF P
  <2>4. \A i \in Cell : Less(D, P.c, i)
    BY <2>2, <2>3, LessAgain
  <2>5. Kept(P)
    BY <1>3, <2>1, <2>2, <2>3, <2>4
  <2>6. P \in A[k]
    BY <2>1, <2>5 DEF Sound
  <2> QED
    BY <2>6 DEF P, s
<1>6. R \in A[L]
  <2> HIDE DEF A, L
  <2>1. PurgeRound!Keeps(A, x, SeqOrder, M, h, n, 0)
    BY <1>4, <1>5 DEF PurgeRound!Keeps, L
  <2>i. PurgeRound!Inductive
    BY Induct DEF PurgeRound!Inductive
  <2> QED
    BY <1>1, <2>1, <2>i, PurgeRound!Invariant DEF L
<1> HIDE DEF R
<1>7. Kept(R)
  <2>1. L \in 0 .. L
    BY <1>1
  <2> QED
    BY <1>6, <2>1
<1>8. h + n \in 0 .. NCells
  BY <1>1
<1> DEFINE N == [R EXCEPT !.h = h + n]
<1>9. Sound(N) /\ N.c = R.c /\ N.d = R.d /\ N.h = h + n
  BY <1>7, <1>8, SoundHead
<1> HIDE DEF N
<1> QED
  BY <1>1, <1>2, <1>7, <1>9 DEF D, Free, N

-----------------------------------------------------------------------------
(* prepare.                                                                *)

TryRound == INSTANCE Loops WITH Op <- LAMBDA P, ub, x, y, z, u : TrySlot(P, ub)
SetRound == INSTANCE Loops WITH Op <- LAMBDA C, k, old, x, y, z :
              SetCell(C, k, old.c.pos[k], old.c.seq[k])
RestoreRound == INSTANCE Loops WITH Op <- LAMBDA N, st, x, y, z, u : Restore(N, st)

\* What a trial leaves of a cell: all of it without a window.
Near(C, D, i) ==
    \/ At(D, i) = At(C, i)
    \/ SwaType # "none" /\ (D.pos[i] = -1 \/ (/\ D.pos[i] = C.pos[i] /\ D.seq[i] \subseteq C.seq[i]
                                              /\ D.shift[i] \in {0, C.shift[i]}))

\* N is M with a slot taken: n cells from at.
Took(M, N, at, n) ==
    /\ Sound(M) /\ Sound(N) /\ N.d = M.d
    /\ at \in Nat /\ n \in Nat /\ at + n <= NCells
    /\ \A i \in Cell : IF at <= i /\ i < at + n
                       THEN N.c.shift[i] = 0 /\ (SwaType = "none" => IsEmpty(M.c, i))
                       ELSE Near(M.c, N.c, i)

Trials == [m : Caches, ok : BOOLEAN, heads : Seq(0 .. NCells),
           saved : Seq([at : 0 .. NCells, n : Nat, old : Caches])]

\* The cache before the last j slots were taken.
Before(P, j) == IF j = 0 THEN P.m ELSE P.saved[j].old

TrialOK(M, ubs, k, P) ==
    /\ P \in Trials /\ Sound(P.m) /\ P.m.d = M.d
    /\ P.ok => Len(P.heads) = k /\ \A j \in 1 .. k : P.heads[j] + Len(ubs[j]) <= NCells
    /\ Before(P, Len(P.saved)) = M
    /\ \A j \in 1 .. Len(P.saved) :
         Took(P.saved[j].old, Before(P, j - 1), P.saved[j].at, P.saved[j].n)

LEMMA NearAgain ==
  ASSUME NEW C, NEW D, NEW E, NEW i \in Cell, Near(C, D, i), Near(D, E, i)
  PROVE  Near(C, E, i)
<1>1. CASE At(E, i) = At(D, i)
  BY <1>1 DEF Near, At
<1>2. CASE At(D, i) = At(C, i)
  BY <1>2 DEF Near, At
<1>3. CASE At(E, i) # At(D, i) /\ At(D, i) # At(C, i)
  BY <1>3 DEF Near
<1> QED
  BY <1>1, <1>2, <1>3

LEMMA CanUseNone ==
  ASSUME NEW C, NEW i, CanUse(C, i), SwaType = "none"
  PROVE  IsEmpty(C, i)
  BY DEF CanUse, IsMaskedSwa

LEMMA ApplyTakes ==
  ASSUME NEW M, Sound(M), NEW ub, UbatchOK(ub), NEW h, Slot(M.c, Len(ub), h)
  PROVE  Took(M, Apply(M, h, ub), h, Len(ub))
<1> DEFINE N == Apply(M, h, ub)
           D == Placed(M, h, ub)
           n == Len(ub)
<1>1. h \in Nat /\ n \in Nat /\ h + n <= NCells /\ NCells \in Nat
  BY PosTyped DEF UbatchOK, Slot
<1>2. /\ Sound(N) /\ N.d = M.d
      /\ Good(D)
      /\ \A i \in Cell : At(D, i) = IF InSlot(h, ub, i) THEN Stored(ub[i - h + 1]) ELSE At(M.c, i)
      /\ \A i \in Cell : Less(D, N.c, i)
      /\ (\A i \in Cell : InSlot(h, ub, i) => IsEmpty(M.c, i)) => N.c = D
  BY <1>1, ApplyDone
<1> HIDE DEF N, D
<1>3. SwaType = "none" => \A i \in Cell : InSlot(h, ub, i) => IsEmpty(M.c, i)
  <2> SUFFICES ASSUME SwaType = "none", NEW i \in Cell, InSlot(h, ub, i) PROVE IsEmpty(M.c, i)
    OBVIOUS
  <2>1. i - h \in 0 .. n - 1 /\ h + (i - h) = i
    BY <1>1, PosTyped DEF InSlot
  <2>2. CanUse(M.c, i)
    BY <2>1 DEF Slot
  <2> QED
    BY <2>2, CanUseNone
<1>4. ASSUME NEW i \in Cell, InSlot(h, ub, i) PROVE N.c.shift[i] = 0
  <2>1. D.shift[i] = 0
    BY <1>2, <1>4 DEF At, Stored
  <2>2. CASE N.c.pos[i] = -1
    BY <1>2, <2>2, GoodTyped DEF Sound
  <2>3. CASE N.c.pos[i] # -1
    BY <1>2, <2>1, <2>3 DEF Less
  <2> QED
    BY <2>2, <2>3
<1>5. ASSUME NEW i \in Cell, ~InSlot(h, ub, i) PROVE Near(M.c, N.c, i)
  <2>1. At(D, i) = At(M.c, i)
    BY <1>2, <1>5
  <2>2. CASE SwaType = "none"
    BY <1>2, <1>3, <2>1, <2>2 DEF Near
  <2>3. CASE SwaType # "none"
    <3>1. Less(D, N.c, i)
      BY <1>2
    <3> QED
      BY <2>1, <2>3, <3>1 DEF Near, Less, At
  <2> QED
    BY <2>2, <2>3
<1>6. \A i \in Cell : (h <= i /\ i < h + n) = InSlot(h, ub, i)
  BY DEF InSlot
<1> HIDE DEF n
<1>7. \A i \in Cell : IF h <= i /\ i < h + n
                      THEN N.c.shift[i] = 0 /\ (SwaType = "none" => IsEmpty(M.c, i))
                      ELSE Near(M.c, N.c, i)
  BY <1>3, <1>4, <1>5, <1>6
<1> QED
  BY <1>1, <1>2, <1>7 DEF Took, N, n

LEMMA TrialKept ==
  ASSUME NEW M, NEW ubs, NEW k \in Nat, NEW P, TrialOK(M, ubs, k, P), UbatchOK(ubs[k + 1])
  PROVE  TrialOK(M, ubs, k + 1, TrySlot(P, ubs[k + 1]))
<1> DEFINE ub == ubs[k + 1]
           f == FindSlot(P.m, Len(ub))
           N == TrySlot(P, ub)
           Q == Apply(P.m, f, ub)
           e == [at |-> f, n |-> Len(ub), old |-> P.m]
<1>1. P \in Trials /\ Sound(P.m) /\ Len(ub) \in Nat /\ P.m \in Caches
  BY DEF TrialOK, UbatchOK, Trials
<1>2. f # -1 => Len(ub) <= NCells /\ Slot(P.m.c, Len(ub), f)
  BY <1>1, FindSlotDone
<1>3. N = IF ~P.ok \/ f < 0 THEN [P EXCEPT !.ok = FALSE]
          ELSE [m |-> Q, ok |-> TRUE, heads |-> Append(P.heads, f), saved |-> <<e>> \o P.saved]
  BY DEF TrySlot, TakeSlot
<1> HIDE DEF N
<1>4. CASE ~P.ok \/ f < 0
  <2> DEFINE no == FALSE
  <2>0. no = FALSE
    OBVIOUS
  <2> HIDE DEF no
  <2>1. N = [P EXCEPT !.ok = no]
    BY <1>3, <1>4, <2>0, Zenon
  <2>2. N \in Trials /\ N.m = P.m /\ N.heads = P.heads /\ N.saved = P.saved /\ N.ok = no
    <3>1. no \in BOOLEAN
      BY <2>0
    <3> QED
      BY <1>1, <2>1, <3>1 DEF Trials
  <2>3. ~N.ok
    BY <2>0, <2>2
  <2>4. \A j : Before(N, j) = Before(P, j)
    BY <2>2 DEF Before
  <2> QED
    BY <2>2, <2>3, <2>4 DEF TrialOK, N
<1>5. CASE ~(~P.ok \/ f < 0)
  <2>1. N = [m |-> Q, ok |-> TRUE, heads |-> Append(P.heads, f), saved |-> <<e>> \o P.saved]
    BY <1>3, <1>5
  <2>2. f # -1 /\ P.ok
    BY <1>5
  <2>3. Slot(P.m.c, Len(ub), f) /\ Len(ub) <= NCells
    BY <1>2, <2>2
  <2>4. f \in 0 .. NCells /\ f + Len(ub) <= NCells
    BY <1>1, <2>3, PosTyped DEF Slot
  <2>5. Took(P.m, Q, f, Len(ub))
    BY <1>1, <2>3, ApplyTakes
  <2> HIDE DEF f, Q, ub
  <2>6. N.m = Q /\ N.ok /\ N.heads = Append(P.heads, f) /\ N.saved = <<e>> \o P.saved
    BY <2>1
  <2>7. P.heads \in Seq(0 .. NCells) /\ P.saved \in Seq([at : 0 .. NCells, n : Nat, old : Caches])
    BY <1>1 DEF Trials
  <2>8. e \in [at : 0 .. NCells, n : Nat, old : Caches]
    BY <1>1, <2>4
  <2>e. e.at = f /\ e.n = Len(ub) /\ e.old = P.m
    OBVIOUS
  <2> HIDE DEF e
  <2>9. /\ <<e>> \o P.saved \in Seq([at : 0 .. NCells, n : Nat, old : Caches])
        /\ Len(<<e>> \o P.saved) = Len(P.saved) + 1 /\ Len(P.saved) \in Nat
        /\ (<<e>> \o P.saved)[1] = e
        /\ \A j \in 1 .. Len(P.saved) : (<<e>> \o P.saved)[j + 1] = P.saved[j]
    BY <2>7, <2>8
  <2>10. /\ Append(P.heads, f) \in Seq(0 .. NCells) /\ Len(P.heads) \in Nat
         /\ Len(Append(P.heads, f)) = Len(P.heads) + 1
         /\ Append(P.heads, f)[Len(P.heads) + 1] = f
         /\ \A j \in 1 .. Len(P.heads) : Append(P.heads, f)[j] = P.heads[j]
    BY <2>4, <2>7
  <2>11. Sound(Q) /\ Q.d = P.m.d /\ Q \in Caches
    BY <2>5 DEF Took, Sound
  <2>12. N \in Trials
    BY <2>1, <2>9, <2>10, <2>11 DEF Trials
  <2>13. Len(N.heads) = k + 1 /\ \A j \in 1 .. k + 1 : N.heads[j] + Len(ubs[j]) <= NCells
    <3>1. Len(P.heads) = k /\ \A j \in 1 .. k : P.heads[j] + Len(ubs[j]) <= NCells
      BY <2>2 DEF TrialOK
    <3>2. N.heads[k + 1] + Len(ubs[k + 1]) <= NCells
      BY <2>4, <2>6, <2>10, <3>1 DEF ub
    <3>3. \A j \in 1 .. k : N.heads[j] = P.heads[j]
      BY <2>6, <2>10, <3>1
    <3> QED
      BY <2>6, <2>10, <3>1, <3>2, <3>3
  <2>14. \A j \in 0 .. Len(P.saved) : Before(N, j + 1) = Before(P, j)
    <3> SUFFICES ASSUME NEW j \in 0 .. Len(P.saved) PROVE Before(N, j + 1) = Before(P, j)
      OBVIOUS
    <3>1. CASE j = 0
      BY <2>6, <2>9, <2>e, <3>1 DEF Before
    <3>2. CASE j # 0
      <4>1. j \in 1 .. Len(P.saved) /\ j + 1 # 0
        BY <2>9, <3>2
      <4>2. N.saved[j + 1] = P.saved[j]
        BY <2>6, <2>9, <4>1
      <4> QED
        BY <3>2, <4>1, <4>2 DEF Before
    <3> QED
      BY <3>1, <3>2
  <2>15. Before(N, Len(N.saved)) = M
    <3>1. Before(P, Len(P.saved)) = M
      BY DEF TrialOK
    <3>2. Len(P.saved) \in 0 .. Len(P.saved)
      BY <2>9
    <3> QED
      BY <2>6, <2>9, <2>14, <3>1, <3>2
  <2>16. ASSUME NEW j \in 1 .. Len(N.saved)
         PROVE  Took(N.saved[j].old, Before(N, j - 1), N.saved[j].at, N.saved[j].n)
    <3>1. CASE j = 1
      <4>1. Before(N, j - 1) = Q
        BY <2>6, <3>1 DEF Before
      <4>2. N.saved[j] = e
        BY <2>6, <2>9, <3>1
      <4> QED
        BY <2>5, <2>e, <4>1, <4>2
    <3>2. CASE j # 1
      <4> DEFINE m == j - 1
      <4>1. m \in 1 .. Len(P.saved) /\ m + 1 = j /\ m - 1 \in 0 .. Len(P.saved) /\ (m - 1) + 1 = m
        BY <2>6, <2>9, <3>2
      <4> HIDE DEF m
      <4>2. N.saved[j] = P.saved[m]
        BY <2>6, <2>9, <4>1
      <4>3. Before(N, m) = Before(P, m - 1)
        BY <2>14, <4>1
      <4>4. Took(P.saved[m].old, Before(P, m - 1), P.saved[m].at, P.saved[m].n)
        BY <4>1 DEF TrialOK
      <4> QED
        BY <4>2, <4>3, <4>4 DEF m
    <3> QED
      BY <3>1, <3>2
  <2>17. N.m.d = M.d
    BY <2>6, <2>11 DEF TrialOK
  <2>18. Sound(N.m)
    BY <2>6, <2>11
  <2>19. TrialOK(M, ubs, k + 1, N)
    BY <2>12, <2>13, <2>15, <2>16, <2>17, <2>18 DEF TrialOK
  <2> QED
    BY <2>19 DEF N, ub
<1> QED
  BY <1>4, <1>5

UbatchesOK(ubs) == Len(ubs) \in Nat /\ \A k \in 1 .. Len(ubs) : UbatchOK(ubs[k])

LEMMA TrialDone ==
  ASSUME NEW M, Sound(M), NEW ubs, UbatchesOK(ubs)
  PROVE  TrialOK(M, ubs, Len(ubs), Trial(M, ubs))
<1> DEFINE x == [m |-> M, ok |-> TRUE, heads |-> <<>>, saved |-> <<>>]
           n == Len(ubs)
           A == [k \in 0 .. n |-> {P \in Trials : TrialOK(M, ubs, k, P)}]
           R == TryRound!Result(x, ubs, 0, 0, 0, 0)
<1>1. n \in Nat
  BY DEF UbatchesOK
<1>2. x \in A[0]
  <2>1. x \in Trials /\ x.m = M /\ x.heads = <<>> /\ x.saved = <<>>
    BY DEF Trials, Sound
  <2> HIDE DEF x
  <2>2. Len(x.heads) = 0 /\ Len(x.saved) = 0 /\ Before(x, 0) = M
    BY <2>1 DEF Before
  <2>3. TrialOK(M, ubs, 0, x)
    BY <2>1, <2>2 DEF TrialOK
  <2>4. 0 \in 0 .. n
    BY <1>1
  <2> QED
    BY <2>1, <2>3, <2>4
<1> HIDE DEF x
<1>3. ASSUME NEW k \in 1 .. n, NEW P \in A[k - 1]
      PROVE  TrySlot(P, ubs[k]) \in A[k]
  <2> DEFINE j == k - 1
  <2>1. j \in Nat /\ j + 1 = k /\ j \in 0 .. n /\ k \in 0 .. n
    BY <1>1
  <2>2. TrialOK(M, ubs, j, P)
    BY <2>1
  <2>3. UbatchOK(ubs[j + 1])
    BY <2>1 DEF UbatchesOK
  <2> HIDE DEF j
  <2>4. TrialOK(M, ubs, j + 1, TrySlot(P, ubs[j + 1]))
    BY <2>1, <2>2, <2>3, TrialKept
  <2>5. TrySlot(P, ubs[k]) \in Trials /\ TrialOK(M, ubs, k, TrySlot(P, ubs[k]))
    BY <2>1, <2>4 DEF TrialOK
  <2> QED
    BY <2>1, <2>5
<1>4. R \in A[n]
  <2> HIDE DEF A, n
  <2>1. TryRound!Keeps(A, x, ubs, 0, 0, 0, 0)
    BY <1>2, <1>3 DEF TryRound!Keeps, n
  <2>i. TryRound!Inductive
    BY Induct DEF TryRound!Inductive
  <2> QED
    BY <1>1, <2>1, <2>i, TryRound!Invariant DEF n
<1>5. Trial(M, ubs) = R
  BY DEF Trial, Loop, TryRound!Result, x
<1> HIDE DEF R
<1>6. n \in 0 .. n
  BY <1>1
<1> QED
  BY <1>4, <1>5, <1>6

\* N has what is left of M.
LeftOf(M, N) == Sound(N) /\ N.d = M.d /\ N.h = M.h /\ \A i \in Cell : Near(M.c, N.c, i)

\* A slot gets its old cells back, without the shift that was pending for them.
LEMMA RestoreIs ==
  ASSUME NEW M, NEW Q, NEW N, NEW st, Took(M, Q, st.at, st.n), st.old = M, LeftOf(Q, N)
  PROVE  LET R == Restore(N, st) IN
         /\ Sound(R) /\ R.h = M.h /\ R.d = N.d
         /\ \A i \in Cell : IF st.at <= i /\ i < st.at + st.n
              THEN R.c.pos[i] = M.c.pos[i] /\ R.c.seq[i] = M.c.seq[i] /\ R.c.shift[i] = 0
              ELSE At(R.c, i) = At(N.c, i)
<1> DEFINE at == st.at
           n == st.n
           s == [k \in 1 .. n |-> at + k - 1]
           W == [i \in Cell |-> [pos |-> M.c.pos[i], seq |-> M.c.seq[i], shift |-> 0]]
           A == [k \in 0 .. n |-> Mid(N.c, W, at, k)]
           R == SetRound!Result(N.c, s, M, 0, 0, 0)
           H == [N EXCEPT !.h = M.h]
<1>1. /\ Sound(M) /\ Sound(Q) /\ Sound(N) /\ at \in Nat /\ n \in Nat /\ at + n <= NCells
      /\ Good(M.c) /\ Good(Q.c) /\ Good(N.c) /\ M.h \in 0 .. NCells /\ NCells \in Nat
      /\ N.d = M.d
  BY PosTyped DEF Took, LeftOf, Sound, Caches
<1>2. Len(s) = n /\ \A k \in 1 .. n : s[k] = at + k - 1
  BY <1>1
<1> HIDE DEF at, n
<1>3. N.c \in A[0]
  BY <1>1, MidStart
<1>4. ASSUME NEW i \in Cell, at <= i, i < at + n PROVE N.c.shift[i] = 0
  <2>1. Q.c.shift[i] = 0
    BY <1>4 DEF Took, at, n
  <2>2. Near(Q.c, N.c, i)
    BY DEF LeftOf
  <2>3. N.c.pos[i] = -1 => N.c.shift[i] = 0
    BY <1>1, GoodTyped
  <2> QED
    BY <2>1, <2>2, <2>3 DEF Near, At
<1>5. ASSUME NEW k \in 1 .. n, NEW D \in A[k - 1]
      PROVE  SetCell(D, s[k], M.c.pos[s[k]], M.c.seq[s[k]]) \in A[k]
  <2> DEFINE j == k - 1
             i == at + k - 1
  <2>1. /\ j \in Nat /\ j + 1 = k /\ k \in 0 .. n /\ j \in 0 .. n /\ i = at + j
        /\ i \in Cell /\ s[k] = i /\ at <= i /\ i < at + n
    BY <1>1, <1>2 DEF Cell
  <2>2. A[k] = Mid(N.c, W, at, j + 1) /\ D \in Mid(N.c, W, at, j)
    BY <2>1
  <2>3. W[i] = [pos |-> M.c.pos[i], seq |-> M.c.seq[i], shift |-> 0]
    BY <2>1
  <2> HIDE DEF i, j, A, W
  <2>4. Good(D) /\ D.shift[i] = N.c.shift[i]
    BY <1>1, <2>1, <2>2, MidCell
  <2>5. D.shift[i] = 0
    BY <1>4, <2>1, <2>4
  <2>6. /\ M.c.pos[i] \in Pos \union {-1} /\ M.c.seq[i] \in SUBSET Seqs
        /\ M.c.pos[i] = -1 => M.c.seq[i] = {}
    BY <1>1, <2>1, GoodTyped
  <2>7. Assigns(D, SetCell(D, i, M.c.pos[i], M.c.seq[i]), i, M.c.pos[i], M.c.seq[i], 0)
    BY <2>1, <2>4, <2>5, <2>6, SetCellGood
  <2>8. SetCell(D, i, M.c.pos[i], M.c.seq[i]) \in Mid(N.c, W, at, j + 1)
    BY <1>1, <2>1, <2>2, <2>3, <2>7, MidSets
  <2> QED
    BY <2>1, <2>2, <2>8
<1>6. R \in A[n]
  <2> HIDE DEF A, s
  <2>1. SetRound!Keeps(A, N.c, s, M, 0, 0, 0)
    BY <1>2, <1>3, <1>5 DEF SetRound!Keeps
  <2>i. SetRound!Inductive
    BY Induct DEF SetRound!Inductive
  <2> QED
    BY <1>1, <1>2, <2>1, <2>i, SetRound!Invariant
<1>7. R \in Mid(N.c, W, at, n)
  <2>1. n \in 0 .. n
    BY <1>1
  <2> HIDE DEF R
  <2> QED
    BY <1>6, <2>1
<1>8. Restore(N, st) = [N EXCEPT !.h = M.h, !.c = R]
  BY DEF Restore, Loop, SetRound!Result, s, at, n
<1> HIDE DEF R
<1>9. Sound(H) /\ H.d = N.d /\ H.h = M.h
  BY <1>1, SoundHead
<1> HIDE DEF H
<1>10. Restore(N, st) = [H EXCEPT !.c = R]
  BY <1>8 DEF H
<1>11. Restore(N, st) = [c |-> R, h |-> M.h, d |-> N.d]
  <2>1. \A C : [H EXCEPT !.c = C] = [c |-> C, h |-> H.h, d |-> H.d]
    BY <1>9, SoundWith
  <2> QED
    BY <1>9, <1>10, <2>1
<1>12. Good(R) /\ \A i \in Cell : At(R, i) = IF at <= i /\ i < at + n THEN W[i] ELSE At(N.c, i)
  BY <1>7 DEF Mid
<1>13. Sound([c |-> R, h |-> M.h, d |-> N.d])
  <2>1. N.d \in [Cell -> Row]
    BY <1>1, SoundWith
  <2> QED
    BY <1>1, <1>12, <2>1, SoundIs
<1>14. ASSUME NEW i \in Cell, at <= i, i < at + n
       PROVE  R.pos[i] = M.c.pos[i] /\ R.seq[i] = M.c.seq[i] /\ R.shift[i] = 0
  <2>1. At(R, i) = [pos |-> M.c.pos[i], seq |-> M.c.seq[i], shift |-> 0]
    BY <1>12, <1>14
  <2> QED
    BY <2>1 DEF At
<1> HIDE DEF A, W
<1> DEFINE V == [c |-> R, h |-> M.h, d |-> N.d]
<1>15. Sound(V) /\ V.h = M.h /\ V.d = N.d /\ V.c = R
  BY <1>13
<1> HIDE DEF V
<1>16. Restore(N, st) = V
  BY <1>11 DEF V
<1>17. \A i \in Cell : IF at <= i /\ i < at + n
         THEN V.c.pos[i] = M.c.pos[i] /\ V.c.seq[i] = M.c.seq[i] /\ V.c.shift[i] = 0
         ELSE At(V.c, i) = At(N.c, i)
  BY <1>12, <1>14, <1>15
<1> QED
  BY <1>15, <1>16, <1>17 DEF at, n

LEMMA RestoreDone ==
  ASSUME NEW M, NEW Q, NEW N, NEW st, Took(M, Q, st.at, st.n), st.old = M, LeftOf(Q, N)
  PROVE  LeftOf(M, Restore(N, st))
<1> DEFINE at == st.at
           n == st.n
           R == Restore(N, st)
<1>1. /\ Sound(R) /\ R.h = M.h /\ R.d = N.d
      /\ \A i \in Cell : IF at <= i /\ i < at + n
           THEN R.c.pos[i] = M.c.pos[i] /\ R.c.seq[i] = M.c.seq[i] /\ R.c.shift[i] = 0
           ELSE At(R.c, i) = At(N.c, i)
  BY RestoreIs
<1>2. Good(M.c) /\ N.d = M.d
  BY DEF Took, LeftOf, Sound
<1> HIDE DEF at, n, R
<1>3. ASSUME NEW i \in Cell PROVE Near(M.c, R.c, i)
  <2>1. CASE at <= i /\ i < at + n
    <3>1. R.c.pos[i] = M.c.pos[i] /\ R.c.seq[i] = M.c.seq[i] /\ R.c.shift[i] = 0
      BY <1>1, <2>1
    <3>2. CASE SwaType = "none"
      <4>1. IsEmpty(M.c, i)
        BY <2>1, <3>2 DEF Took, at, n
      <4>2. M.c.shift[i] = 0
        BY <1>2, <4>1, GoodTyped
      <4> QED
        BY <3>1, <4>2 DEF Near, At
    <3>3. CASE SwaType # "none"
      BY <3>1, <3>3 DEF Near
    <3> QED
      BY <3>2, <3>3
  <2>2. CASE ~(at <= i /\ i < at + n)
    <3>1. Near(M.c, Q.c, i)
      BY <2>2 DEF Took, at, n
    <3>2. Near(Q.c, N.c, i)
      BY DEF LeftOf
    <3>3. At(R.c, i) = At(N.c, i)
      BY <1>1, <2>2
    <3>4. Near(N.c, R.c, i)
      BY <3>3 DEF Near
    <3> QED
      BY <3>1, <3>2, <3>4, NearAgain
  <2> QED
    BY <2>1, <2>2
<1> QED
  BY <1>1, <1>2, <1>3 DEF LeftOf, R

LEMMA RestoredDone ==
  ASSUME NEW M, Sound(M), NEW ubs, NEW k, NEW P, TrialOK(M, ubs, k, P)
  PROVE  LeftOf(M, Restored(P))
<1> DEFINE n == Len(P.saved)
           A == [j \in 0 .. n |-> {N \in Caches : LeftOf(Before(P, j), N)}]
           R == RestoreRound!Result(P.m, P.saved, 0, 0, 0, 0)
<1>1. n \in Nat
  BY DEF TrialOK, Trials
<1>2. P.m \in A[0]
  <2>1. Sound(P.m) /\ Before(P, 0) = P.m
    BY DEF TrialOK, Before
  <2>2. LeftOf(P.m, P.m)
    BY <2>1 DEF LeftOf, Near
  <2> QED
    BY <1>1, <2>1, <2>2 DEF Sound
<1>3. ASSUME NEW j \in 1 .. n, NEW N \in A[j - 1]
      PROVE  Restore(N, P.saved[j]) \in A[j]
  <2>1. j \in 0 .. n /\ j - 1 \in 0 .. n /\ j # 0
    BY <1>1
  <2>2. LeftOf(Before(P, j - 1), N)
    BY <2>1
  <2>3. Took(P.saved[j].old, Before(P, j - 1), P.saved[j].at, P.saved[j].n)
    BY DEF TrialOK
  <2>4. LeftOf(P.saved[j].old, Restore(N, P.saved[j]))
    BY <2>2, <2>3, RestoreDone
  <2>5. P.saved[j].old = Before(P, j)
    BY <2>1 DEF Before
  <2>6. Restore(N, P.saved[j]) \in Caches
    BY <2>4 DEF LeftOf, Sound
  <2> QED
    BY <2>1, <2>4, <2>5, <2>6
<1>4. R \in A[n]
  <2> HIDE DEF A, n
  <2>1. RestoreRound!Keeps(A, P.m, P.saved, 0, 0, 0, 0)
    BY <1>2, <1>3 DEF RestoreRound!Keeps, n
  <2>i. RestoreRound!Inductive
    BY Induct DEF RestoreRound!Inductive
  <2> QED
    BY <1>1, <2>1, <2>i, RestoreRound!Invariant DEF n
<1>5. Restored(P) = R
  BY DEF Restored, Loop, RestoreRound!Result
<1> HIDE DEF R
<1>6. LeftOf(Before(P, n), R)
  <2>1. n \in 0 .. n
    BY <1>1
  <2> QED
    BY <1>4, <2>1
<1> QED
  BY <1>5, <1>6 DEF TrialOK

\* The slots for ubs.
SlotsFor(ubs, heads) ==
    /\ heads \in Seq(0 .. NCells) /\ Len(heads) = Len(ubs)
    /\ \A k \in 1 .. Len(ubs) : heads[k] + Len(ubs[k]) <= NCells

LEMMA PrepareDone ==
  ASSUME NEW M, Sound(M), NEW ubs, UbatchesOK(ubs)
  PROVE  LET r == Prepare(M, ubs) IN
         /\ LeftOf(M, r.m)
         /\ r.heads # <<>> => SlotsFor(ubs, r.heads)
<1> DEFINE P == Trial(M, ubs)
<1>1. TrialOK(M, ubs, Len(ubs), P)
  BY TrialDone
<1>2. Prepare(M, ubs) = [m |-> Restored(P), heads |-> IF P.ok THEN P.heads ELSE <<>>]
  BY DEF Prepare, Outcome
<1> HIDE DEF P
<1>3. LeftOf(M, Restored(P))
  BY <1>1, RestoredDone
<1>4. P.ok => SlotsFor(ubs, P.heads)
  BY <1>1 DEF TrialOK, Trials, SlotsFor
<1> QED
  BY <1>2, <1>3, <1>4

LEMMA InitBatchDone ==
  ASSUME NEW M, Sound(M), NEW ubs, UbatchesOK(ubs)
  PROVE  LET r == InitBatch(M, ubs) IN
         /\ LeftOf(M, r.m)
         /\ r.heads # <<>> => SlotsFor(ubs, r.heads)
<1> DEFINE a == Prepare(M, ubs)
           b == Prepare(a.m, ubs)
<1>1. LeftOf(M, a.m) /\ (a.heads # <<>> => SlotsFor(ubs, a.heads))
  BY PrepareDone
<1>2. InitBatch(M, ubs) = a \/ InitBatch(M, ubs) = b
  BY DEF InitBatch, AskTwice
<1>s. Sound(a.m)
  BY <1>1 DEF LeftOf
<1> HIDE DEF a
<1>3. LeftOf(a.m, b.m) /\ (b.heads # <<>> => SlotsFor(ubs, b.heads))
  BY <1>s, PrepareDone
<1> HIDE DEF b
<1>4. LeftOf(M, b.m)
  <2>1. ASSUME NEW i \in Cell PROVE Near(M.c, b.m.c, i)
    <3>1. Near(M.c, a.m.c, i) /\ Near(a.m.c, b.m.c, i)
      BY <1>1, <1>3 DEF LeftOf
    <3> QED
      BY <3>1, NearAgain
  <2> QED
    BY <1>1, <1>3, <2>1 DEF LeftOf
<1> QED
  BY <1>1, <1>2, <1>3, <1>4

-----------------------------------------------------------------------------
(* Ubatches that fail.                                                     *)

RemoveRound == INSTANCE Loops WITH Op <- LAMBDA N, s, ub, x, y, z : RemoveFailedOf(N, s, ub)

Tokened == {t \in [tok : Tokens, seqs : Seq(Seqs), pos : Pos] :
              t.seqs # <<>> /\ IsInjective(t.seqs)}
Ubatches == {u \in Seq(Tokened) : Len(u) <= NBatch}

LEMMA UbatchIs ==
  ASSUME NEW ub \in Ubatches
  PROVE  /\ UbatchOK(ub) /\ DOMAIN ub = 1 .. Len(ub) /\ Len(ub) \in 0 .. NBatch
         /\ ub \in Seq(Tokened)
<1>1. ub \in Seq(Tokened) /\ Len(ub) <= NBatch /\ NBatch \in Nat
  BY CacheAssumption DEF Ubatches
<1>2. \A k \in 1 .. Len(ub) : ub[k] \in Tokened
  BY <1>1
<1>3. \A t \in Tokened : TokenOK(t)
  BY DEF Tokened, TokenOK
<1> QED
  BY <1>1, <1>2, <1>3 DEF UbatchOK

\* The positions of the tokens of ub that have s as their first sequence, and a
\* cell that holds one of them for s alone.
FirstIn(ub, s) == {t.pos : t \in {u \in Range(ub) : u.seqs[1] = s}}
FailedIn(C, ub, i, s) == C.seq[i] = {s} /\ C.pos[i] \in FirstIn(ub, s)

\* A cell whose token comes before those of ub in all of its sequences.
Spared(C, ub, i) == \A s \in C.seq[i] : \A p \in FirstIn(ub, s) : C.pos[i] < p

LEMMA RemoveOne ==
  ASSUME NEW M, Sound(M), NEW ub \in Ubatches, NEW s \in Seqs
  PROVE  LET N == RemoveFailedOf(M, s, ub) IN
         /\ Sound(N) /\ N.d = M.d /\ \A i \in Cell : Less(M.c, N.c, i)
         /\ \A i \in Cell : FailedIn(M.c, ub, i, s) => N.c.pos[i] = -1
         /\ \A i \in Cell : Spared(M.c, ub, i) => At(N.c, i) = At(M.c, i)
<1> DEFINE F == FirstIn(ub, s)
           N == SeqRm(M, s, Min(F), -1)
<1>1. RemoveFailedOf(M, s, ub) = IF F = {} THEN M ELSE N
  BY DEF RemoveFailedOf, FirstIn
<1>2. F \subseteq Pos
  <2>1. \A t \in Range(ub) : t.pos \in Pos
    <3>1. \A k \in DOMAIN ub : ub[k] \in Tokened
      BY UbatchIs
    <3>2. \A t \in Range(ub) : t \in Tokened
      BY <3>1 DEF Range
    <3> QED
      BY <3>2 DEF Tokened
  <2> QED
    BY <2>1 DEF FirstIn
<1> HIDE DEF F
<1>3. CASE F = {}
  <2>1. \A i \in Cell : Less(M.c, M.c, i)
    BY DEF Less
  <2> QED
    BY <1>1, <1>3, <2>1 DEF FailedIn, F
<1>4. CASE F # {}
  <2>1. Min(F) \in F /\ \A p \in F : Min(F) <= p
    <3>1. F \in SUBSET Nat
      BY <1>2, PosTyped
    <3> QED
      BY <1>4, <3>1, MinNat
  <2>2. Sound(N) /\ N.d = M.d /\ (\A i \in Cell : Less(M.c, N.c, i))
    BY SeqRmLess
  <2>3. Holds(N.c, AfterRm(M.c, s, Min(F), -1))
    BY SeqRmDone
  <2> DEFINE m == Min(F)
  <2>4. m \in Nat /\ MaxPos \in Nat
    BY <1>2, <2>1, PosTyped
  <2> HIDE DEF N, m
  <2>5. ASSUME NEW i \in Cell, FailedIn(M.c, ub, i, s) PROVE N.c.pos[i] = -1
    <3>1. M.c.seq[i] = {s} /\ M.c.pos[i] \in F
      BY <2>5 DEF FailedIn, F
    <3>2. M.c.pos[i] \in Pos /\ m <= M.c.pos[i]
      BY <1>2, <2>1, <3>1 DEF m
    <3>3. M.c.pos[i] \in Int /\ M.c.pos[i] <= MaxPos
      BY <3>2, PosTyped DEF Pos
    <3>4. InRange(M.c, i, m, -1)
      BY <2>4, <3>2, <3>3 DEF InRange, PosIn, From, End
    <3>5. s >= 0
      BY CellsAssumption
    <3>6. AfterRm(M.c, s, m, -1)[i] = Gone
      <4>1. s \in Nat
        BY CellsAssumption
      <4>2. ~(s < 0)
        BY <4>1
      <4> QED
        BY <3>1, <3>4, <4>2 DEF AfterRm, Without
    <3>7. At(N.c, i) = Gone
      BY <2>3, <3>6 DEF Holds, m
    <3> QED
      BY <3>7 DEF At, Gone
  <2>6. ASSUME NEW i \in Cell, Spared(M.c, ub, i) PROVE At(N.c, i) = At(M.c, i)
    <3>1. s \in M.c.seq[i] => M.c.pos[i] < m
      BY <2>1, <2>6 DEF Spared, F, m
    <3>2. M.c.pos[i] \in Int
      BY GoodTyped DEF Sound
    <3>3. s \in M.c.seq[i] => ~InRange(M.c, i, m, -1)
      BY <2>4, <3>1, <3>2 DEF InRange, PosIn, From
    <3>4. ~(s < 0)
      <4>1. s \in Nat
        BY CellsAssumption
      <4> QED
        BY <4>1
    <3>5. AfterRm(M.c, s, m, -1)[i] = At(M.c, i)
      BY <3>3, <3>4 DEF AfterRm
    <3> QED
      BY <2>3, <3>5 DEF Holds, m
  <2> QED
    BY <1>1, <1>4, <2>2, <2>5, <2>6 DEF N
<1> QED
  BY <1>3, <1>4

LEMMA RemoveFailedDone ==
  ASSUME NEW M, Sound(M), NEW ub \in Ubatches
  PROVE  LET N == RemoveFailed(M, ub) IN
         /\ Sound(N) /\ N.d = M.d /\ \A i \in Cell : Less(M.c, N.c, i)
         /\ \A i \in Cell, s \in Seqs : FailedIn(M.c, ub, i, s) => N.c.pos[i] = -1
         /\ \A i \in Cell : Spared(M.c, ub, i) => At(N.c, i) = At(M.c, i)
<1> DEFINE L == Len(SeqOrder)
           Kept(N, k) ==
             /\ Sound(N) /\ N.d = M.d /\ (\A i \in Cell : Less(M.c, N.c, i))
             /\ \A j \in 1 .. k : \A i \in Cell : FailedIn(M.c, ub, i, SeqOrder[j]) => N.c.pos[i] = -1
             /\ \A i \in Cell : Spared(M.c, ub, i) => At(N.c, i) = At(M.c, i)
           A == [k \in 0 .. L |-> {N \in Caches : Kept(N, k)}]
           R == RemoveRound!Result(M, SeqOrder, ub, 0, 0, 0)
<1>1. L \in Nat /\ \A k \in 1 .. L : SeqOrder[k] \in Seqs
  BY SeqOrders
<1>2. \A s \in Seqs : \E k \in 1 .. L : SeqOrder[k] = s
  <2>1. Cardinality(Seqs) \in Nat /\ Seqs = 0 .. Cardinality(Seqs) - 1
    BY CacheAssumption, FS_CardinalityType
  <2> SUFFICES ASSUME NEW s \in Seqs PROVE s + 1 \in 1 .. L /\ SeqOrder[s + 1] = s
    OBVIOUS
  <2>2. s \in Nat /\ s + 1 \in 1 .. Cardinality(Seqs) /\ (s + 1) - 1 = s
    BY <2>1
  <2> QED
    BY <2>1, <2>2 DEF SeqOrder
<1>3. M \in A[0]
  <2>1. \A i \in Cell : Less(M.c, M.c, i)
    BY DEF Less
  <2>2. Kept(M, 0)
    BY <2>1
  <2> QED
    BY <1>1, <2>2 DEF Sound
<1>4. ASSUME NEW k \in 1 .. L, NEW N \in A[k - 1]
      PROVE  RemoveFailedOf(N, SeqOrder[k], ub) \in A[k]
  <2> DEFINE s == SeqOrder[k]
             P == RemoveFailedOf(N, s, ub)
  <2>1. k \in 0 .. L /\ k - 1 \in 0 .. L /\ s \in Seqs /\ k - 1 \in Nat
    BY <1>1
  <2>2. Kept(N, k - 1)
    BY <2>1
  <2>n. Sound(N)
    BY <2>2
  <2>s. s = SeqOrder[k]
    OBVIOUS
  <2> HIDE DEF s
  <2>3. /\ Sound(P) /\ P.d = N.d /\ (\A i \in Cell : Less(N.c, P.c, i))
        /\ \A i \in Cell : FailedIn(N.c, ub, i, s) => P.c.pos[i] = -1
        /\ \A i \in Cell : Spared(N.c, ub, i) => At(P.c, i) = At(N.c, i)
    BY <2>1, <2>n, RemoveOne
  <2> HIDE DEF P
  <2>4. \A i \in Cell : Less(M.c, P.c, i)
    BY <2>2, <2>3, LessAgain
  <2>5. \A j \in 1 .. k - 1 : \A i \in Cell : FailedIn(M.c, ub, i, SeqOrder[j]) => P.c.pos[i] = -1
    BY <2>2, <2>3 DEF Less
  <2>6. ASSUME NEW i \in Cell, FailedIn(M.c, ub, i, s) PROVE P.c.pos[i] = -1
    <3>1. Less(M.c, N.c, i)
      BY <2>2
    <3>2. CASE N.c.pos[i] = -1
      BY <2>3, <3>2 DEF Less
    <3>3. CASE N.c.pos[i] # -1
      <4>1. N.c.pos[i] = M.c.pos[i] /\ N.c.seq[i] = {s}
        BY <2>6, <3>1, <3>3 DEF Less, FailedIn
      <4>2. FailedIn(N.c, ub, i, s)
        BY <2>6, <4>1 DEF FailedIn
      <4> QED
        BY <2>3, <4>2
    <3> QED
      BY <3>2, <3>3
  <2>7. \A j \in 1 .. k : j \in 1 .. k - 1 \/ j = k
    BY <2>1
  <2>10. ASSUME NEW i \in Cell, Spared(M.c, ub, i) PROVE At(P.c, i) = At(M.c, i)
    <3>1. At(N.c, i) = At(M.c, i)
      BY <2>2, <2>10
    <3>2. Spared(N.c, ub, i)
      BY <2>10, <3>1 DEF Spared, At
    <3> QED
      BY <2>3, <3>1, <3>2
  <2>8. Kept(P, k)
    BY <2>2, <2>3, <2>4, <2>5, <2>6, <2>7, <2>10, <2>s
  <2>9. P \in A[k]
    BY <2>1, <2>8 DEF Sound
  <2> QED
    BY <2>9 DEF P, s
<1>5. R \in A[L]
  <2> HIDE DEF A, L
  <2>1. RemoveRound!Keeps(A, M, SeqOrder, ub, 0, 0, 0)
    BY <1>3, <1>4 DEF RemoveRound!Keeps, L
  <2>i. RemoveRound!Inductive
    BY Induct DEF RemoveRound!Inductive
  <2> QED
    BY <1>1, <2>1, <2>i, RemoveRound!Invariant DEF L
<1>6. RemoveFailed(M, ub) = R
  BY DEF RemoveFailed, Loop, RemoveRound!Result
<1> HIDE DEF R
<1>7. Kept(R, L)
  <2>1. L \in 0 .. L
    BY <1>1
  <2> QED
    BY <1>5, <2>1
<1>8. \A i \in Cell, s \in Seqs : FailedIn(M.c, ub, i, s) => R.c.pos[i] = -1
  <2> SUFFICES ASSUME NEW i \in Cell, NEW s \in Seqs, FailedIn(M.c, ub, i, s) PROVE R.c.pos[i] = -1
    OBVIOUS
  <2>1. PICK j \in 1 .. L : SeqOrder[j] = s
    BY <1>2
  <2> QED
    BY <1>7, <2>1
<1> QED
  BY <1>6, <1>7, <1>8

-----------------------------------------------------------------------------
(* Where the keys are: what each operation makes of Rotated.               *)

LEMMA RotatedLess ==
  ASSUME NEW M, NEW N, Rotated(M), N.d = M.d, \A i \in Cell : Less(M.c, N.c, i)
  PROVE  Rotated(N)
  BY DEF Rotated, Less, IsEmpty

LEMMA RotatedLeft ==
  ASSUME NEW M, NEW N, Rotated(M), LeftOf(M, N), SwaType = "none" \/ Unshifted(M)
  PROVE  Rotated(N)
<1> SUFFICES ASSUME NEW i \in Cell, ~IsEmpty(N.c, i)
             PROVE  N.d[i].rope + N.c.shift[i] = N.c.pos[i]
  BY DEF Rotated
<1>1. N.d[i] = M.d[i] /\ Near(M.c, N.c, i)
  BY DEF LeftOf
<1>2. N.c.pos[i] = M.c.pos[i] /\ N.c.shift[i] = M.c.shift[i]
  <2>1. CASE At(N.c, i) = At(M.c, i)
    BY <2>1 DEF At
  <2>2. CASE SwaType # "none" /\ At(N.c, i) # At(M.c, i)
    <3>1. N.c.pos[i] = M.c.pos[i] /\ N.c.shift[i] \in {0, M.c.shift[i]}
      BY <1>1, <2>2 DEF Near, IsEmpty
    <3>2. M.c.shift[i] = 0
      BY <2>2 DEF Unshifted
    <3> QED
      BY <3>1, <3>2
  <2> QED
    BY <1>1, <2>1, <2>2 DEF Near
<1>3. ~IsEmpty(M.c, i)
  BY <1>2 DEF IsEmpty
<1> QED
  BY <1>1, <1>2, <1>3 DEF Rotated

-----------------------------------------------------------------------------
(* What is computed is in place.                                           *)

Single(ub) == \A k \in 1 .. Len(ub) : Range(ub[k].seqs) = {ub[k].seqs[1]}

\* The rows of the slot of ub get new data.
WithRows(M, h, ub, new) ==
    [M EXCEPT !.d = [i \in Cell |-> IF i \in h .. h + Len(ub) - 1 THEN new[i] ELSE M.d[i]]]

LEMMA WithRowsDone ==
  ASSUME NEW M, Sound(M), NEW h \in Nat, NEW ub \in Ubatches, h + Len(ub) <= NCells, NEW new,
         \A i \in Cell : InSlot(h, ub, i) => new[i] \in Row
  PROVE  LET A == Apply(M, h, ub)
             N == WithRows(A, h, ub, new) IN
         /\ Sound(N)
         /\ \A i \in Cell : InSlot(h, ub, i) => N.d[i] = new[i]
         /\ \A i \in Cell : ~InSlot(h, ub, i) => N.d[i] = M.d[i]
         /\ \A i \in Cell : ~InSlot(h, ub, i) => Less(M.c, N.c, i)
         /\ \A i \in Cell : InSlot(h, ub, i) /\ ~IsEmpty(N.c, i) =>
              /\ i - h + 1 \in 1 .. Len(ub) /\ N.c.pos[i] = ub[i - h + 1].pos /\ N.c.shift[i] = 0
              /\ N.c.seq[i] \subseteq Range(ub[i - h + 1].seqs) /\ N.c.seq[i] # {}
<1> DEFINE A == Apply(M, h, ub)
           D == Placed(M, h, ub)
           d == [i \in Cell |-> IF i \in h .. h + Len(ub) - 1 THEN new[i] ELSE A.d[i]]
           N == WithRows(A, h, ub, new)
<1>0. UbatchOK(ub) /\ Len(ub) \in Nat
  BY UbatchIs DEF UbatchOK
<1>1. /\ Sound(A) /\ A.d = M.d
      /\ \A i \in Cell : At(D, i) = IF InSlot(h, ub, i) THEN Stored(ub[i - h + 1]) ELSE At(M.c, i)
      /\ \A i \in Cell : Less(D, A.c, i)
  BY <1>0, ApplyDone
<1>2. N = [A EXCEPT !.d = d]
  BY DEF WithRows
<1> HIDE DEF A, D
<1>3. \A i \in Cell : (i \in h .. h + Len(ub) - 1) = InSlot(h, ub, i)
  BY <1>0, PosTyped DEF InSlot
<1>4. M.d \in [Cell -> Row]
  BY SoundWith
<1>5. /\ d \in [Cell -> Row]
      /\ \A i \in Cell : d[i] = IF InSlot(h, ub, i) THEN new[i] ELSE M.d[i]
  <2>1. \A i \in Cell : d[i] = IF InSlot(h, ub, i) THEN new[i] ELSE M.d[i]
    BY <1>1, <1>3
  <2>2. \A i \in Cell : d[i] \in Row
    BY <1>4, <2>1
  <2> QED
    BY <2>1, <2>2
<1> HIDE DEF d
<1>6. N = [c |-> A.c, h |-> A.h, d |-> d]
  <2>1. \A e : [A EXCEPT !.d = e] = [c |-> A.c, h |-> A.h, d |-> e]
    BY <1>1, SoundWith
  <2> QED
    BY <1>2, <2>1
<1>7. Sound(N) /\ N.c = A.c /\ N.d = d
  <2>1. Good(A.c) /\ A.h \in 0 .. NCells
    BY <1>1, SoundWith
  <2>2. Sound([c |-> A.c, h |-> A.h, d |-> d])
    BY <1>5, <2>1, SoundIs
  <2> QED
    BY <1>6, <2>2
<1> HIDE DEF N
<1>8. ASSUME NEW i \in Cell, ~InSlot(h, ub, i) PROVE Less(M.c, N.c, i)
  <2>1. Less(D, A.c, i) /\ At(D, i) = At(M.c, i)
    BY <1>1, <1>8
  <2> QED
    BY <1>7, <2>1 DEF Less, At
<1>9. ASSUME NEW i \in Cell, InSlot(h, ub, i), ~IsEmpty(N.c, i)
      PROVE  /\ i - h + 1 \in 1 .. Len(ub) /\ N.c.pos[i] = ub[i - h + 1].pos /\ N.c.shift[i] = 0
             /\ N.c.seq[i] \subseteq Range(ub[i - h + 1].seqs) /\ N.c.seq[i] # {}
  <2> DEFINE k == i - h + 1
  <2>1. k \in 1 .. Len(ub)
    BY <1>0, <1>9, PosTyped DEF InSlot
  <2>2. Less(D, A.c, i) /\ At(D, i) = Stored(ub[k])
    BY <1>1, <1>9
  <2>3. ub[k].seqs \in Seq(Seqs) /\ ub[k].seqs # <<>>
    BY <1>0, <2>1 DEF UbatchOK, TokenOK
  <2> HIDE DEF k
  <2>4. D.pos[i] = ub[k].pos /\ D.seq[i] = Range(ub[k].seqs) /\ D.shift[i] = 0
    BY <2>2 DEF At, Stored
  <2>5. N.c.pos[i] # -1
    BY <1>9 DEF IsEmpty
  <2>6. /\ N.c.pos[i] = ub[k].pos /\ N.c.shift[i] = 0 /\ N.c.seq[i] \subseteq Range(ub[k].seqs)
        /\ (N.c.seq[i] = {} => Range(ub[k].seqs) = {})
    BY <1>7, <2>2, <2>4, <2>5 DEF Less
  <2>7. Range(ub[k].seqs) # {}
    <3>1. 1 \in DOMAIN ub[k].seqs
      BY <2>3
    <3> QED
      BY <3>1 DEF Range
  <2> QED
    BY <2>1, <2>6, <2>7 DEF k
<1> QED
  BY <1>5, <1>7, <1>8, <1>9 DEF N, A

\* Compute: the row of a token has its position.
Computed(h, ub) == [i \in Cell |-> [tok |-> ub[i - h + 1].tok, rope |-> ub[i - h + 1].pos]]

LEMMA ComputeDone ==
  ASSUME NEW M, Sound(M), NEW h \in Nat, NEW ub \in Ubatches, h + Len(ub) <= NCells
  PROVE  LET N == WithRows(Apply(M, h, ub), h, ub, Computed(h, ub)) IN
         Sound(N) /\ (Rotated(M) => Rotated(N))
<1> DEFINE new == Computed(h, ub)
           N == WithRows(Apply(M, h, ub), h, ub, new)
<1>1. \A i \in Cell : InSlot(h, ub, i) =>
        /\ new[i].rope = ub[i - h + 1].pos /\ new[i].rope \in Int
        /\ new[i] \in Row
  <2> SUFFICES ASSUME NEW i \in Cell, InSlot(h, ub, i)
               PROVE  /\ new[i].rope = ub[i - h + 1].pos /\ new[i].rope \in Int /\ new[i] \in Row
    OBVIOUS
  <2> DEFINE k == i - h + 1
  <2>1. Len(ub) \in Nat /\ UbatchOK(ub)
    BY UbatchIs DEF UbatchOK
  <2>2. k \in 1 .. Len(ub)
    BY <2>1, PosTyped DEF InSlot
  <2>3. new[i] = [tok |-> ub[k].tok, rope |-> ub[k].pos]
    BY DEF Computed
  <2> HIDE DEF k, new
  <2>4. ub[k].tok \in Tokens /\ ub[k].pos \in Pos
    BY <2>1, <2>2 DEF UbatchOK, TokenOK
  <2>5. ub[k].pos \in Int
    BY <2>4, PosTyped
  <2> QED
    BY <2>3, <2>4, <2>5 DEF Row, k
<1> HIDE DEF new
<1>2. /\ Sound(N)
      /\ \A i \in Cell : InSlot(h, ub, i) => N.d[i] = new[i]
      /\ \A i \in Cell : ~InSlot(h, ub, i) => N.d[i] = M.d[i]
      /\ \A i \in Cell : ~InSlot(h, ub, i) => Less(M.c, N.c, i)
      /\ \A i \in Cell : InSlot(h, ub, i) /\ ~IsEmpty(N.c, i) =>
           N.c.pos[i] = ub[i - h + 1].pos /\ N.c.shift[i] = 0
  BY <1>1, WithRowsDone
<1> HIDE DEF N
<1>3. ASSUME Rotated(M), NEW i \in Cell, ~IsEmpty(N.c, i)
      PROVE  N.d[i].rope + N.c.shift[i] = N.c.pos[i]
  <2>1. CASE InSlot(h, ub, i)
    BY <1>1, <1>2, <1>3, <2>1
  <2>2. CASE ~InSlot(h, ub, i)
    <3>1. N.d[i] = M.d[i] /\ N.c.pos[i] = M.c.pos[i] /\ N.c.shift[i] = M.c.shift[i] /\ ~IsEmpty(M.c, i)
      BY <1>2, <1>3, <2>2 DEF Less, IsEmpty
    <3> QED
      BY <1>3, <3>1 DEF Rotated
  <2> QED
    BY <2>1, <2>2
<1>4. Rotated(M) => Rotated(N)
  BY <1>3 DEF Rotated
<1> QED
  BY <1>2, <1>4 DEF N, new

LEMMA ComputeFailsDone ==
  ASSUME NEW M, Sound(M), NEW h \in Nat, NEW ub \in Ubatches, h + Len(ub) <= NCells
  PROVE  LET N == RemoveFailed(WithRows(Apply(M, h, ub), h, ub, [i \in Cell |-> Junk]), ub) IN
         /\ Sound(N)
         /\ Single(ub) => \A i \in Cell : InSlot(h, ub, i) => IsEmpty(N.c, i)
         /\ Rotated(M) /\ Single(ub) => Rotated(N)
<1> DEFINE new == [i \in Cell |-> Junk]
           B == WithRows(Apply(M, h, ub), h, ub, new)
           N == RemoveFailed(B, ub)
<1>1. \A i \in Cell : new[i] \in Row
  BY DEF Junk, Row
<1> HIDE DEF new
<1>2. /\ Sound(B)
      /\ \A i \in Cell : ~InSlot(h, ub, i) => B.d[i] = M.d[i]
      /\ \A i \in Cell : ~InSlot(h, ub, i) => Less(M.c, B.c, i)
      /\ \A i \in Cell : InSlot(h, ub, i) /\ ~IsEmpty(B.c, i) =>
           /\ i - h + 1 \in 1 .. Len(ub) /\ B.c.pos[i] = ub[i - h + 1].pos
           /\ B.c.seq[i] \subseteq Range(ub[i - h + 1].seqs) /\ B.c.seq[i] # {}
  BY <1>1, WithRowsDone
<1> HIDE DEF B
<1>3. /\ Sound(N) /\ N.d = B.d /\ \A i \in Cell : Less(B.c, N.c, i)
      /\ \A i \in Cell, s \in Seqs : FailedIn(B.c, ub, i, s) => N.c.pos[i] = -1
  BY <1>2, RemoveFailedDone
<1> HIDE DEF N
<1>4. ASSUME Single(ub), NEW i \in Cell, InSlot(h, ub, i), ~IsEmpty(N.c, i) PROVE FALSE
  <2> DEFINE k == i - h + 1
             s == ub[k].seqs[1]
  <2>1. N.c.pos[i] # -1 /\ ~IsEmpty(B.c, i)
    BY <1>3, <1>4 DEF Less, IsEmpty
  <2>2. k \in 1 .. Len(ub) /\ B.c.pos[i] = ub[k].pos /\ B.c.seq[i] \subseteq Range(ub[k].seqs) /\ B.c.seq[i] # {}
    BY <1>2, <1>4, <2>1
  <2> HIDE DEF k
  <2>3. Range(ub[k].seqs) = {s}
    BY <1>4, <2>2 DEF Single
  <2>4. B.c.seq[i] = {s}
    BY <2>2, <2>3
  <2>5. s \in Seqs
    <3>1. B.c.seq[i] \in SUBSET Seqs
      BY <1>2, GoodTyped DEF Sound
    <3> QED
      BY <2>4, <3>1
  <2>6. ub[k] \in Range(ub) /\ ub[k].seqs[1] = s
    BY <2>2, UbatchIs DEF Range
  <2>7. ub[k].pos \in FirstIn(ub, s)
    BY <2>6 DEF FirstIn
  <2>8. FailedIn(B.c, ub, i, s)
    BY <2>2, <2>4, <2>7 DEF FailedIn
  <2> QED
    BY <1>3, <2>1, <2>5, <2>8
<1>5. ASSUME Rotated(M), Single(ub), NEW i \in Cell, ~IsEmpty(N.c, i)
      PROVE  N.d[i].rope + N.c.shift[i] = N.c.pos[i]
  <2>1. N.c.pos[i] # -1 /\ N.c.pos[i] = B.c.pos[i] /\ N.c.shift[i] = B.c.shift[i] /\ ~IsEmpty(B.c, i)
    BY <1>3, <1>5 DEF Less, IsEmpty
  <2>2. N.d[i] = M.d[i] /\ B.c.pos[i] = M.c.pos[i] /\ B.c.shift[i] = M.c.shift[i] /\ ~IsEmpty(M.c, i)
    BY <1>2, <1>3, <1>4, <1>5, <2>1 DEF Less, IsEmpty
  <2> QED
    BY <1>5, <2>1, <2>2 DEF Rotated
<1>6. Rotated(M) /\ Single(ub) => Rotated(N)
  BY <1>5 DEF Rotated
<1> QED
  BY <1>3, <1>4, <1>6 DEF N, B, new

-----------------------------------------------------------------------------
(* Batches and their ubatches.                                             *)

PositionRound == INSTANCE Loops WITH Op <- LAMBDA acc, t, x, y, z, u : Position(acc, t)

\* The words of a batch with positions, which the caller may have got wrong.
Placeable == [tok : Tokens, seqs : Seq(Seqs), pos : Nat]
Counting == [out : Seq(Placeable), p0 : [Seqs -> Nat]]
Words0 == {w \in [tok : Tokens, seqs : Seq(Seqs)] : w.seqs # <<>> /\ IsInjective(w.seqs)}

\* The tokens of a sequence have ascending positions, below the next one.
Ascending(b) ==
    \A i, j \in 1 .. Len(b) : i < j /\ b[i].seqs[1] = b[j].seqs[1] => b[i].pos < b[j].pos
Growing(acc) ==
    /\ \A j \in 1 .. Len(acc.out) : acc.out[j].pos < acc.p0[acc.out[j].seqs[1]]
    /\ Ascending(acc.out)

PositionOK(input, k, acc) ==
    /\ acc \in Counting /\ Len(acc.out) = k
    /\ \A j \in 1 .. k : acc.out[j].seqs = input[j].seqs
    /\ Single(input) => Growing(acc)

LEMMA PositionKept ==
  ASSUME NEW input \in Seq(Words0), NEW k \in 0 .. Len(input) - 1, NEW acc, PositionOK(input, k, acc)
  PROVE  PositionOK(input, k + 1, Position(acc, input[k + 1]))
<1> DEFINE t == input[k + 1]
           p == acc.p0[t.seqs[1]]
           e == [tok |-> t.tok, seqs |-> t.seqs, pos |-> p]
           q == [s \in Seqs |-> IF s \in Range(t.seqs) THEN p + 1 ELSE acc.p0[s]]
           N == Position(acc, t)
<1>1. N = [out |-> Append(acc.out, e), p0 |-> q]
  BY DEF Position
<1>2. Len(input) \in Nat /\ k \in Nat /\ k + 1 \in 1 .. Len(input) /\ t \in Words0
  BY DEF PositionOK
<1>3. /\ acc.out \in Seq(Placeable) /\ acc.p0 \in [Seqs -> Nat] /\ Len(acc.out) = k
  BY DEF PositionOK, Counting
<1>4. t.tok \in Tokens /\ t.seqs \in Seq(Seqs) /\ t.seqs[1] \in Seqs
  BY <1>2 DEF Words0
<1>t. t = input[k + 1]
  OBVIOUS
<1> HIDE DEF t
<1>5. p \in Nat
  BY <1>3, <1>4
<1> HIDE DEF p
<1>6. e \in Placeable /\ e.seqs = t.seqs
  BY <1>4, <1>5 DEF Placeable
<1>7. q \in [Seqs -> Nat]
  BY <1>3, <1>5
<1> HIDE DEF e, q
<1>8. /\ Append(acc.out, e) \in Seq(Placeable) /\ Len(Append(acc.out, e)) = k + 1
      /\ Append(acc.out, e)[k + 1] = e
      /\ \A j \in 1 .. k : Append(acc.out, e)[j] = acc.out[j]
  BY <1>2, <1>3, <1>6
<1>9. N \in Counting /\ N.out = Append(acc.out, e)
  BY <1>1, <1>7, <1>8 DEF Counting
<1> HIDE DEF N
<1>10. \A j \in 1 .. k + 1 : N.out[j].seqs = input[j].seqs
  <2>1. \A j \in 1 .. k : acc.out[j].seqs = input[j].seqs
    BY DEF PositionOK
  <2>2. \A j \in 1 .. k + 1 : j \in 1 .. k \/ j = k + 1
    BY <1>2
  <2> QED
    BY <1>6, <1>8, <1>9, <1>t, <2>1, <2>2
<1>11. ASSUME Single(input) PROVE Growing(N)
  <2> DEFINE s == t.seqs[1]
             o == acc.out
  <2>1. Range(t.seqs) = {s}
    BY <1>2, <1>11, <1>t DEF Single
  <2>2. /\ \A j \in 1 .. k : o[j].pos < acc.p0[o[j].seqs[1]]
        /\ \A i, j \in 1 .. k : i < j /\ o[i].seqs[1] = o[j].seqs[1] => o[i].pos < o[j].pos
    BY <1>3, <1>11 DEF PositionOK, Growing, Ascending
  <2>3. \A j \in 1 .. k : o[j].pos \in Nat /\ o[j].seqs[1] \in Seqs
    <3> SUFFICES ASSUME NEW j \in 1 .. k PROVE o[j].pos \in Nat /\ o[j].seqs[1] \in Seqs
      OBVIOUS
    <3>1. o[j] \in Placeable
      BY <1>3
    <3>2. j \in 1 .. Len(input) /\ o[j].seqs = input[j].seqs /\ input[j] \in Words0
      BY <1>2 DEF PositionOK
    <3> QED
      BY <3>1, <3>2 DEF Placeable, Words0
  <2>4. p = acc.p0[s] /\ e.pos = p /\ e.seqs[1] = s /\ s \in Seqs
    BY <1>4 DEF p, e
  <2>5. \A r \in Seqs : q[r] = IF r = s THEN p + 1 ELSE acc.p0[r]
    BY <2>1 DEF q
  <2>6. /\ Len(N.out) = k + 1 /\ N.p0 = q /\ N.out[k + 1] = e
        /\ \A j \in 1 .. k : N.out[j] = o[j]
    BY <1>1, <1>8, <1>9 DEF N
  <2>7. \A j \in 1 .. k + 1 : j \in 1 .. k \/ j = k + 1
    BY <1>2
  <2> HIDE DEF s, o
  <2>8. ASSUME NEW j \in 1 .. k + 1 PROVE N.out[j].pos < q[N.out[j].seqs[1]]
    <3>1. CASE j \in 1 .. k
      <4>1. o[j].pos < acc.p0[o[j].seqs[1]] /\ o[j].pos \in Nat /\ o[j].seqs[1] \in Seqs
        BY <2>2, <2>3, <3>1
      <4>2. o[j].seqs[1] = s => o[j].pos < p + 1
        BY <1>5, <2>4, <4>1
      <4> QED
        BY <2>5, <2>6, <3>1, <4>1, <4>2
    <3>2. CASE j = k + 1
      BY <1>5, <2>4, <2>5, <2>6, <3>2
    <3> QED
      BY <2>7, <3>1, <3>2
  <2>9. ASSUME NEW i \in 1 .. k + 1, NEW j \in 1 .. k + 1, i < j,
               N.out[i].seqs[1] = N.out[j].seqs[1]
        PROVE  N.out[i].pos < N.out[j].pos
    <3>1. i \in 1 .. k
      BY <1>2, <2>9
    <3>2. CASE j \in 1 .. k
      BY <2>2, <2>6, <2>9, <3>1, <3>2
    <3>3. CASE j = k + 1
      BY <2>2, <2>4, <2>6, <2>9, <3>1, <3>3
    <3> QED
      BY <2>7, <3>2, <3>3
  <2> QED
    BY <2>6, <2>8, <2>9 DEF Growing, Ascending
<1> QED
  BY <1>8, <1>9, <1>10, <1>11 DEF PositionOK, N, t

LEMMA WithPositionsDone ==
  ASSUME NEW C, NEW input \in Seq(Words0)
  PROVE  LET b == WithPositions(C, input) IN
         /\ b \in Seq(Placeable) /\ Len(b) = Len(input)
         /\ \A j \in 1 .. Len(input) : b[j].seqs = input[j].seqs
         /\ Single(input) => Ascending(b)
<1> DEFINE n == Len(input)
           x == [out |-> <<>>, p0 |-> [s \in Seqs |-> SeqPosMax(C, s) + 1]]
           A == [k \in 0 .. n |-> {acc \in Counting : PositionOK(input, k, acc)}]
           R == PositionRound!Result(x, input, 0, 0, 0, 0)
<1>1. n \in Nat
  OBVIOUS
<1>2. x \in A[0]
  <2>1. \A s \in Seqs : SeqPosMax(C, s) + 1 \in Nat
    <3> SUFFICES ASSUME NEW s \in Seqs PROVE SeqPosMax(C, s) + 1 \in Nat
      OBVIOUS
    <3> DEFINE m == SeqPosMax(C, s)
    <3>1. m \in Pos \union {-1}
      BY SeqPosTyped
    <3> HIDE DEF m
    <3>2. m \in Nat \/ m = -1
      BY <3>1, PosTyped
    <3>3. m + 1 \in Nat
      BY <3>2
    <3> QED
      BY <3>3 DEF m
  <2>2. x \in Counting /\ x.out = <<>>
    BY <2>1 DEF Counting
  <2> HIDE DEF x
  <2>3. Growing(x)
    BY <2>2 DEF Growing, Ascending
  <2>4. PositionOK(input, 0, x)
    BY <2>2, <2>3 DEF PositionOK
  <2> QED
    BY <1>1, <2>2, <2>4
<1>3. ASSUME NEW k \in 1 .. n, NEW acc \in A[k - 1]
      PROVE  Position(acc, input[k]) \in A[k]
  <2> DEFINE j == k - 1
  <2>1. j \in 0 .. n - 1 /\ j + 1 = k /\ j \in 0 .. n /\ k \in 0 .. n
    BY <1>1
  <2>2. PositionOK(input, j, acc)
    BY <2>1
  <2> HIDE DEF j
  <2>3. PositionOK(input, j + 1, Position(acc, input[j + 1]))
    BY <2>1, <2>2, PositionKept
  <2>4. PositionOK(input, k, Position(acc, input[k])) /\ Position(acc, input[k]) \in Counting
    BY <2>1, <2>3 DEF PositionOK
  <2> QED
    BY <2>1, <2>4
<1>4. R \in A[n]
  <2> HIDE DEF A, n, x
  <2>1. PositionRound!Keeps(A, x, input, 0, 0, 0, 0)
    BY <1>2, <1>3 DEF PositionRound!Keeps, n
  <2>i. PositionRound!Inductive
    BY Induct DEF PositionRound!Inductive
  <2> QED
    BY <1>1, <2>1, <2>i, PositionRound!Invariant DEF n
<1>5. WithPositions(C, input) = R.out
  BY DEF WithPositions, Loop, PositionRound!Result
<1> HIDE DEF R
<1>6. PositionOK(input, n, R)
  <2>1. n \in 0 .. n
    BY <1>1
  <2> QED
    BY <1>4, <2>1
<1> QED
  BY <1>5, <1>6 DEF PositionOK, Counting, Growing

\* A batch the caller may pass.
BatchTyped(batch) == batch \in Seq(Tokened) /\ Len(batch) \in 1 .. NBatch

LEMMA BatchesTyped ==
  ASSUME NEW C, NEW input \in Inputs, NEW batch \in Batches(C, input),
         \A i \in DOMAIN batch : batch[i].pos <= MaxPos
  PROVE  /\ BatchTyped(batch) /\ DOMAIN batch = 1 .. Len(batch)
         /\ Len(batch) = Len(input) /\ DOMAIN input = 1 .. Len(input)
         /\ \A k \in 1 .. Len(batch) : batch[k].seqs = input[k].seqs
         /\ Single(input) => Ascending(batch)
<1> DEFINE b == WithPositions(C, input)
<1>1. PICK n \in 1 .. NBatch : input \in [1 .. n -> Words]
  BY DEF Inputs
<1>0. n \in Nat /\ NBatch \in Nat /\ Words \subseteq Words0
  BY CacheAssumption DEF Words0
<1>2. input \in Seq(Words0) /\ Len(input) = n /\ DOMAIN input = 1 .. n
  BY <1>0, <1>1
<1>3. /\ b \in Seq(Placeable) /\ Len(b) = n /\ \A j \in 1 .. n : b[j].seqs = input[j].seqs
      /\ Single(input) => Ascending(b)
  BY <1>2, WithPositionsDone
<1>4. PICK m \in Offsets : batch = [k \in DOMAIN b |-> [b[k] EXCEPT !.pos = b[k].pos + m]]
  BY DEF Batches
<1>5. m \in Nat
  BY CacheAssumption
<1> HIDE DEF b
<1>6. DOMAIN b = 1 .. n
  BY <1>0, <1>3
<1>7. ASSUME NEW k \in 1 .. n
      PROVE  /\ batch[k] \in Tokened /\ batch[k].seqs = input[k].seqs
             /\ batch[k].seqs = b[k].seqs /\ batch[k].pos = b[k].pos + m /\ b[k].pos \in Nat
  <2>1. b[k] \in Placeable
    BY <1>3, <1>6
  <2>2. batch[k] = [b[k] EXCEPT !.pos = b[k].pos + m]
    BY <1>4, <1>6
  <2>3. /\ batch[k].tok = b[k].tok /\ batch[k].seqs = b[k].seqs /\ batch[k].pos = b[k].pos + m
        /\ batch[k] = [tok |-> b[k].tok, seqs |-> b[k].seqs, pos |-> b[k].pos + m]
    BY <2>1, <2>2 DEF Placeable
  <2>4. b[k].tok \in Tokens /\ b[k].seqs \in Seq(Seqs) /\ b[k].pos + m \in Nat
    BY <1>5, <2>1 DEF Placeable
  <2>5. k \in DOMAIN batch
    BY <1>4, <1>6
  <2>6. b[k].pos + m \in Pos
    BY <2>3, <2>4, <2>5, PosTyped DEF Pos
  <2>7. input[k] \in Words0 /\ b[k].seqs = input[k].seqs
    BY <1>2, <1>3
  <2>8. batch[k].seqs # <<>> /\ IsInjective(batch[k].seqs)
    BY <2>3, <2>7 DEF Words0
  <2>9. batch[k] \in [tok : Tokens, seqs : Seq(Seqs), pos : Pos]
    BY <2>3, <2>4, <2>6
  <2>10. b[k].pos \in Nat
    BY <2>1 DEF Placeable
  <2> QED
    BY <2>3, <2>7, <2>8, <2>9, <2>10 DEF Tokened
<1>8. batch \in Seq(Tokened) /\ Len(batch) = n /\ DOMAIN batch = 1 .. n
  <2>1. DOMAIN batch = 1 .. n /\ batch = [k \in 1 .. n |-> batch[k]]
    BY <1>4, <1>6
  <2>2. batch \in [1 .. n -> Tokened]
    BY <1>7, <2>1
  <2> QED
    BY <1>0, <2>2
<1>9. ASSUME Single(input) PROVE Ascending(batch)
  <2> SUFFICES ASSUME NEW i \in 1 .. n, NEW j \in 1 .. n, i < j, batch[i].seqs[1] = batch[j].seqs[1]
               PROVE  batch[i].pos < batch[j].pos
    BY <1>8 DEF Ascending
  <2>1. b[i].pos < b[j].pos
    <3>1. b[i].seqs[1] = b[j].seqs[1]
      BY <1>7
    <3> QED
      BY <1>3, <1>9, <3>1 DEF Ascending
  <2>2. /\ batch[i].pos = b[i].pos + m /\ b[i].pos \in Nat
        /\ batch[j].pos = b[j].pos + m /\ b[j].pos \in Nat
    BY <1>7
  <2> QED
    BY <1>5, <2>1, <2>2
<1>10. \A k \in 1 .. Len(batch) : batch[k].seqs = input[k].seqs
  BY <1>7, <1>8
<1> QED
  BY <1>2, <1>8, <1>9, <1>10 DEF BatchTyped

LEMMA SplitTyped ==
  ASSUME NEW batch, BatchTyped(batch)
  PROVE  LET ubs == SplitSimple(batch) IN
         /\ ubs \in Seq(Ubatches) /\ UbatchesOK(ubs)
         /\ \A j \in 1 .. Len(ubs) : \A k \in 1 .. Len(ubs[j]) :
              /\ (j - 1) * NUbatch + k \in 1 .. Len(batch) /\ k <= NUbatch
              /\ ubs[j][k] = batch[(j - 1) * NUbatch + k]
<1> DEFINE L == Len(batch)
           n == (L + NUbatch - 1) \div NUbatch
           lo(k) == (k - 1) * NUbatch + 1
           hi(k) == Min({k * NUbatch, L})
           ubs == SplitSimple(batch)
<1>1. /\ batch \in Seq(Tokened) /\ L \in Nat /\ L <= NBatch /\ NBatch \in Nat /\ NUbatch \in Nat \ {0}
      /\ DOMAIN batch = 1 .. L
  BY CacheAssumption DEF BatchTyped
<1>2. ubs = [k \in 1 .. n |-> SubSeq(batch, lo(k), hi(k))]
  BY DEF SplitSimple
<1>3. n \in Int
  BY <1>1
<1> HIDE DEF n, ubs
<1>4. ASSUME NEW k \in 1 .. n
      PROVE  /\ lo(k) \in Nat /\ lo(k) >= 1 /\ hi(k) \in Nat /\ hi(k) <= L
             /\ hi(k) - lo(k) + 1 <= NUbatch
  <2>1. k \in Nat /\ k - 1 \in Nat
    BY <1>3
  <2>2. (k - 1) * NUbatch \in Nat /\ k * NUbatch \in Nat
    BY <1>1, <2>1
  <2>3. hi(k) \in {k * NUbatch, L} /\ hi(k) <= L /\ hi(k) <= k * NUbatch
    <3> DEFINE T == {k * NUbatch, L}
    <3>1. T \in SUBSET Nat /\ T # {} /\ L \in T
      BY <1>1, <2>2
    <3> HIDE DEF T
    <3>2. Min(T) \in T /\ \A y \in T : Min(T) <= y
      BY <3>1, MinNat
    <3>3. Min(T) \in T /\ Min(T) <= L
      BY <3>1, <3>2
    <3>4. k * NUbatch \in T
      BY DEF T
    <3> QED
      BY <3>2, <3>3, <3>4 DEF T
  <2>4. k * NUbatch = (k - 1) * NUbatch + NUbatch
    BY <1>1, <2>1
  <2>5. lo(k) \in Nat /\ lo(k) >= 1 /\ hi(k) \in Nat
    BY <1>1, <2>2, <2>3
  <2> DEFINE b == hi(k)
             r == (k - 1) * NUbatch
  <2>6. b \in Nat /\ r \in Nat /\ b <= r + NUbatch /\ lo(k) = r + 1
    BY <2>2, <2>3, <2>4, <2>5
  <2> HIDE DEF b, r, lo
  <2>7. b - lo(k) + 1 <= NUbatch
    BY <1>1, <2>6
  <2> QED
    BY <2>3, <2>5, <2>7 DEF b
<1>5. ASSUME NEW k \in 1 .. n
      PROVE  /\ SubSeq(batch, lo(k), hi(k)) \in Ubatches
             /\ \A j \in 1 .. Len(SubSeq(batch, lo(k), hi(k))) :
                  /\ lo(k) + j - 1 \in 1 .. L /\ j <= NUbatch
                  /\ SubSeq(batch, lo(k), hi(k))[j] = batch[lo(k) + j - 1]
  <2> DEFINE a == lo(k)
             b == hi(k)
             s == SubSeq(batch, a, b)
  <2>1. a \in Nat /\ a >= 1 /\ b \in Nat /\ b <= L /\ b - a + 1 <= NUbatch
    BY <1>4
  <2> HIDE DEF a, b
  <2>2. s \in Seq(Tokened)
    BY <1>1, <2>1
  <2>3. Len(s) = IF a <= b THEN b - a + 1 ELSE 0
    BY <1>1, <2>1
  <2>4. Len(s) <= NBatch
    BY <1>1, <2>1, <2>3
  <2>5. ASSUME NEW j \in 1 .. Len(s)
        PROVE  a + j - 1 \in 1 .. L /\ j <= NUbatch /\ s[j] = batch[a + j - 1]
    <3>1. a <= b /\ j \in 1 .. b - a + 1
      BY <2>1, <2>3
    <3>2. s[j] = batch[a + j - 1]
      BY <1>1, <2>1, <3>1
    <3>3. a + j - 1 \in 1 .. L /\ j <= NUbatch
      BY <1>1, <2>1, <3>1
    <3> QED
      BY <3>2, <3>3
  <2> QED
    BY <2>2, <2>4, <2>5 DEF Ubatches, a, b
<1> HIDE DEF lo, hi
<1>6. ubs \in Seq(Ubatches) /\ \A k \in 1 .. Len(ubs) : ubs[k] = SubSeq(batch, lo(k), hi(k)) /\ k \in 1 .. n
  <2>1. CASE n \in Nat
    <3>1. ubs \in [1 .. n -> Ubatches]
      BY <1>2, <1>5
    <3>2. ubs \in Seq(Ubatches) /\ Len(ubs) = n
      BY <2>1, <3>1
    <3> QED
      BY <1>2, <3>2
  <2>2. CASE n \notin Nat
    <3>1. 1 .. n = 1 .. 0
      BY <1>3, <2>2
    <3>2. ubs \in [1 .. 0 -> Ubatches]
      BY <1>2, <3>1
    <3>3. ubs \in Seq(Ubatches) /\ Len(ubs) = 0
      BY <3>2
    <3> QED
      BY <3>3
  <2> QED
    BY <2>1, <2>2
<1>7. UbatchesOK(ubs)
  <2>1. Len(ubs) \in Nat /\ \A k \in 1 .. Len(ubs) : ubs[k] \in Ubatches
    BY <1>6
  <2> QED
    BY <2>1, UbatchIs DEF UbatchesOK
<1>8. ASSUME NEW j \in 1 .. Len(ubs), NEW k \in 1 .. Len(ubs[j])
      PROVE  /\ (j - 1) * NUbatch + k \in 1 .. L /\ k <= NUbatch
             /\ ubs[j][k] = batch[(j - 1) * NUbatch + k]
  <2>1. ubs[j] = SubSeq(batch, lo(j), hi(j)) /\ j \in 1 .. n
    BY <1>6
  <2>2. lo(j) + k - 1 \in 1 .. L /\ k <= NUbatch /\ ubs[j][k] = batch[lo(j) + k - 1]
    BY <1>5, <2>1
  <2> DEFINE r == (j - 1) * NUbatch
  <2>3. r \in Int /\ k \in Int /\ lo(j) = r + 1
    <3>1. j - 1 \in Int /\ k \in Int
      BY <1>3, <2>1
    <3> QED
      BY <1>1, <3>1 DEF lo
  <2> HIDE DEF r
  <2>4. lo(j) + k - 1 = r + k
    BY <2>3
  <2> QED
    BY <2>2, <2>4 DEF r
<1> QED
  BY <1>6, <1>7, <1>8 DEF ubs

\* The tokens of a sequence ascend from ubatch to ubatch.
Ordered(ubs) ==
    \A j, l \in 1 .. Len(ubs) : j < l => \A k \in 1 .. Len(ubs[j]), m \in 1 .. Len(ubs[l]) :
      ubs[j][k].seqs[1] = ubs[l][m].seqs[1] => ubs[j][k].pos < ubs[l][m].pos

LEMMA SplitOrdered ==
  ASSUME NEW batch, BatchTyped(batch), Ascending(batch)
  PROVE  Ordered(SplitSimple(batch))
<1> DEFINE ubs == SplitSimple(batch)
<1>1. /\ Len(ubs) \in Nat
      /\ \A j \in 1 .. Len(ubs) : \A k \in 1 .. Len(ubs[j]) :
           /\ (j - 1) * NUbatch + k \in 1 .. Len(batch) /\ k <= NUbatch
           /\ ubs[j][k] = batch[(j - 1) * NUbatch + k]
  BY SplitTyped DEF UbatchesOK
<1> HIDE DEF ubs
<1>2. SUFFICES ASSUME NEW j \in 1 .. Len(ubs), NEW l \in 1 .. Len(ubs), j < l,
                      NEW k \in 1 .. Len(ubs[j]), NEW m \in 1 .. Len(ubs[l]),
                      ubs[j][k].seqs[1] = ubs[l][m].seqs[1]
               PROVE  ubs[j][k].pos < ubs[l][m].pos
  BY DEF Ordered, ubs
<1> DEFINE a == (j - 1) * NUbatch
           b == (l - 1) * NUbatch
<1>3. /\ a + k \in 1 .. Len(batch) /\ k <= NUbatch /\ ubs[j][k] = batch[a + k]
      /\ b + m \in 1 .. Len(batch) /\ ubs[l][m] = batch[b + m]
  BY <1>1
<1>4. a \in Nat /\ b \in Nat /\ a + NUbatch <= b
  <2>1. j - 1 \in Nat /\ l - 1 \in Nat /\ l - 1 - j \in Nat /\ NUbatch \in Nat
    BY <1>1, <1>2, CacheAssumption
  <2> DEFINE x == j - 1
             y == l - 1 - j
  <2>2. x \in Nat /\ y \in Nat /\ l - 1 = x + y + 1
    BY <1>1, <2>1
  <2>3. b = (x + y + 1) * NUbatch /\ a = x * NUbatch
    BY <2>2
  <2> HIDE DEF x, y
  <2>4. (x + y + 1) * NUbatch = x * NUbatch + y * NUbatch + NUbatch
    BY <2>1, <2>2
  <2>5. x * NUbatch \in Nat /\ y * NUbatch \in Nat
    BY <2>1, <2>2
  <2> HIDE DEF a, b
  <2> QED
    BY <2>1, <2>3, <2>4, <2>5
<1> HIDE DEF a, b
<1>5. a + k < b + m
  BY <1>3, <1>4, CacheAssumption
<1> QED
  BY <1>2, <1>3, <1>5 DEF Ascending

-----------------------------------------------------------------------------
(* A defragmentation with moves for every hole packs the cache.            *)

\* A move of defrag_prepare fills a hole, or a part of one; there are as many cells
\* to fill as there are tokens beyond them, which is at most half the cells.
MovesSuffice == NCells <= 2 * MaxMoves

\* All tokens are in the first cells.
Packed(C) == \A i \in Cell : ~IsEmpty(C, i) => i < Cardinality(C.used)

\* The holes from i on that packing has to fill, and the tokens beyond them that
\* have no new place yet.
Holes(C, i) == {j \in i .. Cardinality(C.used) - 1 : IsEmpty(C, j)}
Far(C, ids) == {j \in Cardinality(C.used) .. UsedMaxP1(C) - 1 :
                  ~IsEmpty(C, j) /\ ids[j] = UsedMaxP1(C)}

\* Two sets that have nothing in common.
LEMMA Parts ==
  ASSUME NEW V, NEW W, IsFiniteSet(V), IsFiniteSet(W), V \intersect W = {}
  PROVE  /\ Cardinality(V) \in Nat /\ Cardinality(W) \in Nat /\ IsFiniteSet(V \union W)
         /\ Cardinality(V \union W) = Cardinality(V) + Cardinality(W)
<1>1. /\ IsFiniteSet(V \union W)
      /\ Cardinality(V \union W) = Cardinality(V) + Cardinality(W) - Cardinality(V \intersect W)
  BY FS_Union
<1>2. Cardinality(V) \in Nat /\ Cardinality(W) \in Nat /\ Cardinality(V \intersect W) = 0
  BY FS_CardinalityType, FS_EmptySet
<1> QED
  BY <1>1, <1>2

\* A set without its last h elements.
LEMMA LastRest ==
  ASSUME NEW n \in Nat, NEW L \in SUBSET (0 .. n), NEW h \in Nat
  PROVE  /\ IsFiniteSet(LastOf(L, h)) /\ Cardinality(LastOf(L, h)) \in 0 .. h
         /\ \/ L \ LastOf(L, h) = {}
            \/ Cardinality(L \ LastOf(L, h)) + h <= Cardinality(L)
<1> DEFINE T == LastOf(L, h)
           R == L \ T
<1>1. IsFiniteSet(L) /\ T \subseteq L /\ IsFiniteSet(T) /\ Cardinality(T) \in Nat /\ L \in SUBSET Nat
  <2>1. IsFiniteSet(0 .. n)
    BY FS_Interval
  <2>2. T \subseteq L
    BY DEF LastOf
  <2>3. L \subseteq 0 .. n
    OBVIOUS
  <2> HIDE DEF T
  <2>4. IsFiniteSet(L)
    BY <2>1, <2>3, FS_Subset
  <2>5. IsFiniteSet(T)
    BY <2>2, <2>4, FS_Subset
  <2>6. Cardinality(T) \in Nat
    BY <2>5, FS_CardinalityType
  <2> QED
    BY <2>2, <2>4, <2>5, <2>6
<1>2. Cardinality(T) <= h
  <2>1. CASE T = {}
    BY <2>1, FS_EmptySet
  <2>2. CASE T # {}
    <3>1. PICK m \in T : \A j \in T : m <= j
      <4> HIDE DEF T
      <4> QED
        BY <1>1, <2>2, LeastNat
    <3> DEFINE U == {j \in L : j >= m}
    <3>2. Cardinality(U) <= h
      BY <3>1 DEF LastOf
    <3>3. T \subseteq U /\ U \subseteq L
      <4>1. ASSUME NEW j \in T PROVE j \in L /\ j >= m
        <5>1. j \in L /\ j \in Nat /\ m \in Nat /\ m <= j
          BY <1>1, <3>1
        <5> QED
          BY <5>1
      <4> QED
        BY <4>1
    <3> HIDE DEF T, U
    <3>4. IsFiniteSet(U)
      BY <1>1, <3>3, FS_Subset
    <3>5. Cardinality(T) <= Cardinality(U) /\ Cardinality(U) \in Nat
      BY <3>3, <3>4, FS_Subset, FS_CardinalityType
    <3> QED
      BY <1>1, <3>2, <3>5
  <2> QED
    BY <2>1, <2>2
<1>3. ASSUME R # {} PROVE Cardinality(R) + h <= Cardinality(L)
  <2>1. R \subseteq L /\ R \in SUBSET (0 .. n)
    OBVIOUS
  <2>2. PICK m \in R : \A x \in R : x <= m
    <3> HIDE DEF R
    <3> QED
      BY <1>3, <2>1, MaxBelow
  <2> DEFINE V == {j \in L : j >= m}
             W == L \ V
  <2>3. ~(Cardinality(V) <= h)
    BY <2>2 DEF LastOf
  <2>4. R \subseteq W \union {m}
    <3> SUFFICES ASSUME NEW x \in R, x # m PROVE x \in L /\ ~(x >= m)
      OBVIOUS
    <3>1. x \in Nat /\ m \in Nat /\ x <= m
      BY <1>1, <2>2
    <3> QED
      BY <3>1
  <2>5. V \subseteq L /\ m \notin W
    <3>1. m \in Nat
      BY <1>1, <2>2
    <3>2. m >= m
      BY <3>1
    <3> QED
      BY <2>2, <3>2
  <2> HIDE DEF R, V
  <2>6. IsFiniteSet(V) /\ IsFiniteSet(W) /\ V \intersect W = {} /\ V \union W = L
    BY <1>1, <2>5, FS_Subset
  <2>7. Cardinality(V \union W) = Cardinality(V) + Cardinality(W)
    BY <2>6, Parts
  <2>8. IsFiniteSet(W \union {m}) /\ Cardinality(W \union {m}) = Cardinality(W) + 1
    BY <2>5, <2>6, FS_AddElement
  <2> HIDE DEF W
  <2>9. Cardinality(R) <= Cardinality(W) + 1 /\ Cardinality(R) \in Nat
    <3>1. Cardinality(R) <= Cardinality(W \union {m}) /\ IsFiniteSet(R)
      BY <2>4, <2>8, FS_Subset
    <3> QED
      BY <2>8, <3>1, FS_CardinalityType
  <2> DEFINE v == Cardinality(V)
             w == Cardinality(W)
             x == Cardinality(R)
             l == Cardinality(L)
  <2>10. v \in Nat /\ w \in Nat
    BY <2>6, FS_CardinalityType
  <2>11. l = v + w
    BY <2>6, <2>7
  <2>12. ~(v <= h) /\ x <= w + 1 /\ x \in Nat
    BY <2>3, <2>9
  <2> HIDE DEF v, w, x, l
  <2>13. x + h <= l
    BY <2>10, <2>11, <2>12
  <2> QED
    BY <2>13 DEF x, l
<1> HIDE DEF T
<1>4. Cardinality(T) \in 0 .. h
  BY <1>1, <1>2
<1> QED
  BY <1>1, <1>3, <1>4 DEF T

\* A token is below the end of the used cells.
LEMMA UsedBelow ==
  ASSUME NEW C, Good(C)
  PROVE  /\ \A i \in Cell : ~IsEmpty(C, i) => i \in 0 .. UsedMaxP1(C) - 1
         /\ C.used = {i \in Cell : ~IsEmpty(C, i)}
         /\ Cardinality(C.used) <= UsedMaxP1(C)
<1>1. C.used = {i \in Cell : ~IsEmpty(C, i)} /\ C.used \subseteq Cell
  BY DEF Good, UsedOK
<1>2. Cell = 0 .. NCells - 1 /\ NCells \in Nat \ {0}
  BY PosTyped DEF Cell
<1>3. ASSUME NEW i \in C.used PROVE i \in 0 .. UsedMaxP1(C) - 1
  <2>1. NCells - 1 \in Nat /\ C.used \in SUBSET (0 .. NCells - 1) /\ C.used # {}
    BY <1>1, <1>2
  <2>2. \E m \in C.used : \A x \in C.used : x <= m
    BY <2>1, MaxBelow
  <2>3. \E m \in C.used : \A x \in C.used : m >= x
    BY <1>1, <1>2, <2>2
  <2>4. Max(C.used) \in C.used /\ \A x \in C.used : Max(C.used) >= x
    BY <2>3 DEF Max
  <2>5. UsedMaxP1(C) = Max(C.used) + 1
    BY <2>1 DEF UsedMaxP1
  <2> DEFINE m == Max(C.used)
  <2>6. m \in Nat /\ i \in Nat /\ m >= i
    BY <1>1, <2>4, PosTyped
  <2> HIDE DEF m
  <2>7. i \in 0 .. (m + 1) - 1
    BY <2>6
  <2> QED
    BY <2>5, <2>7 DEF m
<1>4. Cardinality(C.used) <= UsedMaxP1(C)
  <2>1. C.used \subseteq 0 .. UsedMaxP1(C) - 1
    BY <1>3
  <2> QED
    BY <2>1, UsedTyped, FS_Subset
<1> QED
  BY <1>1, <1>3, <1>4

\* The states of the loop of defrag_prepare, when its moves suffice: the tokens
\* that have to go are no more than the holes that are left, and the moves that
\* were made leave one for each of these.
Packing(S, C) ==
    /\ FillOK(S, C)
    /\ Cardinality(Far(C, S.ids)) <= Cardinality(Holes(C, S.i0))
    /\ S.n + Cardinality(Holes(C, S.i0)) <= MaxMoves
    /\ \A i \in 0 .. UsedMaxP1(C) - 1 :
         /\ S.ids[i] # UsedMaxP1(C) => S.ids[i] < Cardinality(C.used)
         /\ S.n = 0 => S.ids[i] \in {i, UsedMaxP1(C)}

\* What there is to count is finite.
LEMMA FarTyped ==
  ASSUME NEW C, Good(C), NEW ids, NEW i \in Nat
  PROVE  /\ IsFiniteSet(Far(C, ids)) /\ Cardinality(Far(C, ids)) \in Nat
         /\ Far(C, ids) \in SUBSET (0 .. NCells)
         /\ IsFiniteSet(Holes(C, i)) /\ Cardinality(Holes(C, i)) \in Nat
<1> DEFINE n == Cardinality(C.used)
           m == UsedMaxP1(C)
<1>1. n \in 0 .. NCells /\ m \in 0 .. NCells /\ NCells \in Nat
  BY UsedTyped, PosTyped
<1>2. Far(C, ids) \subseteq n .. m - 1 /\ Holes(C, i) \subseteq i .. n - 1
  BY DEF Far, Holes
<1> HIDE DEF n, m
<1>3. IsFiniteSet(n .. m - 1) /\ IsFiniteSet(i .. n - 1) /\ n .. m - 1 \subseteq 0 .. NCells
  BY <1>1, FS_Interval
<1> QED
  BY <1>2, <1>3, FS_Subset, FS_CardinalityType

\* Before the loop: as many tokens are beyond the first cells as these have holes.
LEMMA PackingStart ==
  ASSUME MovesSuffice, NEW C, Good(C)
  PROVE  Packing(Unfilled(C), C)
<1> DEFINE n == Cardinality(C.used)
           m == UsedMaxP1(C)
           S == Unfilled(C)
           low == {i \in 0 .. n - 1 : ~IsEmpty(C, i)}
           high == {i \in n .. m - 1 : ~IsEmpty(C, i)}
           holes == {i \in 0 .. n - 1 : IsEmpty(C, i)}
<1>1. n \in 0 .. NCells /\ m \in 0 .. NCells /\ NCells \in Nat \ {0} /\ n <= m
  BY UsedTyped, UsedBelow, PosTyped
<1>2. S.i0 = 0 /\ S.n = 0 /\ S.ids = [i \in 0 .. m - 1 |-> m]
  BY DEF Unfilled
<1>3. FillOK(S, C)
  BY UsedTyped DEF Unfilled, FillOK, IdsOK
<1>4. C.used = low \union high /\ low \intersect high = {}
  <2>1. \A i \in 0 .. m - 1 : i \in Cell
    BY UsedTyped
  <2>2. ASSUME NEW i PROVE i \in C.used <=> i \in low \union high
    <3>1. CASE i \in C.used
      <4>1. i \in 0 .. m - 1 /\ ~IsEmpty(C, i)
        BY <3>1, UsedBelow
      <4> HIDE DEF n, m
      <4> QED
        BY <1>1, <3>1, <4>1
    <3>2. CASE i \in low \union high
      <4>1. i \in 0 .. m - 1 /\ ~IsEmpty(C, i)
        <5> HIDE DEF n, m
        <5> QED
          BY <1>1, <3>2
      <4> QED
        BY <2>1, <3>2, <4>1, UsedBelow
    <3> QED
      BY <3>1, <3>2
  <2>3. low \intersect high = {}
    <3> HIDE DEF n, m
    <3> QED
      BY <1>1
  <2> QED
    BY <2>2, <2>3
<1>5. 0 .. n - 1 = low \union holes /\ low \intersect holes = {}
  OBVIOUS
<1>6. Far(C, S.ids) = high /\ Holes(C, 0) = holes
  <2>1. \A i \in n .. m - 1 : S.ids[i] = m
    <3> HIDE DEF n, m, S
    <3>1. \A i \in n .. m - 1 : i \in 0 .. m - 1
      BY <1>1
    <3> QED
      BY <1>2, <3>1
  <2> QED
    BY <2>1 DEF Far, Holes
<1>7. /\ IsFiniteSet(0 .. n - 1) /\ Cardinality(0 .. n - 1) = n
      /\ IsFiniteSet(n .. m - 1) /\ Cardinality(n .. m - 1) = m - n
  <2> HIDE DEF n, m
  <2>1. 0 \in Int /\ n - 1 \in Int /\ n \in Int /\ m - 1 \in Int
    BY <1>1
  <2>2. /\ IsFiniteSet(0 .. n - 1) /\ Cardinality(0 .. n - 1) = IF 0 > n - 1 THEN 0 ELSE (n - 1) - 0 + 1
        /\ IsFiniteSet(n .. m - 1) /\ Cardinality(n .. m - 1) = IF n > m - 1 THEN 0 ELSE (m - 1) - n + 1
    BY <2>1, FS_Interval
  <2> QED
    BY <1>1, <2>1, <2>2
<1>8. IsFiniteSet(low) /\ IsFiniteSet(high) /\ IsFiniteSet(holes) /\ Cardinality(high) <= m - n
  <2>1. low \subseteq 0 .. n - 1 /\ holes \subseteq 0 .. n - 1 /\ high \subseteq n .. m - 1
    OBVIOUS
  <2> HIDE DEF low, high, holes, n, m
  <2>2. IsFiniteSet(low) /\ IsFiniteSet(holes)
    BY <1>7, <2>1, FS_Subset
  <2>3. IsFiniteSet(high) /\ Cardinality(high) <= Cardinality(n .. m - 1)
    BY <1>7, <2>1, FS_Subset
  <2> QED
    BY <1>7, <2>2, <2>3
<1>9. Cardinality(low \union high) = n
  BY <1>4
<1>10. Cardinality(low \union holes) = n
  BY <1>5, <1>7
<1> HIDE DEF low, high, holes, n, m, S
<1>11. /\ Cardinality(low) \in Nat /\ Cardinality(high) \in Nat /\ Cardinality(holes) \in Nat
       /\ Cardinality(low \union high) = Cardinality(low) + Cardinality(high)
       /\ Cardinality(low \union holes) = Cardinality(low) + Cardinality(holes)
  BY <1>4, <1>5, <1>8, Parts
<1>12. Cardinality(high) = Cardinality(holes) /\ Cardinality(holes) <= MaxMoves
  <2> DEFINE a == Cardinality(low)
             b == Cardinality(high)
             c == Cardinality(holes)
  <2>1. a \in Nat /\ b \in Nat /\ c \in Nat /\ a + b = n /\ a + c = n
    BY <1>9, <1>10, <1>11
  <2>2. b <= m - n /\ NCells <= 2 * MaxMoves /\ MaxMoves \in Nat
    BY <1>8, CacheAssumption DEF MovesSuffice
  <2> HIDE DEF a, b, c
  <2>3. b = c
    BY <1>1, <2>1
  <2>4. c <= MaxMoves
    BY <1>1, <2>1, <2>2, <2>3
  <2> QED
    BY <2>3, <2>4 DEF b, c
<1>13. \A i \in 0 .. m - 1 : S.ids[i] = m
  BY <1>2
<1>14. /\ Cardinality(Far(C, S.ids)) <= Cardinality(Holes(C, S.i0))
       /\ S.n + Cardinality(Holes(C, S.i0)) <= MaxMoves
  <2> DEFINE b == Cardinality(high)
             c == Cardinality(holes)
  <2>1. b = c /\ c <= MaxMoves /\ c \in Nat /\ Far(C, S.ids) = high /\ Holes(C, S.i0) = holes
    BY <1>2, <1>6, <1>11, <1>12
  <2> HIDE DEF b, c
  <2>2. b <= c /\ S.n + c <= MaxMoves
    BY <1>2, <2>1
  <2> QED
    BY <2>1, <2>2 DEF b, c
<1>15. ASSUME NEW i \in 0 .. m - 1
       PROVE  (S.ids[i] # m => S.ids[i] < n) /\ (S.n = 0 => S.ids[i] \in {i, m})
  BY <1>13
<1> QED
  BY <1>3, <1>14, <1>15 DEF Packing, S, m, n

\* A round at a token, and a round at a hole.
LEMMA StaysPacking ==
  ASSUME NEW C, Good(C), NEW S, Packing(S, C), S.i0 < Cardinality(C.used), ~IsEmpty(C, S.i0)
  PROVE  Packing(FillStep(S, C), C) /\ FillStep(S, C).i0 = S.i0 + 1
<1> DEFINE n == Cardinality(C.used)
           m == UsedMaxP1(C)
           i0 == S.i0
           ids == S.ids
           Z == FillStep(S, C)
<1>1. FillOK(S, C) /\ FillOK(Z, C)
  BY FillStays DEF Packing
<1>2. /\ i0 \in Nat /\ n \in Nat /\ m \in Nat /\ n <= m /\ i0 < n
      /\ ids \in [0 .. m - 1 -> Nat] /\ S.n \in Nat
  BY <1>1, UsedTyped, UsedBelow, PosTyped DEF FillOK
<1>3. Z.i0 = i0 + 1 /\ Z.n = S.n /\ Z.ids = [ids EXCEPT ![i0] = i0]
  <2>1. Z = [i0 |-> S.i0 + 1, n |-> S.n, ids |-> [S.ids EXCEPT ![S.i0] = S.i0]]
    BY <1>1, StaysIs
  <2> QED
    BY <2>1
<1> HIDE DEF Z
<1>4. \A i \in 0 .. m - 1 : Z.ids[i] = IF i = i0 THEN i0 ELSE ids[i]
  BY <1>2, <1>3
<1>5. Far(C, Z.ids) = Far(C, ids)
  <2>1. \A i \in n .. m - 1 : i \in 0 .. m - 1 /\ i # i0
    <3> HIDE DEF n, m, i0
    <3> QED
      BY <1>2
  <2>2. \A i \in n .. m - 1 : Z.ids[i] = ids[i]
    BY <1>4, <2>1
  <2> QED
    BY <2>2 DEF Far
<1>6. Holes(C, Z.i0) = Holes(C, i0)
  <2>1. \A j \in i0 .. n - 1 : j = i0 \/ j \in i0 + 1 .. n - 1
    BY <1>2
  <2>2. \A j \in i0 + 1 .. n - 1 : j \in i0 .. n - 1
    BY <1>2
  <2> QED
    BY <1>3, <2>1, <2>2 DEF Holes
<1>7. ASSUME NEW i \in 0 .. m - 1
      PROVE  (Z.ids[i] # m => Z.ids[i] < n) /\ (Z.n = 0 => Z.ids[i] \in {i, m})
  <2>1. (ids[i] # m => ids[i] < n) /\ (S.n = 0 => ids[i] \in {i, m})
    BY DEF Packing
  <2>2. Z.ids[i] = IF i = i0 THEN i0 ELSE ids[i]
    BY <1>4
  <2> HIDE DEF n, m, i0, ids
  <2> QED
    BY <1>2, <1>3, <2>1, <2>2
<1> QED
  BY <1>1, <1>3, <1>5, <1>6, <1>7 DEF Packing, Z

LEMMA MovesPacking ==
  ASSUME NEW C, Good(C), NEW S, Packing(S, C), S.i0 < Cardinality(C.used), IsEmpty(C, S.i0)
  PROVE  /\ Packing(FillStep(S, C), C)
         /\ FillStep(S, C).i0 = Cardinality(C.used) \/ FillStep(S, C).i0 >= S.i0 + 1
<1> DEFINE i0 == S.i0
           ids == S.ids
           n_used == Cardinality(C.used)
           n_kv == UsedMaxP1(C)
           hole == CHOOSE nh \in 1 .. n_used - i0 :
                     /\ \A i \in i0 .. i0 + nh - 1 : IsEmpty(C, i)
                     /\ i0 + nh < n_used => ~IsEmpty(C, i0 + nh)
           left == {i \in i0 .. n_kv - 1 : ~IsEmpty(C, i) /\ ids[i] = n_kv}
           movers == {i \in left : Cardinality({j \in left : j >= i}) <= hole}
           starts == {i \in movers : i - 1 \notin movers}
           moved == {i \in movers : S.n + Cardinality({j \in starts : j <= i}) <= MaxMoves}
           moves == S.n + Cardinality(starts \intersect moved)
           to(i) == i0 + Cardinality({j \in movers : j < i})
           new == [i \in 0 .. n_kv - 1 |-> IF i \in moved THEN to(i) ELSE ids[i]]
           next == IF moves = MaxMoves THEN n_used ELSE i0 + hole
           Z == FillStep(S, C)
           far == Far(C, ids)
           holes == Holes(C, i0)
           rest == Holes(C, i0 + hole)
<1>0. FillOK(S, C) /\ FillOK(Z, C)
  BY FillMoves DEF Packing
<1>1. /\ i0 \in Nat /\ i0 < n_used /\ n_used \in Nat /\ n_kv \in Nat /\ n_used <= n_kv
      /\ n_kv <= NCells /\ NCells \in Nat /\ S.n \in Nat /\ ids \in [0 .. n_kv - 1 -> Nat]
      /\ MaxMoves \in Nat
  BY <1>0, UsedTyped, UsedBelow, PosTyped, CacheAssumption DEF FillOK
<1>2. Z = [i0 |-> next, n |-> moves, ids |-> new]
  BY <1>1 DEF FillStep
<1>3. \E nh \in 1 .. n_used - i0 : /\ \A i \in i0 .. i0 + nh - 1 : IsEmpty(C, i)
                                   /\ i0 + nh < n_used => ~IsEmpty(C, i0 + nh)
  BY <1>1, HoleExists
<1>4. hole \in 1 .. n_used - i0 /\ \A i \in i0 .. i0 + hole - 1 : IsEmpty(C, i)
  BY <1>3
<1> HIDE DEF hole
<1>5. hole \in Nat /\ hole >= 1 /\ i0 + hole \in Nat /\ i0 + hole <= n_used
  BY <1>1, <1>4
<1>6. left \in SUBSET (0 .. NCells) /\ left \subseteq 0 .. n_kv - 1
  <2> HIDE DEF n_kv, i0
  <2> QED
    BY <1>1
<1>7. movers = LastOf(left, hole)
  BY DEF LastOf
<1>8. IsFiniteSet(movers) /\ Cardinality(movers) \in 0 .. hole
  <2> HIDE DEF movers, left
  <2> QED
    BY <1>1, <1>5, <1>6, <1>7, LastRest
<1>9. ASSUME NEW T \in SUBSET movers
      PROVE  IsFiniteSet(T) /\ Cardinality(T) \in Nat /\ Cardinality(T) <= hole
  <2> HIDE DEF movers
  <2>1. IsFiniteSet(T) /\ Cardinality(T) <= Cardinality(movers)
    BY <1>8, FS_Subset
  <2>2. Cardinality(T) \in Nat
    BY <2>1, FS_CardinalityType
  <2> QED
    BY <1>5, <1>8, <2>1, <2>2
\* The hole that is filled and those that are left.
<1>10. Cardinality(holes) = hole + Cardinality(rest) /\ Cardinality(rest) \in Nat
  <2> DEFINE H == i0 .. i0 + hole - 1
  <2>1. holes = H \union rest /\ H \intersect rest = {}
    <3>1. \A j \in H : IsEmpty(C, j)
      BY <1>4
    <3> HIDE DEF i0, n_used
    <3>2. \A j : j \in i0 .. n_used - 1 <=> j \in H \/ j \in i0 + hole .. n_used - 1
      BY <1>1, <1>5
    <3>3. \A j \in i0 + hole .. n_used - 1 : j \notin H
      BY <1>1, <1>5
    <3> HIDE DEF H
    <3>4. holes = {j \in i0 .. n_used - 1 : IsEmpty(C, j)} /\ rest = {j \in i0 + hole .. n_used - 1 : IsEmpty(C, j)}
      BY DEF Holes, n_used
    <3> HIDE DEF holes, rest
    <3> QED
      BY <3>1, <3>2, <3>3, <3>4
  <2>2. IsFiniteSet(H) /\ Cardinality(H) = hole
    <3> HIDE DEF i0
    <3>1. i0 \in Int /\ i0 + hole - 1 \in Int
      BY <1>1, <1>5
    <3>2. IsFiniteSet(H) /\ Cardinality(H) = IF i0 > i0 + hole - 1 THEN 0 ELSE (i0 + hole - 1) - i0 + 1
      BY <3>1, FS_Interval
    <3> QED
      BY <1>1, <1>5, <3>2
  <2>3. IsFiniteSet(rest)
    BY <1>5, FarTyped
  <2> HIDE DEF H, rest, holes
  <2> QED
    BY <2>1, <2>2, <2>3, Parts
<1>11. S.n + hole + Cardinality(rest) <= MaxMoves /\ Cardinality(far) <= hole + Cardinality(rest)
  <2>1. S.n + Cardinality(holes) <= MaxMoves /\ Cardinality(far) <= Cardinality(holes)
    BY DEF Packing
  <2> HIDE DEF holes, rest, far
  <2> QED
    BY <1>1, <1>5, <1>10, <2>1
\* There are moves for all of the movers.
<1>12. moved = movers
  <2> SUFFICES ASSUME NEW i \in movers
               PROVE  S.n + Cardinality({j \in starts : j <= i}) <= MaxMoves
    OBVIOUS
  <2> DEFINE T == {j \in starts : j <= i}
  <2>1. T \in SUBSET movers
    OBVIOUS
  <2>2. Cardinality(T) \in Nat /\ Cardinality(T) <= hole
    BY <1>9, <2>1
  <2> DEFINE t == Cardinality(T)
             y == Cardinality(rest)
  <2> HIDE DEF T, rest
  <2>3. y \in Nat /\ S.n + hole + y <= MaxMoves /\ t \in Nat /\ t <= hole
    BY <1>10, <1>11, <2>2
  <2> HIDE DEF t, y
  <2>4. S.n + t <= MaxMoves
    BY <1>1, <1>5, <2>3
  <2> QED
    BY <2>4 DEF t, T
<1>13. moves = S.n + Cardinality(starts) /\ Cardinality(starts) \in Nat /\ Cardinality(starts) <= hole
  <2>1. starts \in SUBSET movers
    OBVIOUS
  <2>2. starts \intersect moved = starts
    BY <1>12
  <2> QED
    BY <1>9, <2>1, <2>2
<1> HIDE DEF moved
\* None of them is left among the tokens that have to go.
<1>14. ASSUME NEW i \in movers PROVE to(i) \in Nat /\ to(i) < n_used /\ i \in 0 .. n_kv - 1
  <2>1. \A x \in LastOf(left, hole) : Under(LastOf(left, hole), x) \in 0 .. hole - 1
    <3>1. IsFiniteSet(left) /\ left \in SUBSET Nat
      <4>1. IsFiniteSet(0 .. NCells)
        BY <1>1, FS_Interval
      <4> HIDE DEF left
      <4>2. left \subseteq 0 .. NCells
        BY <1>6
      <4>3. IsFiniteSet(left)
        BY <4>1, <4>2, FS_Subset
      <4> QED
        BY <4>2, <4>3
    <3> HIDE DEF left
    <3> QED
      BY <1>5, <3>1, LastOnes
  <2>2. Cardinality({j \in movers : j < i}) \in 0 .. hole - 1
    BY <1>7, <2>1 DEF Under
  <2>3. i \in 0 .. n_kv - 1
    BY <1>6
  <2> HIDE DEF movers, i0, n_used
  <2> QED
    BY <1>1, <1>5, <2>2, <2>3
<1> HIDE DEF to
<1>15. \A i \in 0 .. n_kv - 1 : new[i] = IF i \in movers THEN to(i) ELSE ids[i]
  BY <1>12
<1> DEFINE gone == LastOf(far, hole)
<1>16. Far(C, new) \subseteq far \ gone
  <2> SUFFICES ASSUME NEW i \in Far(C, new) PROVE i \in far /\ i \notin gone
    OBVIOUS
  <2>1. i \in n_used .. n_kv - 1 /\ ~IsEmpty(C, i) /\ new[i] = n_kv
    BY DEF Far
  <2>2. i \in 0 .. n_kv - 1 /\ i \in i0 .. n_kv - 1
    <3> HIDE DEF n_used, n_kv, i0
    <3> QED
      BY <1>1, <2>1
  <2>3. i \notin movers /\ ids[i] = n_kv
    <3>1. ASSUME i \in movers PROVE FALSE
      <4>1. new[i] = to(i) /\ to(i) < n_used /\ to(i) \in Nat
        BY <1>14, <1>15, <2>2, <3>1
      <4> HIDE DEF n_used, n_kv, new
      <4> QED
        BY <1>1, <2>1, <4>1
    <3> QED
      BY <1>15, <2>1, <2>2, <3>1
  <2>4. i \in far /\ i \in left
    BY <2>1, <2>2, <2>3 DEF Far
  <2>5. {j \in far : j >= i} = {j \in left : j >= i}
    <3>1. ASSUME NEW j \in far, j >= i PROVE j \in left
      <4>1. j \in n_used .. n_kv - 1 /\ ~IsEmpty(C, j) /\ ids[j] = n_kv
        BY DEF Far
      <4>2. j \in i0 .. n_kv - 1
        <5> HIDE DEF n_used, n_kv, i0
        <5> QED
          BY <1>1, <4>1
      <4> QED
        BY <4>1, <4>2
    <3>2. ASSUME NEW j \in left, j >= i PROVE j \in far
      <4>1. j \in i0 .. n_kv - 1 /\ ~IsEmpty(C, j) /\ ids[j] = n_kv
        OBVIOUS
      <4>2. j \in n_used .. n_kv - 1
        <5> HIDE DEF n_used, n_kv, i0
        <5> QED
          BY <1>1, <2>1, <3>2, <4>1
      <4> QED
        BY <4>1, <4>2 DEF Far
    <3> HIDE DEF left, far
    <3> QED
      BY <3>1, <3>2
  <2>6. ASSUME i \in gone PROVE i \in movers
    <3>1. Cardinality({j \in far : j >= i}) <= hole
      BY <2>6 DEF LastOf
    <3> QED
      BY <2>4, <2>5, <3>1
  <2> QED
    BY <2>3, <2>4, <2>6
<1>17. Cardinality(Far(C, new)) <= Cardinality(rest) /\ Cardinality(Far(C, new)) \in Nat
  <2> DEFINE fars == Far(C, new)
             stay == far \ gone
  <2>1. /\ far \in SUBSET (0 .. NCells) /\ IsFiniteSet(far) /\ Cardinality(far) \in Nat
        /\ Cardinality(fars) \in Nat
    BY <1>1, FarTyped
  <2>2. stay = {} \/ Cardinality(stay) + hole <= Cardinality(far)
    <3> HIDE DEF far
    <3> QED
      BY <1>1, <1>5, <2>1, LastRest
  <2>3. IsFiniteSet(stay) /\ Cardinality(stay) \in Nat
    <3> HIDE DEF far, gone
    <3> QED
      BY <2>1, FS_Subset, FS_CardinalityType
  <2>4. Cardinality(stay) <= Cardinality(rest)
    <3>1. stay = {} => Cardinality(stay) = 0
      BY FS_EmptySet
    <3> HIDE DEF stay, far, rest
    <3> QED
      BY <1>5, <1>10, <1>11, <2>1, <2>2, <2>3, <3>1
  <2>5. fars \subseteq stay
    BY <1>16
  <2> HIDE DEF fars, stay, rest
  <2>6. Cardinality(fars) <= Cardinality(stay)
    BY <2>3, <2>5, FS_Subset
  <2> DEFINE x == Cardinality(fars)
             y == Cardinality(stay)
             z == Cardinality(rest)
  <2>7. x <= y /\ y <= z /\ x \in Nat /\ y \in Nat /\ z \in Nat
    BY <1>10, <2>1, <2>3, <2>4, <2>6
  <2> HIDE DEF x, y, z
  <2>8. x <= z /\ x \in Nat
    BY <2>7
  <2> QED
    BY <2>8 DEF x, z, fars
\* If the moves are used up there is no hole left.
<1>18. /\ Cardinality(Far(C, new)) <= Cardinality(Holes(C, next))
       /\ moves + Cardinality(Holes(C, next)) <= MaxMoves
  <2>1. CASE moves = MaxMoves
    <3>1. Holes(C, next) = {}
      <4>1. next = n_used
        BY <2>1
      <4> HIDE DEF next
      <4>2. n_used .. n_used - 1 = {}
        <5> HIDE DEF n_used
        <5> QED
          BY <1>1
      <4> QED
        BY <4>1, <4>2 DEF Holes
    <3>2. Cardinality(Holes(C, next)) = 0
      BY <3>1, FS_EmptySet
    <3> DEFINE x == Cardinality(Far(C, new))
               y == Cardinality(Holes(C, next))
               z == Cardinality(rest)
    <3>3. x <= z /\ x \in Nat /\ y = 0
      BY <1>17, <3>2
    <3> HIDE DEF x, y, rest, starts
    <3> QED
      BY <1>1, <1>5, <1>10, <1>11, <1>13, <2>1, <3>3 DEF x, y
  <2>2. CASE moves # MaxMoves
    <3>1. next = i0 + hole
      BY <2>2
    <3>2. Holes(C, next) = rest
      BY <3>1
    <3> HIDE DEF rest, starts, next, moves
    <3>3. moves + Cardinality(rest) <= MaxMoves
      BY <1>1, <1>5, <1>10, <1>11, <1>13
    <3> QED
      BY <1>17, <3>2, <3>3
  <2> QED
    BY <2>1, <2>2
<1>19. ASSUME NEW i \in 0 .. n_kv - 1
       PROVE  (new[i] # n_kv => new[i] < n_used) /\ (moves = 0 => new[i] \in {i, n_kv})
  <2>1. (ids[i] # n_kv => ids[i] < n_used) /\ (S.n = 0 => ids[i] \in {i, n_kv})
    BY DEF Packing
  <2>2. new[i] = IF i \in movers THEN to(i) ELSE ids[i]
    BY <1>15
  <2>3. new[i] # n_kv => new[i] < n_used
    BY <1>14, <2>1, <2>2
  <2>4. ASSUME moves = 0 PROVE i \notin movers /\ S.n = 0
    <3>1. S.n = 0 /\ Cardinality(starts) = 0
      <4> HIDE DEF moves, starts
      <4> QED
        BY <1>1, <1>13, <2>4
    <3>2. starts = {}
      <4>1. starts \in SUBSET movers
        OBVIOUS
      <4> HIDE DEF starts, movers
      <4>2. IsFiniteSet(starts)
        BY <1>9, <4>1
      <4> QED
        BY <3>1, <4>2, FS_EmptySet
    <3>3. ASSUME movers # {} PROVE FALSE
      <4>1. movers \in SUBSET Nat
        BY <1>6
      <4>2. PICK k \in movers : \A j \in movers : k <= j
        <5> HIDE DEF movers
        <5> QED
          BY <3>3, <4>1, LeastNat
      <4>3. k - 1 \notin movers
        <5>1. k \in Nat /\ ~(k <= k - 1)
          BY <4>1, <4>2
        <5> QED
          BY <4>2, <5>1
      <4> QED
        BY <3>2, <4>2, <4>3
    <3> QED
      BY <3>1, <3>3
  <2> HIDE DEF new, movers, moves
  <2> QED
    BY <2>1, <2>2, <2>3, <2>4
<1> HIDE DEF new, moves
<1>20. next = n_used \/ next >= i0 + 1
  <2> HIDE DEF n_used, i0
  <2> QED
    BY <1>1, <1>5
<1> HIDE DEF next, Z
<1>21. Z.i0 = next /\ Z.n = moves /\ Z.ids = new
  BY <1>2
<1> QED
  BY <1>0, <1>18, <1>19, <1>20, <1>21 DEF Packing, Z

\* Each round gets to the next cell or beyond, so that after as many as there are
\* tokens no token is left beyond the holes.
LEMMA FillPacks ==
  ASSUME MovesSuffice, NEW C, Good(C)
  PROVE  Packing(Fill(C), C) /\ Far(C, Fill(C).ids) = {}
<1> DEFINE n == Cardinality(C.used)
           F == [i0 : Nat, n : Nat, ids : [0 .. UsedMaxP1(C) - 1 -> Nat]]
           On(S, k) == Packing(S, C) /\ (S.i0 = n \/ S.i0 >= k)
           A == [k \in 0 .. n |-> {S \in F : On(S, k)}]
<1>1. n \in Nat
  BY UsedTyped
<1>2. On(Unfilled(C), 0)
  BY PackingStart DEF Unfilled
<1>3. ASSUME NEW S, NEW k \in 1 .. n, On(S, k - 1) PROVE On(FillStep(S, C), k)
  <2>1. S.i0 \in Nat /\ S.i0 <= n /\ FillOK(S, C)
    BY <1>3 DEF Packing, FillOK
  <2>2. CASE S.i0 < n /\ ~IsEmpty(C, S.i0)
    <3>1. Packing(FillStep(S, C), C) /\ FillStep(S, C).i0 = S.i0 + 1
      BY <1>3, <2>2, StaysPacking
    <3> HIDE DEF n
    <3> QED
      BY <1>1, <1>3, <2>1, <2>2, <3>1
  <2>3. CASE S.i0 < n /\ IsEmpty(C, S.i0)
    <3>1. /\ Packing(FillStep(S, C), C)
          /\ FillStep(S, C).i0 = n \/ FillStep(S, C).i0 >= S.i0 + 1
      BY <1>3, <2>3, MovesPacking
    <3>2. FillStep(S, C).i0 \in Nat
      BY <3>1 DEF Packing, FillOK
    <3> HIDE DEF n
    <3> QED
      BY <1>1, <1>3, <2>1, <2>3, <3>1, <3>2
  <2>4. CASE ~(S.i0 < n)
    <3>1. S.i0 >= n /\ S.i0 = n
      BY <1>1, <2>1, <2>4
    <3>2. FillStep(S, C) = S
      BY <2>4, <3>1 DEF FillStep
    <3> QED
      BY <1>3, <3>1, <3>2
  <2> QED
    BY <2>2, <2>3, <2>4
<1>4. \A S, k : On(S, k) => S \in F
  BY DEF Packing, FillOK
<1>5. Fill(C) = FillRound!Result(Unfilled(C), Rounds(n), C, 0, 0, 0)
  BY DEF Fill, Loop, FillRound!Result
<1> HIDE DEF F, On
<1>6. FillRound!Keeps(A, Unfilled(C), Rounds(n), C, 0, 0, 0)
  <2>1. Unfilled(C) \in A[0]
    BY <1>1, <1>2, <1>4
  <2>2. \A k \in 1 .. Len(Rounds(n)) : \A S \in A[k - 1] : FillStep(S, C) \in A[k]
    <3>1. \A k \in 1 .. n : k - 1 \in 0 .. n /\ k \in 0 .. n
      BY <1>1
    <3> QED
      BY <1>1, <1>3, <1>4, <3>1, Orders
  <2> HIDE DEF A
  <2> QED
    BY <2>1, <2>2 DEF FillRound!Keeps
<1>7. Fill(C) \in A[n]
  <2> HIDE DEF A
  <2>i. FillRound!Inductive
    BY Induct DEF FillRound!Inductive
  <2>1. Len(Rounds(n)) = n
    BY <1>1, Orders
  <2>2. FillRound!Result(Unfilled(C), Rounds(n), C, 0, 0, 0) \in A[Len(Rounds(n))]
    BY <1>1, <1>6, <2>1, <2>i, FillRound!Invariant
  <2> QED
    BY <1>5, <2>1, <2>2
<1> DEFINE S == Fill(C)
<1>8. On(S, n)
  BY <1>1, <1>7
<1> HIDE DEF S
<1>9. Packing(S, C) /\ S.i0 = n
  <2>1. S.i0 \in Nat /\ S.i0 <= n
    BY <1>8 DEF On, Packing, FillOK
  <2> QED
    BY <1>1, <1>8, <2>1 DEF On
<1>10. Holes(C, S.i0) = {}
  <2>1. n .. n - 1 = {}
    BY <1>1
  <2> QED
    BY <1>9, <2>1 DEF Holes
<1>11. Far(C, S.ids) = {}
  <2>1. Cardinality(Far(C, S.ids)) <= 0
    BY <1>9, <1>10, FS_EmptySet DEF Packing
  <2>2. IsFiniteSet(Far(C, S.ids)) /\ Cardinality(Far(C, S.ids)) \in Nat
    BY <1>1, FarTyped
  <2>3. Cardinality(Far(C, S.ids)) = 0
    BY <2>1, <2>2
  <2> QED
    BY <2>2, <2>3, FS_EmptySet
<1> QED
  BY <1>9, <1>11 DEF S

\* What defrag_prepare returns brings every token to one of the first cells.
LEMMA PlanPacks ==
  ASSUME MovesSuffice, NEW C, Good(C), NEW i \in Cell, ~IsEmpty(C, i)
  PROVE  LET ids == DefragPrepare(C) IN
         IF Moved(ids, i) THEN ids[i] < Cardinality(C.used) ELSE i < Cardinality(C.used)
<1> DEFINE n == Cardinality(C.used)
           m == UsedMaxP1(C)
           S == Fill(C)
           q == S.ids
<1>1. Packing(S, C) /\ Far(C, q) = {}
  BY FillPacks
<1>2. i \in 0 .. m - 1 /\ n \in Nat /\ m \in Nat /\ n <= m
  BY UsedBelow, UsedTyped, PosTyped
<1> HIDE DEF S
<1>3. q \in [0 .. m - 1 -> Nat] /\ S.n \in Nat
  BY <1>1 DEF Packing, FillOK
<1>4. Cardinality(DOMAIN q) = m
  BY <1>3, UsedTyped
<1>5. (q[i] # m => q[i] < n) /\ (S.n = 0 => q[i] \in {i, m})
  BY <1>1, <1>2 DEF Packing
<1>6. q[i] = m => i < n
  <2> SUFFICES ASSUME q[i] = m, ~(i < n) PROVE FALSE
    OBVIOUS
  <2>1. i \in n .. m - 1
    BY <1>2
  <2> QED
    BY <1>1, <2>1 DEF Far
<1>7. CASE S.n = 0
  <2>1. DefragPrepare(C) = <<>> /\ ~Moved(<<>>, i)
    BY <1>7 DEF DefragPrepare, S, Moved
  <2>2. i < n
    BY <1>5, <1>6, <1>7
  <2> QED
    BY <2>1, <2>2
<1>8. CASE S.n # 0
  <2>1. DefragPrepare(C) = q
    BY <1>8 DEF DefragPrepare, S
  <2>2. Moved(q, i) = (q[i] # m /\ q[i] # i)
    BY <1>2, <1>3, <1>4 DEF Moved
  <2>3. IF Moved(q, i) THEN q[i] < n ELSE i < n
    BY <1>5, <1>6, <2>2
  <2> QED
    BY <2>1, <2>3
<1> QED
  BY <1>7, <1>8

\* The moves are planned for D, whose cells M has.
LEMMA DefragPacks ==
  ASSUME MovesSuffice, NEW M, Sound(M), NEW D, Good(D),
         \A i \in Cell : IsEmpty(M.c, i) = IsEmpty(D, i)
  PROVE  Packed(Defrag(M, DefragPrepare(D)).c) /\ (DefragPrepare(D) = <<>> => Packed(M.c))
<1> DEFINE ids == DefragPrepare(D)
           N == Defrag(M, ids)
           n == Cardinality(D.used)
           to == [i \in M.c.used |-> IF Moved(ids, i) THEN ids[i] ELSE i]
<1>1. Plan(D, ids)
  BY PlanOK
<1>2. \A i \in Cell : ~IsEmpty(D, i) => IF Moved(ids, i) THEN ids[i] < n ELSE i < n
  BY PlanPacks
<1> HIDE DEF ids
<1>3. Plan(M.c, ids)
  BY <1>1 DEF Plan
<1>4. /\ Sound(N)
      /\ \A i \in Cell : Moved(ids, i) => At(N.c, i) = Gone /\ At(N.c, ids[i]) = At(M.c, i)
      /\ \A i \in Cell : ~Moved(ids, i) /\ (\A j \in Cell : Moved(ids, j) => ids[j] # i)
                         => At(N.c, i) = At(M.c, i)
  BY <1>3, DefragDone
<1> HIDE DEF N
<1>5. M.c.used = {i \in Cell : ~IsEmpty(M.c, i)} /\ N.c.used = {i \in Cell : ~IsEmpty(N.c, i)}
  BY <1>4 DEF Sound, Good, UsedOK
<1>6. M.c.used = D.used
  <2>1. D.used = {i \in Cell : ~IsEmpty(D, i)}
    BY DEF Good, UsedOK
  <2> QED
    BY <1>5, <2>1
<1>7. ASSUME NEW i \in Cell, ~IsEmpty(M.c, i), ~Moved(ids, i) PROVE At(N.c, i) = At(M.c, i)
  <2>1. \A j \in Cell : Moved(ids, j) => ids[j] # i
    BY <1>3, <1>7 DEF Plan
  <2> QED
    BY <1>4, <1>7, <2>1
\* What is not empty afterwards is the place of a token.
<1>8. ASSUME NEW i \in Cell, ~IsEmpty(N.c, i) PROVE i < n
  <2>1. ~Moved(ids, i)
    BY <1>4, <1>8 DEF At, Gone, IsEmpty
  <2>2. CASE \E j \in Cell : Moved(ids, j) /\ ids[j] = i
    <3>1. PICK j \in Cell : Moved(ids, j) /\ ids[j] = i
      BY <2>2
    <3>2. ~IsEmpty(D, j)
      BY <1>1, <3>1 DEF Plan
    <3> QED
      BY <1>2, <3>1, <3>2
  <2>3. CASE \A j \in Cell : Moved(ids, j) => ids[j] # i
    <3>1. At(N.c, i) = At(M.c, i)
      BY <1>4, <2>1, <2>3
    <3>2. ~IsEmpty(D, i)
      BY <1>8, <3>1 DEF At, IsEmpty
    <3> QED
      BY <1>2, <2>1, <3>2
  <2> QED
    BY <2>2, <2>3
\* No token is lost.
<1>9. n <= Cardinality(N.c.used) /\ n \in Nat /\ Cardinality(N.c.used) \in Nat
  <2>1. \A i \in M.c.used : i \in Cell /\ ~IsEmpty(M.c, i)
    BY <1>5
  <2>2. ASSUME NEW i \in M.c.used PROVE to[i] \in N.c.used
    <3>1. CASE Moved(ids, i)
      <4>1. ids[i] \in Cell /\ At(N.c, ids[i]) = At(M.c, i)
        BY <1>3, <1>4, <2>1, <3>1 DEF Plan
      <4>2. ~IsEmpty(N.c, ids[i])
        BY <2>1, <4>1 DEF At, IsEmpty
      <4> QED
        BY <1>5, <3>1, <4>1, <4>2
    <3>2. CASE ~Moved(ids, i)
      <4>1. ~IsEmpty(N.c, i)
        BY <1>7, <2>1, <3>2 DEF At, IsEmpty
      <4> QED
        BY <1>5, <2>1, <3>2, <4>1
    <3> QED
      BY <3>1, <3>2
  <2>3. ASSUME NEW i \in M.c.used, NEW j \in M.c.used, to[i] = to[j] PROVE i = j
    <3>1. CASE Moved(ids, i) /\ Moved(ids, j)
      BY <1>3, <2>3, <3>1 DEF Plan
    <3>2. CASE ~Moved(ids, i) /\ ~Moved(ids, j)
      BY <2>3, <3>2
    <3>3. CASE Moved(ids, i) /\ ~Moved(ids, j)
      BY <1>3, <2>1, <2>3, <3>3 DEF Plan
    <3>4. CASE ~Moved(ids, i) /\ Moved(ids, j)
      BY <1>3, <2>1, <2>3, <3>4 DEF Plan
    <3> QED
      BY <3>1, <3>2, <3>3, <3>4
  <2>4. to \in Injection(M.c.used, N.c.used)
    <3>1. to \in [M.c.used -> N.c.used]
      BY <2>2
    <3> QED
      BY <2>3, <3>1 DEF Injection, IsInjective
  <2>5. IsFiniteSet(N.c.used) /\ N.c.used \subseteq Cell
    BY <1>5, FiniteCells, FS_Subset
  <2> HIDE DEF to
  <2>6. Cardinality(M.c.used) <= Cardinality(N.c.used)
    BY <2>4, <2>5, FS_Injection
  <2>7. Cardinality(N.c.used) \in Nat
    BY <2>5, FS_CardinalityType
  <2>8. n \in Nat
    BY UsedTyped
  <2> QED
    BY <1>6, <2>6, <2>7, <2>8
<1>10. Packed(N.c)
  <2> SUFFICES ASSUME NEW i \in Cell, ~IsEmpty(N.c, i) PROVE i < Cardinality(N.c.used)
    BY DEF Packed
  <2>1. i < n /\ i \in Nat
    BY <1>8, PosTyped
  <2> HIDE DEF n
  <2> QED
    BY <1>9, <2>1
<1>11. ids = <<>> => Packed(M.c)
  <2> SUFFICES ASSUME ids = <<>>, NEW i \in Cell, ~IsEmpty(M.c, i) PROVE i < Cardinality(M.c.used)
    BY DEF Packed
  <2>1. ~Moved(ids, i)
    BY DEF Moved
  <2> QED
    BY <1>2, <1>6, <2>1
<1> QED
  BY <1>10, <1>11 DEF N, ids

\* An update that defragments packs the cache, unless it waits for a shift that failed.
LEMMA UpdatePacks ==
  ASSUME MovesSuffice, NEW M, Sound(M), NEW u \in Update(M, TRUE)
  PROVE  Packed(u.m.c) \/ u.m.c.has_shift
<1> DEFINE ids == DefragPrepare(M.c)
           did == M.c.has_shift \/ ids # <<>>
           Shifted == IF ~M.c.has_shift THEN M ELSE KShift(M)
           Done == IF ids = <<>> THEN Shifted ELSE Defrag(Shifted, ids)
<1>1. \/ u = [m |-> Done, did |-> did]
      \/ M.c.has_shift /\ u = [m |-> M, did |-> did]
      \/ u = [m |-> [Done EXCEPT !.d = Shifted.d], did |-> did]
  BY DEF Update
<1>2. /\ Sound(Shifted)
      /\ \A i \in Cell : IsEmpty(Shifted.c, i) = IsEmpty(M.c, i)
  BY KShiftKept
<1>3. Good(M.c)
  BY DEF Sound
<1>4. Plan(Shifted.c, ids)
  <2>1. Plan(M.c, ids)
    BY <1>3, PlanOK
  <2> HIDE DEF ids, Shifted
  <2> QED
    BY <1>2, <2>1 DEF Plan
<1> HIDE DEF Shifted, did
<1>5. Packed(Done.c) /\ Sound(Done)
  <2>1. Packed(Defrag(Shifted, ids).c) /\ (ids = <<>> => Packed(Shifted.c))
    BY <1>2, <1>3, DefragPacks
  <2> HIDE DEF ids
  <2>2. Sound(Defrag(Shifted, ids))
    BY <1>2, <1>4, DefragKept
  <2> QED
    BY <1>2, <2>1, <2>2
<1> HIDE DEF Done
<1>6. [Done EXCEPT !.d = Shifted.d].c = Done.c
  <2>1. \A d : [Done EXCEPT !.d = d] = [c |-> Done.c, h |-> Done.h, d |-> d]
    BY <1>5, SoundWith
  <2> QED
    BY <2>1
<1>7. CASE u = [m |-> Done, did |-> did]
  <2>1. u.m = Done
    BY <1>7
  <2> QED
    BY <1>5, <2>1
<1>8. CASE M.c.has_shift /\ u = [m |-> M, did |-> did]
  <2>1. u.m = M
    BY <1>8
  <2> QED
    BY <1>8, <2>1
<1>9. CASE u = [m |-> [Done EXCEPT !.d = Shifted.d], did |-> did]
  <2>1. u.m.c = Done.c
    BY <1>6, <1>9
  <2> QED
    BY <1>5, <2>1
<1> HIDE DEF ids
<1> QED
  BY <1>1, <1>7, <1>8, <1>9

\* In a packed cache find_slot fails only if there are too few cells.
LEMMA PackedFits ==
  ASSUME NEW M, Sound(M), Packed(M.c), NEW n \in Nat, FindSlot(M, n) = -1
  PROVE  Cardinality(M.c.used) + n > NCells
<1> DEFINE h == Cardinality(M.c.used)
<1>1. h \in Nat /\ NCells \in Nat /\ Good(M.c)
  BY UsedTyped, PosTyped DEF Sound
<1>2. SUFFICES ASSUME h + n <= NCells PROVE FALSE
  <2> HIDE DEF h
  <2>1. ~(h + n <= NCells) => h + n > NCells
    BY <1>1
  <2> QED
    BY <1>2, <2>1 DEF h
<1>3. \A i \in Cell : ~IsEmpty(M.c, i) => i < h
  BY DEF Packed
<1> HIDE DEF h
<1>4. ASSUME NEW i \in 0 .. n - 1 PROVE CanUse(M.c, h + i)
  <2>1. h + i \in Cell /\ ~(h + i < h)
    BY <1>1, <1>2 DEF Cell
  <2> QED
    BY <1>3, <2>1 DEF CanUse
<1>5. n <= NCells /\ h \in 0 .. NCells - n
  BY <1>1, <1>2
<1> QED
  BY <1>4, <1>5, FindSlotDone DEF NoSlot, Slot

-----------------------------------------------------------------------------
(* Batches of one ubatch that get no slot.                                 *)

\* A batch of at most NUbatch tokens is one ubatch.
LEMMA SplitOne ==
  ASSUME NEW batch, BatchTyped(batch), Len(batch) <= NUbatch
  PROVE  Len(SplitSimple(batch)) = 1 /\ Len(SplitSimple(batch)[1]) = Len(batch)
<1> DEFINE L == Len(batch)
           n == (L + NUbatch - 1) \div NUbatch
           lo(k) == (k - 1) * NUbatch + 1
           hi(k) == Min({k * NUbatch, L})
           T == {1 * NUbatch, L}
<1>1. /\ batch \in Seq(Tokened) /\ L \in Nat /\ L >= 1 /\ L <= NUbatch /\ NUbatch \in Nat \ {0}
  BY CacheAssumption DEF BatchTyped
<1>2. n = 1
  <2> DEFINE a == L + NUbatch - 1
             r == a % NUbatch
  <2>1. a \in Nat /\ NUbatch <= a /\ a < 2 * NUbatch
    BY <1>1
  <2> HIDE DEF a
  <2>2. n \in Int /\ r \in Int /\ 0 <= r /\ r < NUbatch /\ a = NUbatch * n + r
    BY <1>1, <2>1 DEF a
  <2> HIDE DEF n, r
  <2>3. n >= 2 => NUbatch * n >= 2 * NUbatch
    BY <1>1, <2>2
  <2>4. n <= 0 => NUbatch * n <= 0
    BY <1>1, <2>2
  <2> DEFINE x == NUbatch * n
  <2>5. x \in Int
    BY <1>1, <2>2
  <2> HIDE DEF x
  <2>6. a = x + r /\ (n >= 2 => x >= 2 * NUbatch) /\ (n <= 0 => x <= 0)
    BY <2>2, <2>3, <2>4 DEF x
  <2> QED
    BY <1>1, <2>1, <2>2, <2>5, <2>6
<1>3. Min(T) = L
  <2>1. T \in SUBSET Nat /\ T # {} /\ L \in T /\ \A y \in T : L <= y
    BY <1>1
  <2> HIDE DEF T, L
  <2>2. Min(T) \in T /\ \A y \in T : Min(T) <= y
    BY <2>1, MinNat
  <2>3. Min(T) \in Nat /\ L \in Nat /\ Min(T) <= L /\ L <= Min(T)
    BY <2>1, <2>2
  <2> QED
    BY <2>3
<1>4. SplitSimple(batch) = [k \in 1 .. n |-> SubSeq(batch, lo(k), hi(k))]
  BY DEF SplitSimple
<1>5. lo(1) = 1 /\ hi(1) = L
  BY <1>1, <1>3
<1> HIDE DEF n, lo, hi
<1>6. Len(SplitSimple(batch)) = 1 /\ SplitSimple(batch)[1] = SubSeq(batch, lo(1), hi(1))
  <2> DEFINE part(k) == SubSeq(batch, lo(k), hi(k))
             ubs == SplitSimple(batch)
  <2> HIDE DEF part, ubs
  <2>1. ubs = [k \in 1 .. 1 |-> part(k)]
    BY <1>2, <1>4 DEF part, ubs
  <2>2. Len(ubs) = 1 /\ ubs[1] = part(1)
    BY <2>1
  <2> QED
    BY <2>2 DEF part, ubs
<1>7. Len(SubSeq(batch, 1, L)) = L
  BY <1>1
<1> QED
  BY <1>5, <1>6, <1>7

\* One ubatch is tried in the slot that find_slot finds for it.
LEMMA TrialOne ==
  ASSUME NEW M, NEW ubs, Len(ubs) = 1
  PROVE  Trial(M, ubs) = TakeSlot([m |-> M, ok |-> TRUE, heads |-> <<>>, saved |-> <<>>], ubs[1],
                                  FindSlot(M, Len(ubs[1])))
<1> DEFINE x == [m |-> M, ok |-> TRUE, heads |-> <<>>, saved |-> <<>>]
           P == TrySlot(x, ubs[1])
           A == [k \in 0 .. 1 |-> IF k = 0 THEN {x} ELSE {P}]
<1>1. Trial(M, ubs) = TryRound!Result(x, ubs, 0, 0, 0, 0)
  BY DEF Trial, Loop, TryRound!Result
<1>2. TryRound!Keeps(A, x, ubs, 0, 0, 0, 0)
  <2>1. x \in A[0]
    OBVIOUS
  <2>2. \A k \in 1 .. 1 : \A y \in A[k - 1] : TrySlot(y, ubs[k]) \in A[k]
    <3>1. A[0] = {x} /\ A[1] = {P} /\ 1 - 1 = 0 /\ 1 .. 1 = {1}
      OBVIOUS
    <3> QED
      BY <3>1
  <2> HIDE DEF A, x
  <2> QED
    BY <2>1, <2>2 DEF TryRound!Keeps
<1>3. Trial(M, ubs) = P
  <2>1. A[1] = {P} /\ Len(ubs) = 1 /\ Len(ubs) \in Nat
    OBVIOUS
  <2> HIDE DEF A, P, x
  <2>i. TryRound!Inductive
    BY Induct DEF TryRound!Inductive
  <2>2. TryRound!Result(x, ubs, 0, 0, 0, 0) \in A[Len(ubs)]
    BY <1>2, <2>1, <2>i, TryRound!Invariant
  <2> QED
    BY <1>1, <2>1, <2>2
<1>4. P = TakeSlot(x, ubs[1], FindSlot(M, Len(ubs[1])))
  BY DEF TrySlot
<1> QED
  BY <1>3, <1>4

\* No slot is found for one ubatch: the cache is as it was.
LEMMA TryNone ==
  ASSUME NEW M, Sound(M), NEW ubs, Len(ubs) = 1, UbatchOK(ubs[1])
  PROVE  LET r == Prepare(M, ubs) IN
         r.heads = <<>> => r.m = M /\ FindSlot(M, Len(ubs[1])) = -1
<1> DEFINE x == [m |-> M, ok |-> TRUE, heads |-> <<>>, saved |-> <<>>]
           P == Trial(M, ubs)
           f == FindSlot(M, Len(ubs[1]))
<1>4. f = -1 \/ f \in Nat
  BY FindSlotDone DEF UbatchOK, Slot
<1>5. P = TakeSlot(x, ubs[1], f)
  BY TrialOne
<1>6. Prepare(M, ubs) = [m |-> Restored(P), heads |-> IF P.ok THEN P.heads ELSE <<>>]
  BY DEF Prepare, Outcome
<1> HIDE DEF P, f
<1>7. CASE f \in Nat
  <2>1. ~(f < 0)
    BY <1>7
  <2>2. P = [m |-> Apply(M, f, ubs[1]), ok |-> TRUE, heads |-> Append(<<>>, f),
             saved |-> <<[at |-> f, n |-> Len(ubs[1]), old |-> M]>> \o <<>>]
    BY <1>5, <2>1 DEF TakeSlot
  <2>3. P.ok /\ P.heads = <<f>>
    BY <2>2
  <2>4. <<f>> # <<>>
    OBVIOUS
  <2> QED
    BY <1>6, <2>3, <2>4
<1>8. CASE f = -1
  <2>1. f < 0
    BY <1>8
  <2>2. P = [x EXCEPT !.ok = FALSE]
    BY <1>5, <2>1 DEF TakeSlot
  <2>3. P.m = M /\ P.saved = <<>>
    BY <2>2
  <2>4. Restored(P) = M
    <3> DEFINE B == [k \in 0 .. 0 |-> {M}]
    <3>1. Restored(P) = RestoreRound!Result(M, <<>>, 0, 0, 0, 0)
      BY <2>3 DEF Restored, Loop, RestoreRound!Result
    <3>2. Len(<<>>) = 0 /\ 1 .. 0 = {} /\ B[0] = {M}
      OBVIOUS
    <3> HIDE DEF B
    <3>3. RestoreRound!Keeps(B, M, <<>>, 0, 0, 0, 0)
      BY <3>2 DEF RestoreRound!Keeps
    <3>i. RestoreRound!Inductive
      BY Induct DEF RestoreRound!Inductive
    <3>4. RestoreRound!Result(M, <<>>, 0, 0, 0, 0) \in B[Len(<<>>)]
      BY <3>2, <3>3, <3>i, RestoreRound!Invariant
    <3> QED
      BY <3>1, <3>2, <3>4
  <2> QED
    BY <1>6, <1>8, <2>4 DEF f
<1> QED
  BY <1>4, <1>7, <1>8

\* The same for a cache with a window, which is asked twice.
LEMMA InitNone ==
  ASSUME NEW M, Sound(M), NEW ubs, Len(ubs) = 1, UbatchOK(ubs[1]), InitBatch(M, ubs).heads = <<>>
  PROVE  InitBatch(M, ubs).m = M /\ FindSlot(M, Len(ubs[1])) = -1
<1> DEFINE a == Prepare(M, ubs)
<1>1. a.heads = <<>> => a.m = M /\ FindSlot(M, Len(ubs[1])) = -1
  BY TryNone
<1>2. InitBatch(M, ubs) = IF a.heads = <<>> /\ SwaType # "none" THEN Prepare(a.m, ubs) ELSE a
  BY DEF InitBatch, AskTwice
<1>3. CASE a.heads = <<>>
  <2>1. a.m = M /\ FindSlot(M, Len(ubs[1])) = -1
    BY <1>1, <1>3
  <2>2. InitBatch(M, ubs) = a
    <3>1. Prepare(a.m, ubs) = a
      BY <2>1
    <3> HIDE DEF a
    <3> QED
      BY <1>2, <3>1
  <2> HIDE DEF a
  <2> QED
    BY <2>1, <2>2
<1>4. CASE a.heads # <<>>
  <2> HIDE DEF a
  <2> QED
    BY <1>2, <1>4
<1> QED
  BY <1>3, <1>4

\* After an update that defragments, a ubatch that gets no slot does not fit.
LEMMA NoRoom ==
  ASSUME MovesSuffice, NEW M, Sound(M), NEW v \in Update(M, TRUE), NEW n \in Nat,
         FindSlot(v.m, n) = -1
  PROVE  v.m.c.has_shift \/ Cardinality(v.m.c.used) + n > NCells
<1>1. Packed(v.m.c) \/ v.m.c.has_shift
  BY UpdatePacks
<1>2. Sound(v.m)
  BY UpdateDone
<1> DEFINE K == v.m
<1> HIDE DEF K
<1>3. Sound(K) /\ FindSlot(K, n) = -1 /\ (Packed(K.c) \/ K.c.has_shift)
  BY <1>1, <1>2 DEF K
<1>4. Packed(K.c) => Cardinality(K.c.used) + n > NCells
  BY <1>3, PackedFits
<1>5. K.c.has_shift \/ Cardinality(K.c.used) + n > NCells
  BY <1>3, <1>4
<1> QED
  BY <1>5 DEF K

-----------------------------------------------------------------------------
(* Which positions a sequence has.                                         *)

\* The positions of a sequence are those of its cells: the counts of seq_pos are
\* kept with the cells.
LEMMA PresentIs ==
  ASSUME NEW C, Good(C), NEW s \in Seqs
  PROVE  \A p : p \in Present(C, s) <=> \E i \in Cell : s \in C.seq[i] /\ C.pos[i] = p
<1>1. ASSUME NEW p \in Pos
      PROVE  p \in Present(C, s) <=> \E i \in Cell : s \in C.seq[i] /\ C.pos[i] = p
  <2> DEFINE H == Holding(C, s, p)
  <2>1. IsFiniteSet(H)
    <3>1. H \subseteq Cell /\ IsFiniteSet(Cell)
      BY FiniteCells DEF Holding
    <3> QED
      BY <3>1, FS_Subset
  <2>2. C.seq_pos[s][p] = Cardinality(H)
    BY DEF Good, CountsOK
  <2>3. H # {} <=> \E i \in Cell : s \in C.seq[i] /\ C.pos[i] = p
    BY DEF Holding
  <2> HIDE DEF H
  <2>4. Cardinality(H) \in Nat /\ (Cardinality(H) = 0 <=> H = {})
    BY <2>1, FS_CardinalityType, FS_EmptySet
  <2>5. p \in Present(C, s) <=> Cardinality(H) > 0
    BY <2>2 DEF Present
  <2> QED
    BY <2>3, <2>4, <2>5
<1>2. ASSUME NEW i \in Cell, s \in C.seq[i] PROVE C.pos[i] \in Pos
  BY <1>2, RangeFull
<1>3. \A p \in Present(C, s) : p \in Pos
  BY DEF Present
<1> QED
  BY <1>1, <1>2, <1>3

\* A cell keeps its position as long as it is in a sequence.
KeepsPos(C, D) == \A i \in Cell : D.seq[i] # {} => D.pos[i] = C.pos[i]

\* seq_rm takes the sequences out of the cells in the range, and moves none.
LEMMA SeqRmSeqs ==
  ASSUME NEW M, Sound(M), NEW s, NEW p0, NEW p1, s \in Seqs \/ (s = -1 /\ p0 \in Int)
  PROVE  LET N == SeqRm(M, s, p0, p1) IN
         /\ Sound(N) /\ KeepsPos(M.c, N.c)
         /\ \A i \in Cell : N.c.seq[i] =
              {t \in M.c.seq[i] : ~(InRange(M.c, i, p0, p1) /\ (s = -1 \/ t = s))}
<1> DEFINE N == SeqRm(M, s, p0, p1)
<1>1. Sound(N) /\ Holds(N.c, AfterRm(M.c, s, p0, p1))
  BY SeqRmDone
<1> HIDE DEF N
<1>2. s < 0 <=> s = -1
  <2>1. \A t \in Seqs : ~(t < 0) /\ t # -1
    <3>1. \A t \in Seqs : t \in Nat
      BY CellsAssumption
    <3> QED
      BY <3>1
  <2> QED
    BY <2>1
<1>3. ASSUME NEW i \in Cell
      PROVE  /\ N.c.seq[i] = {t \in M.c.seq[i] : ~(InRange(M.c, i, p0, p1) /\ (s = -1 \/ t = s))}
             /\ N.c.seq[i] # {} => N.c.pos[i] = M.c.pos[i]
  <2> DEFINE in == InRange(M.c, i, p0, p1)
             S == {t \in M.c.seq[i] : ~(in /\ (s = -1 \/ t = s))}
  <2>1. At(N.c, i) = IF in /\ s = -1 THEN Gone
                     ELSE IF in /\ s \in M.c.seq[i] THEN Without(M.c, i, s) ELSE At(M.c, i)
    BY <1>1, <1>2 DEF Holds, AfterRm
  <2> HIDE DEF in
  <2>2. CASE in /\ s = -1
    <3>1. N.c.seq[i] = {}
      BY <2>1, <2>2 DEF At, Gone
    <3> QED
      BY <2>2, <3>1 DEF in
  <2>3. CASE in /\ s # -1 /\ s \in M.c.seq[i]
    <3>1. At(N.c, i) = Without(M.c, i, s)
      BY <2>1, <2>3
    <3>2. S = M.c.seq[i] \ {s}
      BY <2>3
    <3>3. N.c.seq[i] = M.c.seq[i] \ {s} /\ (N.c.seq[i] # {} => N.c.pos[i] = M.c.pos[i])
      BY <3>1 DEF Without, At, Gone
    <3> QED
      BY <3>2, <3>3 DEF in
  <2>4. CASE ~in \/ (s # -1 /\ s \notin M.c.seq[i])
    <3>1. At(N.c, i) = At(M.c, i)
      BY <2>1, <2>4
    <3>2. S = M.c.seq[i]
      BY <2>4
    <3> QED
      BY <3>1, <3>2 DEF At, in
  <2> QED
    BY <2>2, <2>3, <2>4
<1> QED
  BY <1>1, <1>3 DEF N, KeepsPos

\* Removing a range of positions from a sequence, or from all of them.
LEMMA SeqRmPresent ==
  ASSUME NEW M, Sound(M), NEW s, NEW p0, NEW p1, s \in Seqs \/ (s = -1 /\ p0 \in Int), NEW t \in Seqs
  PROVE  Present(SeqRm(M, s, p0, p1).c, t) =
         {p \in Present(M.c, t) : ~(From(p0) <= p /\ p < End(p1) /\ (s = -1 \/ t = s))}
<1> DEFINE N == SeqRm(M, s, p0, p1)
<1>1. /\ Sound(N) /\ KeepsPos(M.c, N.c)
      /\ \A i \in Cell : N.c.seq[i] =
           {u \in M.c.seq[i] : ~(InRange(M.c, i, p0, p1) /\ (s = -1 \/ u = s))}
  BY SeqRmSeqs
<1> HIDE DEF N
<1>2. Good(M.c) /\ Good(N.c)
  BY <1>1 DEF Sound
<1>3. \A i \in Cell : InRange(M.c, i, p0, p1) <=> From(p0) <= M.c.pos[i] /\ M.c.pos[i] < End(p1)
  <2>1. \A x, y : x >= y <=> y <= x
    OBVIOUS
  <2> QED
    BY <2>1 DEF InRange, PosIn
<1>4. \A i \in Cell : t \in N.c.seq[i] =>
        /\ t \in M.c.seq[i] /\ N.c.pos[i] = M.c.pos[i]
        /\ ~(From(p0) <= M.c.pos[i] /\ M.c.pos[i] < End(p1) /\ (s = -1 \/ t = s))
  BY <1>1, <1>3 DEF KeepsPos
<1>5. \A i \in Cell :
        t \in M.c.seq[i] /\ ~(From(p0) <= M.c.pos[i] /\ M.c.pos[i] < End(p1) /\ (s = -1 \/ t = s))
          => t \in N.c.seq[i] /\ N.c.pos[i] = M.c.pos[i]
  BY <1>1, <1>3 DEF KeepsPos
<1>6. \A p : p \in Present(M.c, t) <=> \E i \in Cell : t \in M.c.seq[i] /\ M.c.pos[i] = p
  BY <1>2, PresentIs
<1>7. \A p : p \in Present(N.c, t) <=> \E i \in Cell : t \in N.c.seq[i] /\ N.c.pos[i] = p
  BY <1>2, PresentIs
<1>8. \A p : p \in Present(N.c, t) <=>
        p \in Present(M.c, t) /\ ~(From(p0) <= p /\ p < End(p1) /\ (s = -1 \/ t = s))
  BY <1>4, <1>5, <1>6, <1>7
<1> QED
  BY <1>8 DEF N

\* Shifts and defragmentations leave every sequence its positions.
LEMMA UpdatePresent ==
  ASSUME NEW M, Sound(M), NEW optimize \in BOOLEAN, NEW u \in Update(M, optimize), NEW s \in Seqs
  PROVE  Present(u.m.c, s) = Present(M.c, s)
<1>e. ASSUME NEW X, NEW Y, Sound(X), Sound(Y), EntriesOf(X) = EntriesOf(Y)
      PROVE  Present(X.c, s) = Present(Y.c, s)
  <2>1. ASSUME NEW Z, Sound(Z) PROVE \A p : p \in Present(Z.c, s) <=> \E e \in EntriesOf(Z) : s \in e.seqs /\ e.pos = p
    <3>1. \A p : p \in Present(Z.c, s) <=> \E i \in Cell : s \in Z.c.seq[i] /\ Z.c.pos[i] = p
      BY <2>1, PresentIs DEF Sound
    <3>2. \A i \in Cell : s \in Z.c.seq[i] => ~IsEmpty(Z.c, i)
      BY <2>1, RangeFull DEF Sound
    <3>3. ASSUME NEW p, NEW i \in Cell, s \in Z.c.seq[i] /\ Z.c.pos[i] = p
          PROVE  \E e \in EntriesOf(Z) : s \in e.seqs /\ e.pos = p
      <4>1. EntryAt(Z, i) \in EntriesOf(Z)
        BY <3>2, <3>3 DEF EntriesOf
      <4>2. EntryAt(Z, i).seqs = Z.c.seq[i] /\ EntryAt(Z, i).pos = Z.c.pos[i]
        BY DEF EntryAt
      <4> QED
        BY <3>3, <4>1, <4>2
    <3>4. ASSUME NEW p, NEW e \in EntriesOf(Z), s \in e.seqs /\ e.pos = p
          PROVE  \E i \in Cell : s \in Z.c.seq[i] /\ Z.c.pos[i] = p
      <4>1. PICK i \in Cell : e = EntryAt(Z, i)
        BY DEF EntriesOf
      <4>2. EntryAt(Z, i).seqs = Z.c.seq[i] /\ EntryAt(Z, i).pos = Z.c.pos[i]
        BY DEF EntryAt
      <4> QED
        BY <3>4, <4>1, <4>2
    <3> QED
      BY <3>1, <3>3, <3>4
  <2>2. \A p : p \in Present(X.c, s) <=> \E e \in EntriesOf(X) : s \in e.seqs /\ e.pos = p
    BY <1>e, <2>1
  <2>3. \A p : p \in Present(Y.c, s) <=> \E e \in EntriesOf(X) : s \in e.seqs /\ e.pos = p
    BY <1>e, <2>1
  <2> QED
    BY <2>2, <2>3
<1> DEFINE ids == IF optimize THEN DefragPrepare(M.c) ELSE <<>>
           did == M.c.has_shift \/ ids # <<>>
           Shifted == IF ~M.c.has_shift THEN M ELSE KShift(M)
           Done == IF ids = <<>> THEN Shifted ELSE Defrag(Shifted, ids)
<1>1. Good(M.c)
  BY DEF Sound
<1>2. Plan(M.c, ids)
  BY <1>1, PlanOK
<1>3. \/ u = [m |-> Done, did |-> did]
      \/ u = [m |-> M, did |-> did]
      \/ u = [m |-> [Done EXCEPT !.d = Shifted.d], did |-> did]
  BY DEF Update
<1> HIDE DEF ids, did
<1>4. /\ Sound(Shifted) /\ EntriesOf(Shifted) = EntriesOf(M)
      /\ \A i \in Cell : IsEmpty(Shifted.c, i) = IsEmpty(M.c, i)
  BY KShiftKept
<1> HIDE DEF Shifted
<1>5. Plan(Shifted.c, ids)
  BY <1>2, <1>4 DEF Plan
<1>6. Sound(Done) /\ EntriesOf(Done) = EntriesOf(M)
  BY <1>4, <1>5, DefragKept
<1> HIDE DEF Done
<1>7. Present(Done.c, s) = Present(M.c, s)
  BY <1>6, <1>e
<1>8. [Done EXCEPT !.d = Shifted.d] = [c |-> Done.c, h |-> Done.h, d |-> Shifted.d]
  <2>1. \A d : [Done EXCEPT !.d = d] = [c |-> Done.c, h |-> Done.h, d |-> d]
    BY <1>6, SoundWith
  <2> QED
    BY <2>1
<1>9. u.m.c = Done.c \/ u.m.c = M.c
  <2>1. CASE u = [m |-> [Done EXCEPT !.d = Shifted.d], did |-> did]
    <3>1. u.m = [c |-> Done.c, h |-> Done.h, d |-> Shifted.d]
      BY <1>8, <2>1
    <3> QED
      BY <3>1
  <2> QED
    BY <1>3, <2>1
<1> QED
  BY <1>7, <1>9

\* seq_keep leaves the one sequence as it was, and nothing of the others.
LEMMA KeepPresent ==
  ASSUME NEW M, Sound(M), NEW s \in Seqs, NEW t \in Seqs
  PROVE  Present(SeqKeep(M, s).c, t) = IF t = s THEN Present(M.c, t) ELSE {}
<1> DEFINE N == SeqKeep(M, s)
<1>1. Sound(N) /\ Holds(N.c, AfterKeep(M.c, s))
  BY SeqKeepDone
<1> HIDE DEF N
<1>2. Good(M.c) /\ Good(N.c)
  BY <1>1 DEF Sound
<1>3. ASSUME NEW i \in Cell
      PROVE  /\ t \in N.c.seq[i] <=> t = s /\ s \in M.c.seq[i]
             /\ t \in N.c.seq[i] => N.c.pos[i] = M.c.pos[i]
  <2>1. At(N.c, i) = IF s \in M.c.seq[i]
                     THEN [pos |-> M.c.pos[i], seq |-> {s}, shift |-> M.c.shift[i]]
                     ELSE IF M.c.seq[i] # {} THEN Gone ELSE At(M.c, i)
    BY <1>1 DEF Holds, AfterKeep
  <2>2. CASE s \in M.c.seq[i]
    <3>1. At(N.c, i) = [pos |-> M.c.pos[i], seq |-> {s}, shift |-> M.c.shift[i]]
      BY <2>1, <2>2
    <3>2. N.c.seq[i] = {s} /\ N.c.pos[i] = M.c.pos[i]
      BY <3>1 DEF At
    <3> QED
      BY <2>2, <3>2
  <2>3. CASE s \notin M.c.seq[i]
    <3>1. At(N.c, i) = Gone \/ (M.c.seq[i] = {} /\ At(N.c, i) = At(M.c, i))
      BY <2>1, <2>3
    <3>2. N.c.seq[i] = {}
      BY <3>1 DEF At, Gone
    <3> QED
      BY <2>3, <3>2
  <2> QED
    BY <2>2, <2>3
<1>4. \A p : p \in Present(M.c, t) <=> \E i \in Cell : t \in M.c.seq[i] /\ M.c.pos[i] = p
  BY <1>2, PresentIs
<1>5. \A p : p \in Present(N.c, t) <=> \E i \in Cell : t \in N.c.seq[i] /\ N.c.pos[i] = p
  BY <1>2, PresentIs
<1>6. \A p : p \in Present(N.c, t) <=> t = s /\ p \in Present(M.c, t)
  BY <1>3, <1>4, <1>5
<1> QED
  BY <1>6 DEF N

\* The last position of a sequence is that of its positions.
LEMMA MaxIs ==
  ASSUME NEW C, NEW D, NEW s, Present(C, s) = Present(D, s)
  PROVE  SeqPosMax(C, s) = SeqPosMax(D, s)
  BY DEF SeqPosMax

-----------------------------------------------------------------------------
(* What a ubatch overwrites and purges.                                    *)

\* A purge takes the positions up to the last one that was overwritten.
LEMMA PurgeSeqs ==
  ASSUME NEW N, Sound(N), NEW s \in Seqs, NEW last \in Pos \union {-1}
  PROVE  LET R == Purge(N, s, last) IN
         /\ Sound(R) /\ KeepsPos(N.c, R.c)
         /\ \A i \in Cell : R.c.seq[i] = {t \in N.c.seq[i] : t = s => N.c.pos[i] > last}
<1> DEFINE least == SeqPosMin(N.c, s)
           Q == SeqRm(N, s, least, last + 1)
           Purging == last # -1 /\ least <= last
<1>1. Good(N.c)
  BY DEF Sound
<1>2. ASSUME NEW i \in Cell, s \in N.c.seq[i]
      PROVE  N.c.pos[i] \in Int /\ 0 <= N.c.pos[i] /\ least \in Int /\ 0 <= least /\ least <= N.c.pos[i]
  <2>1. N.c.pos[i] \in Present(N.c, s)
    BY <1>1, <1>2, PresentIs
  <2>2. least \in Present(N.c, s) /\ least <= N.c.pos[i]
    BY <2>1, SeqPosTyped
  <2>3. Present(N.c, s) \subseteq Nat
    BY PosTyped DEF Present
  <2> HIDE DEF least
  <2> QED
    BY <2>1, <2>2, <2>3
<1>3. last \in Int /\ -1 <= last
  BY PosTyped
<1>4. Purge(N, s, last) = IF Purging THEN Q ELSE N
  BY DEF Purge
<1>5. CASE Purging
  <2>1. /\ Sound(Q) /\ KeepsPos(N.c, Q.c)
        /\ \A i \in Cell : Q.c.seq[i] =
             {t \in N.c.seq[i] : ~(InRange(N.c, i, least, last + 1) /\ (s = -1 \/ t = s))}
    BY SeqRmSeqs
  <2>2. s # -1
    BY CellsAssumption
  <2>3. ASSUME NEW i \in Cell, s \in N.c.seq[i]
        PROVE  InRange(N.c, i, least, last + 1) <=> ~(N.c.pos[i] > last)
    <3> DEFINE p == N.c.pos[i]
    <3>1. p \in Int /\ 0 <= p /\ least \in Int /\ 0 <= least /\ least <= p
      BY <1>2, <2>3
    <3>2. From(least) = least /\ End(last + 1) = last + 1
      <4> HIDE DEF least
      <4> QED
        BY <1>3, <1>5, <3>1 DEF From, End
    <3>3. InRange(N.c, i, least, last + 1) <=> p >= least /\ p < last + 1
      BY <3>2 DEF InRange, PosIn
    <3> HIDE DEF p, least
    <3>4. (p >= least /\ p < last + 1) <=> ~(p > last)
      BY <1>3, <3>1
    <3> QED
      BY <3>3, <3>4 DEF p, least
  <2> HIDE DEF Q, least
  <2>4. ASSUME NEW i \in Cell
        PROVE  Q.c.seq[i] = {t \in N.c.seq[i] : t = s => N.c.pos[i] > last}
    BY <2>1, <2>2, <2>3
  <2>5. Purge(N, s, last) = Q
    BY <1>4, <1>5
  <2> QED
    BY <2>1, <2>4, <2>5
<1>6. CASE ~Purging
  <2>1. ASSUME NEW i \in Cell PROVE N.c.seq[i] = {t \in N.c.seq[i] : t = s => N.c.pos[i] > last}
    <3>1. ASSUME s \in N.c.seq[i] PROVE N.c.pos[i] > last
      <4> DEFINE p == N.c.pos[i]
      <4>1. p \in Int /\ 0 <= p /\ least \in Int /\ 0 <= least /\ least <= p
        BY <1>2, <3>1
      <4> HIDE DEF least, p
      <4>2. p > last
        BY <1>3, <1>6, <4>1
      <4> QED
        BY <4>2 DEF p
    <3> QED
      BY <3>1
  <2>2. KeepsPos(N.c, N.c)
    BY DEF KeepsPos
  <2> HIDE DEF Q, Purging
  <2>3. Purge(N, s, last) = N
    BY <1>4, <1>6
  <2> QED
    BY <2>1, <2>2, <2>3
<1> QED
  BY <1>5, <1>6

\* The last position that a ubatch overwrites in a sequence.
LEMMA OverwrittenIs ==
  ASSUME NEW M, Sound(M), NEW h \in Nat, NEW n \in Nat, h + n <= NCells, NEW s \in Seqs
  PROVE  LET o == Overwritten(M, h, n, s) IN
         /\ o \in Pos \union {-1}
         /\ \A i \in h .. h + n - 1 : s \in M.c.seq[i] => M.c.pos[i] <= o
         /\ o # -1 => \E i \in h .. h + n - 1 : s \in M.c.seq[i] /\ M.c.pos[i] = o
<1> DEFINE P == {M.c.pos[i] : i \in {j \in h .. h + n - 1 : s \in M.c.seq[j]}}
           T == {-1} \union P
           o == Overwritten(M, h, n, s)
<1>1. h .. h + n - 1 \subseteq Cell
  BY PosTyped DEF Cell
<1>2. P \subseteq Pos
  BY <1>1, RangeFull DEF Sound
<1>3. o = Max(T)
  BY DEF Overwritten
<1>4. \A i \in h .. h + n - 1 : s \in M.c.seq[i] => M.c.pos[i] \in P
  OBVIOUS
<1>5. \A p \in P : \E i \in h .. h + n - 1 : s \in M.c.seq[i] /\ M.c.pos[i] = p
  OBVIOUS
<1> HIDE DEF P, o
<1>6. \E m \in T : \A x \in T : m >= x
  <2>1. CASE P = {}
    BY <2>1
  <2>2. CASE P # {}
    <3>1. P \in SUBSET (0 .. MaxPos) /\ MaxPos \in Nat
      BY <1>2, PosTyped DEF Pos
    <3>2. PICK m \in P : \A x \in P : x <= m
      BY <2>2, <3>1, MaxBelow
    <3>3. \A x \in P : x \in Nat
      BY <1>2, PosTyped
    <3>4. \A x \in T : m >= x
      BY <3>2, <3>3
    <3> QED
      BY <3>2, <3>4
  <2> QED
    BY <2>1, <2>2
<1>7. Max(T) \in T /\ \A x \in T : Max(T) >= x
  BY <1>6 DEF Max
<1>8. o \in Pos \union {-1} /\ (o # -1 => o \in P)
  BY <1>2, <1>3, <1>7
<1>9. \A x \in P : x <= o
  <2>1. \A x \in Pos : x \in Int
    BY PosTyped
  <2>2. o \in Int
    BY <1>8, <2>1
  <2> QED
    BY <1>2, <1>3, <1>7, <2>1, <2>2
<1> QED
  BY <1>4, <1>5, <1>8, <1>9 DEF o

\* A loop over the sequences comes to each of them.
LEMMA SeqOrderAll == \A s \in Seqs : \E k \in 1 .. Len(SeqOrder) : s = SeqOrder[k]
<1>1. Cardinality(Seqs) \in Nat /\ Seqs = 0 .. Cardinality(Seqs) - 1
  BY CacheAssumption, FS_CardinalityType
<1> SUFFICES ASSUME NEW s \in Seqs PROVE s + 1 \in 1 .. Len(SeqOrder) /\ s = SeqOrder[s + 1]
  OBVIOUS
<1>2. s \in Nat /\ s + 1 \in 1 .. Cardinality(Seqs) /\ (s + 1) - 1 = s
  BY <1>1
<1> QED
  BY <1>1, <1>2 DEF SeqOrder

\* What apply_ubatch leaves in the cells: the tokens it has placed and the
\* others, but for the positions up to the last one overwritten.
LEMMA ApplySeqs ==
  ASSUME NEW M, Sound(M), NEW h \in Nat, NEW ub, UbatchOK(ub), h + Len(ub) <= NCells
  PROVE  LET N == Apply(M, h, ub)
             D == Placed(M, h, ub) IN
         /\ Sound(N) /\ KeepsPos(D, N.c)
         /\ \A i \in Cell : N.c.seq[i] =
              {s \in D.seq[i] : D.pos[i] > Overwritten(M, h, Len(ub), s)}
<1> DEFINE D == Placed(M, h, ub)
           n == Len(ub)
           x == [M EXCEPT !.c = D]
           o(s) == Overwritten(M, h, n, s)
           L == Len(SeqOrder)
           Kept(N, k) ==
             /\ Sound(N) /\ KeepsPos(D, N.c)
             /\ \A i \in Cell : N.c.seq[i] =
                  {t \in D.seq[i] : \A j \in 1 .. k : t = SeqOrder[j] => D.pos[i] > o(t)}
           A == [k \in 0 .. L |-> {N \in Caches : Kept(N, k)}]
           R == PurgeRound!Result(x, SeqOrder, M, h, n, 0)
<1>1. Good(D) /\ n \in Nat /\ h + n <= NCells
  BY PlacedDone DEF UbatchOK
<1>2. \A s \in Seqs : o(s) \in Pos \union {-1}
  BY <1>1, OverwrittenIs
<1>3. Apply(M, h, ub) = [R EXCEPT !.h = h + n]
  BY DEF Apply, Loop, PurgeRound!Result
<1> HIDE DEF D, o
<1>4. x \in A[0]
  <2>1. x = [c |-> D, h |-> M.h, d |-> M.d]
    BY SoundWith
  <2>2. M.h \in 0 .. NCells /\ M.d \in [Cell -> Row]
    BY SoundWith
  <2>3. Sound([c |-> D, h |-> M.h, d |-> M.d])
    BY <1>1, <2>2, SoundIs
  <2>4. Sound(x) /\ x.c = D
    BY <2>1, <2>3
  <2> HIDE DEF x
  <2>5. \A i \in Cell : x.c.seq[i] = {t \in D.seq[i] : \A j \in 1 .. 0 : t = SeqOrder[j] => D.pos[i] > o(t)}
    BY <2>4
  <2>6. Kept(x, 0)
    BY <2>4, <2>5 DEF KeepsPos
  <2>7. 0 \in 0 .. L
    BY SeqOrders
  <2> QED
    BY <2>4, <2>6, <2>7 DEF Sound
<1> HIDE DEF x
<1>5. ASSUME NEW k \in 1 .. L, NEW N \in A[k - 1]
      PROVE  Purge(N, SeqOrder[k], Overwritten(M, h, n, SeqOrder[k])) \in A[k]
  <2> DEFINE s == SeqOrder[k]
             P == Purge(N, s, o(s))
  <2>1. /\ k \in 0 .. L /\ k - 1 \in 0 .. L /\ s \in Seqs
        /\ \A j \in 1 .. k : j \in 1 .. k - 1 \/ j = k
        /\ \A j \in 1 .. k - 1 : j \in 1 .. k
        /\ k \in 1 .. k
    BY SeqOrders
  <2>2. Kept(N, k - 1)
    BY <2>1
  <2>s. s = SeqOrder[k]
    OBVIOUS
  <2> HIDE DEF s
  <2>n. Sound(N) /\ o(s) \in Pos \union {-1}
    BY <1>2, <2>1, <2>2
  <2>3. /\ Sound(P) /\ KeepsPos(N.c, P.c)
        /\ \A i \in Cell : P.c.seq[i] = {t \in N.c.seq[i] : t = s => N.c.pos[i] > o(s)}
    BY <2>1, <2>n, PurgeSeqs
  <2> HIDE DEF P
  <2>4. KeepsPos(D, P.c)
    <3>1. \A i \in Cell : P.c.seq[i] # {} => N.c.seq[i] # {}
      BY <2>3
    <3> QED
      BY <2>2, <2>3, <3>1 DEF KeepsPos
  <2>5. ASSUME NEW i \in Cell
        PROVE  P.c.seq[i] = {t \in D.seq[i] : \A j \in 1 .. k : t = SeqOrder[j] => D.pos[i] > o(t)}
    <3>1. N.c.seq[i] = {t \in D.seq[i] : \A j \in 1 .. k - 1 : t = SeqOrder[j] => D.pos[i] > o(t)}
      BY <2>2
    <3>2. P.c.seq[i] = {t \in N.c.seq[i] : t = s => N.c.pos[i] > o(s)}
      BY <2>3
    <3>3. \A t \in N.c.seq[i] : N.c.pos[i] = D.pos[i]
      BY <2>2 DEF KeepsPos
    <3>4. ASSUME NEW t \in P.c.seq[i]
          PROVE  t \in D.seq[i] /\ \A j \in 1 .. k : t = SeqOrder[j] => D.pos[i] > o(t)
      BY <2>1, <2>s, <3>1, <3>2, <3>3
    <3>5. ASSUME NEW t \in D.seq[i], \A j \in 1 .. k : t = SeqOrder[j] => D.pos[i] > o(t)
          PROVE  t \in P.c.seq[i]
      <4>1. t \in N.c.seq[i]
        BY <2>1, <3>1, <3>5
      <4>2. t = s => N.c.pos[i] > o(s)
        BY <2>1, <2>s, <3>3, <3>5, <4>1
      <4> QED
        BY <3>2, <4>1, <4>2
    <3> QED
      BY <3>4, <3>5
  <2>6. Kept(P, k)
    BY <2>3, <2>4, <2>5
  <2>7. P \in A[k]
    BY <2>1, <2>3, <2>6 DEF Sound
  <2> QED
    BY <2>7 DEF P, s, o
<1>6. R \in A[L]
  <2> HIDE DEF A, L
  <2>1. PurgeRound!Keeps(A, x, SeqOrder, M, h, n, 0)
    BY <1>4, <1>5 DEF PurgeRound!Keeps, L
  <2>i. PurgeRound!Inductive
    BY Induct DEF PurgeRound!Inductive
  <2>2. Len(SeqOrder) \in Nat
    BY SeqOrders
  <2> QED
    BY <2>1, <2>2, <2>i, PurgeRound!Invariant DEF L
<1> HIDE DEF R
<1>7. Kept(R, L)
  <2>1. L \in 0 .. L
    BY SeqOrders
  <2> QED
    BY <1>6, <2>1
<1>8. ASSUME NEW i \in Cell PROVE R.c.seq[i] = {s \in D.seq[i] : D.pos[i] > o(s)}
  <2>1. \A s \in D.seq[i] : \E j \in 1 .. L : s = SeqOrder[j]
    <3>1. D.seq[i] \subseteq Seqs
      BY <1>1, GoodTyped
    <3> QED
      BY <3>1, SeqOrderAll
  <2>2. R.c.seq[i] = {t \in D.seq[i] : \A j \in 1 .. L : t = SeqOrder[j] => D.pos[i] > o(t)}
    BY <1>7
  <2> HIDE DEF L
  <2> QED
    BY <2>1, <2>2
<1> DEFINE N == [R EXCEPT !.h = h + n]
<1>9. Sound(N) /\ N.c = R.c
  <2>1. h + n \in 0 .. NCells
    BY <1>1, PosTyped
  <2>2. Sound(R)
    BY <1>7
  <2> QED
    BY <2>1, <2>2, SoundHead
<1> HIDE DEF N
<1>10. KeepsPos(D, N.c) /\ \A i \in Cell : N.c.seq[i] = {s \in D.seq[i] : D.pos[i] > o(s)}
  BY <1>7, <1>8, <1>9
<1>11. Apply(M, h, ub) = N
  BY <1>3 DEF N
<1> QED
  BY <1>9, <1>10, <1>11 DEF D, o

\* The positions of sequence s in a list of tokens, and those of a cache behind last.
PosOf(b, s) == {b[i].pos : i \in {j \in DOMAIN b : s \in Range(b[j].seqs)}}
Above(C, s, last) == {p \in Present(C, s) : p > last}

\* apply_ubatch leaves a sequence what is behind the last position overwritten,
\* and adds the ubatch's.
LEMMA ApplyPresent ==
  ASSUME NEW M, Sound(M), NEW h \in Nat, NEW ub \in Ubatches, h + Len(ub) <= NCells, NEW s \in Seqs
  PROVE  LET o == Overwritten(M, h, Len(ub), s) IN
         Present(Apply(M, h, ub).c, s) = Above(M.c, s, o) \union {q \in PosOf(ub, s) : q > o}
<1> DEFINE N == Apply(M, h, ub)
           D == Placed(M, h, ub)
           n == Len(ub)
           o == Overwritten(M, h, n, s)
<1>1. UbatchOK(ub) /\ DOMAIN ub = 1 .. n /\ n \in Nat
  BY UbatchIs
<1>2. Good(D) /\ \A i \in Cell : At(D, i) = IF InSlot(h, ub, i) THEN Stored(ub[i - h + 1]) ELSE At(M.c, i)
  BY <1>1, PlacedDone
<1>3. /\ Sound(N) /\ KeepsPos(D, N.c)
      /\ \A i \in Cell : N.c.seq[i] = {t \in D.seq[i] : D.pos[i] > Overwritten(M, h, n, t)}
  BY <1>1, ApplySeqs
<1>4. \A i \in h .. h + n - 1 : s \in M.c.seq[i] => M.c.pos[i] <= o
  BY <1>1, OverwrittenIs
<1>o. o \in Pos \union {-1}
  BY <1>1, OverwrittenIs
<1> HIDE DEF N, D, o
<1>5. \A p : p \in Present(N.c, s) <=> \E i \in Cell : s \in D.seq[i] /\ D.pos[i] = p /\ p > o
  <2>1. \A p : p \in Present(N.c, s) <=> \E i \in Cell : s \in N.c.seq[i] /\ N.c.pos[i] = p
    BY <1>3, PresentIs DEF Sound
  <2>2. \A i \in Cell : s \in N.c.seq[i] <=> s \in D.seq[i] /\ D.pos[i] > o
    BY <1>3 DEF o
  <2>3. \A i \in Cell : s \in N.c.seq[i] => N.c.pos[i] = D.pos[i]
    BY <1>3 DEF KeepsPos
  <2> QED
    BY <2>1, <2>2, <2>3
<1>6. \A p : p \in Present(M.c, s) <=> \E i \in Cell : s \in M.c.seq[i] /\ M.c.pos[i] = p
  BY PresentIs DEF Sound
<1>7. \A p : p \in PosOf(ub, s) <=> \E k \in 1 .. n : s \in Range(ub[k].seqs) /\ ub[k].pos = p
  BY <1>1 DEF PosOf
<1>8. ASSUME NEW i \in Cell, InSlot(h, ub, i)
      PROVE  /\ i - h + 1 \in 1 .. n /\ i \in h .. h + n - 1
             /\ D.pos[i] = ub[i - h + 1].pos /\ D.seq[i] = Range(ub[i - h + 1].seqs)
  <2>1. i - h + 1 \in 1 .. n /\ i \in h .. h + n - 1
    BY <1>1, <1>8, PosTyped DEF InSlot
  <2> QED
    BY <1>2, <1>8, <2>1 DEF At, Stored
<1>9. ASSUME NEW i \in Cell, ~InSlot(h, ub, i) PROVE D.pos[i] = M.c.pos[i] /\ D.seq[i] = M.c.seq[i]
  BY <1>2, <1>9 DEF At
<1>10. ASSUME NEW k \in 1 .. n
       PROVE  /\ h + k - 1 \in Cell
              /\ D.pos[h + k - 1] = ub[k].pos /\ D.seq[h + k - 1] = Range(ub[k].seqs)
  <2> DEFINE i == h + k - 1
  <2>1. i \in Cell /\ InSlot(h, ub, i) /\ i - h + 1 = k
    BY <1>1, PosTyped DEF Cell, InSlot
  <2> HIDE DEF i
  <2>2. D.pos[i] = ub[k].pos /\ D.seq[i] = Range(ub[k].seqs)
    BY <1>8, <2>1
  <2> QED
    BY <2>1, <2>2 DEF i
<1>11. ASSUME NEW p \in Present(N.c, s) PROVE p > o /\ (p \in Present(M.c, s) \/ p \in PosOf(ub, s))
  <2>1. PICK i \in Cell : s \in D.seq[i] /\ D.pos[i] = p /\ p > o
    BY <1>5
  <2>2. CASE InSlot(h, ub, i)
    <3> DEFINE k == i - h + 1
    <3>1. k \in 1 .. n /\ D.pos[i] = ub[k].pos /\ D.seq[i] = Range(ub[k].seqs)
      BY <1>8, <2>2
    <3> HIDE DEF k
    <3> QED
      BY <1>7, <2>1, <3>1
  <2>3. CASE ~InSlot(h, ub, i)
    BY <1>6, <1>9, <2>1, <2>3
  <2> QED
    BY <2>2, <2>3
<1>12. ASSUME NEW p \in PosOf(ub, s), p > o PROVE p \in Present(N.c, s)
  <2>1. PICK k \in 1 .. n : s \in Range(ub[k].seqs) /\ ub[k].pos = p
    BY <1>7
  <2> QED
    BY <1>5, <1>10, <1>12, <2>1
<1>13. ASSUME NEW p \in Present(M.c, s), p > o PROVE p \in Present(N.c, s)
  <2>1. PICK i \in Cell : s \in M.c.seq[i] /\ M.c.pos[i] = p
    BY <1>6
  <2>2. ~InSlot(h, ub, i)
    <3> SUFFICES ASSUME InSlot(h, ub, i) PROVE FALSE
      OBVIOUS
    <3>1. p <= o
      BY <1>4, <1>8, <2>1
    <3>2. p \in Int /\ o \in Int
      BY <1>o, PosTyped DEF Present
    <3> QED
      BY <1>13, <3>1, <3>2
  <2> QED
    BY <1>5, <1>9, <1>13, <2>1, <2>2
<1> QED
  BY <1>11, <1>12, <1>13 DEF Above, N, o

-----------------------------------------------------------------------------
(* The trial of one ubatch.                                                *)

\* K is M after a trial of ub in the slot at f: the slot has its old cells back,
\* the others are what apply_ubatch left.
TriedOne(M, K, ub, f) ==
    /\ Slot(M.c, Len(ub), f) /\ Sound(K)
    /\ \A i \in Cell : IF InSlot(f, ub, i)
         THEN K.c.pos[i] = M.c.pos[i] /\ K.c.seq[i] = M.c.seq[i]
         ELSE At(K.c, i) = At(Apply(M, f, ub).c, i)

\* prepare, for one ubatch that gets a slot: the slot has its old tokens again,
\* and elsewhere the purge stays.
LEMMA TryOne ==
  ASSUME NEW M, Sound(M), NEW ubs, Len(ubs) = 1, UbatchOK(ubs[1]), Prepare(M, ubs).heads # <<>>
  PROVE  LET r == Prepare(M, ubs) IN
         r.heads = <<r.heads[1]>> /\ TriedOne(M, r.m, ubs[1], r.heads[1])
<1> DEFINE x == [m |-> M, ok |-> TRUE, heads |-> <<>>, saved |-> <<>>]
           P == Trial(M, ubs)
           ub == ubs[1]
           n == Len(ub)
           f == FindSlot(M, n)
           Q == Apply(M, f, ub)
           st == [at |-> f, n |-> n, old |-> M]
           R == Restore(Q, st)
<1>1. P = TakeSlot(x, ub, f)
  BY TrialOne
<1>2. Prepare(M, ubs) = [m |-> Restored(P), heads |-> IF P.ok THEN P.heads ELSE <<>>]
  BY DEF Prepare, Outcome
<1>3. (f = -1 \/ f \in Nat) /\ (f # -1 => Slot(M.c, n, f)) /\ n \in Nat
  BY FindSlotDone DEF UbatchOK, Slot
<1> HIDE DEF P, f
<1>4. f \in Nat
  <2> SUFFICES ASSUME f = -1 PROVE FALSE
    BY <1>3
  <2>1. f < 0
    OBVIOUS
  <2>2. P = [x EXCEPT !.ok = FALSE]
    BY <1>1, <2>1 DEF TakeSlot
  <2>3. ~P.ok
    BY <2>2
  <2> QED
    BY <1>2, <2>3
<1>5. P.m = Q /\ P.ok /\ P.heads = <<f>> /\ P.saved = <<st>>
  <2>1. ~(f < 0)
    BY <1>4
  <2> HIDE DEF Q, st
  <2>2. P = [m |-> Q, ok |-> TRUE, heads |-> Append(<<>>, f), saved |-> <<st>> \o <<>>]
    BY <1>1, <2>1 DEF TakeSlot, Q, st
  <2> QED
    BY <2>2
<1>6. Took(M, Q, f, n)
  <2>1. Slot(M.c, n, f)
    BY <1>3, <1>4
  <2> QED
    BY <2>1, ApplyTakes
<1>7. /\ Sound(R)
      /\ \A i \in Cell : IF f <= i /\ i < f + n
           THEN R.c.pos[i] = M.c.pos[i] /\ R.c.seq[i] = M.c.seq[i] /\ R.c.shift[i] = 0
           ELSE At(R.c, i) = At(Q.c, i)
  <2>1. st.at = f /\ st.n = n /\ st.old = M
    OBVIOUS
  <2> HIDE DEF st, Q
  <2>2. LeftOf(Q, Q)
    BY <1>6 DEF LeftOf, Took, Near
  <2>3. Took(M, Q, st.at, st.n)
    BY <1>6, <2>1
  <2> HIDE DEF n
  <2>4. /\ Sound(R)
        /\ \A i \in Cell : IF st.at <= i /\ i < st.at + st.n
             THEN R.c.pos[i] = M.c.pos[i] /\ R.c.seq[i] = M.c.seq[i] /\ R.c.shift[i] = 0
             ELSE At(R.c, i) = At(Q.c, i)
    BY <2>1, <2>2, <2>3, RestoreIs
  <2> QED
    BY <2>1, <2>4
<1> HIDE DEF Q, R, st
<1>8. Restored(P) = R
  <2> DEFINE B == [k \in 0 .. 1 |-> IF k = 0 THEN {Q} ELSE {R}]
  <2>1. Restored(P) = RestoreRound!Result(Q, <<st>>, 0, 0, 0, 0)
    BY <1>5 DEF Restored, Loop, RestoreRound!Result
  <2>2. Len(<<st>>) = 1 /\ B[0] = {Q} /\ B[1] = {R} /\ 1 - 1 = 0 /\ 1 .. 1 = {1} /\ <<st>>[1] = st
    OBVIOUS
  <2> HIDE DEF B
  <2>3. RestoreRound!Keeps(B, Q, <<st>>, 0, 0, 0, 0)
    <3>1. \A k \in 1 .. 1 : \A y \in B[k - 1] : Restore(y, <<st>>[k]) \in B[k]
      BY <2>2 DEF R
    <3> QED
      BY <2>2, <3>1 DEF RestoreRound!Keeps
  <2>i. RestoreRound!Inductive
    BY Induct DEF RestoreRound!Inductive
  <2>4. RestoreRound!Result(Q, <<st>>, 0, 0, 0, 0) \in B[Len(<<st>>)]
    BY <2>2, <2>3, <2>i, RestoreRound!Invariant
  <2> QED
    BY <2>1, <2>2, <2>4
<1>9. TriedOne(M, R, ub, f)
  BY <1>3, <1>4, <1>7 DEF TriedOne, InSlot, Q
<1>10. Prepare(M, ubs).m = R /\ Prepare(M, ubs).heads = <<f>> /\ <<f>>[1] = f
  BY <1>2, <1>5, <1>8
<1> HIDE DEF R
<1> QED
  BY <1>9, <1>10

\* The same where it is asked twice.
LEMMA InitOne ==
  ASSUME NEW M, Sound(M), NEW ubs, Len(ubs) = 1, UbatchOK(ubs[1]), InitBatch(M, ubs).heads # <<>>
  PROVE  LET r == InitBatch(M, ubs) IN
         r.heads = <<r.heads[1]>> /\ TriedOne(M, r.m, ubs[1], r.heads[1])
<1> DEFINE a == Prepare(M, ubs)
<1>1. InitBatch(M, ubs) = IF a.heads = <<>> /\ SwaType # "none" THEN Prepare(a.m, ubs) ELSE a
  BY DEF InitBatch, AskTwice
<1>2. a.heads = <<>> => a.m = M
  BY TryNone
<1>3. InitBatch(M, ubs) = a
  <2>1. a.m = M => Prepare(a.m, ubs) = a
    OBVIOUS
  <2> HIDE DEF a
  <2> QED
    BY <1>1, <1>2, <2>1
<1> QED
  BY <1>3, TryOne

\* What the trial leaves of a sequence: the positions behind the last one that
\* the slot holds are there, as they were, and that one is out of the window.
LEMMA TriedPresent ==
  ASSUME NEW M, Sound(M), NEW ub \in Ubatches, NEW f, NEW K, TriedOne(M, K, ub, f), NEW s \in Seqs
  PROVE  LET o == Overwritten(K, f, Len(ub), s) IN
         /\ o \in Pos \union {-1}
         /\ o = -1 \/ IsMaskedSwa(o, SeqPosMax(K.c, s) + 1)
         /\ SeqPosMax(K.c, s) = SeqPosMax(M.c, s)
         /\ Above(K.c, s, o) = Above(M.c, s, o)
<1> DEFINE N == Apply(M, f, ub)
           D == Placed(M, f, ub)
           n == Len(ub)
           o == Overwritten(K, f, n, s)
<1>1. UbatchOK(ub) /\ DOMAIN ub = 1 .. n /\ n \in Nat
  BY UbatchIs
<1>2. f \in Nat /\ f + n <= NCells /\ \A i \in 0 .. n - 1 : CanUse(M.c, f + i)
  BY <1>1, PosTyped DEF TriedOne, Slot
<1>3. /\ Sound(K) /\ Good(K.c) /\ Good(M.c)
      /\ \A i \in Cell : IF InSlot(f, ub, i)
           THEN K.c.pos[i] = M.c.pos[i] /\ K.c.seq[i] = M.c.seq[i]
           ELSE At(K.c, i) = At(N.c, i)
  BY DEF TriedOne, Sound
<1>4. \A i \in Cell : At(D, i) = IF InSlot(f, ub, i) THEN Stored(ub[i - f + 1]) ELSE At(M.c, i)
  BY <1>1, <1>2, PlacedDone
<1>5. /\ KeepsPos(D, N.c)
      /\ \A i \in Cell : N.c.seq[i] = {t \in D.seq[i] : D.pos[i] > Overwritten(M, f, n, t)}
  BY <1>1, <1>2, ApplySeqs
<1> HIDE DEF N, D
<1>6. \A i \in f .. f + n - 1 : i \in Cell /\ InSlot(f, ub, i) /\ i - f \in 0 .. n - 1 /\ f + (i - f) = i
  BY <1>1, <1>2, PosTyped DEF Cell, InSlot
<1>7. o = Overwritten(M, f, n, s)
  <2>1. \A j \in f .. f + n - 1 : K.c.pos[j] = M.c.pos[j] /\ K.c.seq[j] = M.c.seq[j]
    BY <1>3, <1>6
  <2>2. {K.c.pos[i] : i \in {j \in f .. f + n - 1 : s \in K.c.seq[j]}}
        = {M.c.pos[i] : i \in {j \in f .. f + n - 1 : s \in M.c.seq[j]}}
    BY <2>1
  <2> QED
    BY <2>2 DEF Overwritten
<1>8. /\ o \in Pos \union {-1}
      /\ \A i \in f .. f + n - 1 : s \in M.c.seq[i] => M.c.pos[i] <= o
      /\ o # -1 => \E i \in f .. f + n - 1 : s \in M.c.seq[i] /\ M.c.pos[i] = o
  BY <1>1, <1>2, <1>7, OverwrittenIs
<1>n. o = Overwritten(M, f, n, s)
  BY <1>7
<1> HIDE DEF o
<1>9. \A p : p \in Present(M.c, s) <=> \E i \in Cell : s \in M.c.seq[i] /\ M.c.pos[i] = p
  BY <1>3, PresentIs
<1>10. \A p : p \in Present(K.c, s) <=> \E i \in Cell : s \in K.c.seq[i] /\ K.c.pos[i] = p
  BY <1>3, PresentIs
<1>11. ASSUME NEW i \in Cell, ~InSlot(f, ub, i)
       PROVE  /\ s \in K.c.seq[i] <=> s \in M.c.seq[i] /\ M.c.pos[i] > o
              /\ s \in K.c.seq[i] => K.c.pos[i] = M.c.pos[i]
  <2>1. D.pos[i] = M.c.pos[i] /\ D.seq[i] = M.c.seq[i]
    BY <1>4, <1>11 DEF At
  <2>2. K.c.pos[i] = N.c.pos[i] /\ K.c.seq[i] = N.c.seq[i]
    BY <1>3, <1>11 DEF At
  <2>3. s \in N.c.seq[i] <=> s \in D.seq[i] /\ D.pos[i] > o
    BY <1>5, <1>n
  <2>4. s \in N.c.seq[i] => N.c.pos[i] = D.pos[i]
    BY <1>5 DEF KeepsPos
  <2> QED
    BY <2>1, <2>2, <2>3, <2>4
<1>12. \A i \in Cell : s \in K.c.seq[i] => s \in M.c.seq[i] /\ K.c.pos[i] = M.c.pos[i]
  BY <1>3, <1>11
<1>13. \A p \in Present(K.c, s) : p \in Present(M.c, s)
  BY <1>9, <1>10, <1>12
<1>i. (\A p \in Pos : p \in Int) /\ o \in Int
  BY <1>8, PosTyped
<1>14. ASSUME NEW p \in Present(M.c, s), p > o PROVE p \in Present(K.c, s)
  <2>1. PICK i \in Cell : s \in M.c.seq[i] /\ M.c.pos[i] = p
    BY <1>9
  <2>2. CASE InSlot(f, ub, i)
    BY <1>3, <1>10, <2>1, <2>2
  <2>3. CASE ~InSlot(f, ub, i)
    BY <1>10, <1>11, <1>14, <2>1, <2>3
  <2> QED
    BY <2>2, <2>3
<1>15. o # -1 => o \in Present(K.c, s) /\ o \in Present(M.c, s)
  BY <1>3, <1>6, <1>8, <1>9, <1>10
<1>16. Above(K.c, s, o) = Above(M.c, s, o)
  BY <1>13, <1>14 DEF Above
<1>17. SeqPosMax(K.c, s) = SeqPosMax(M.c, s)
  <2>p. Present(K.c, s) \subseteq Pos /\ Present(M.c, s) \subseteq Pos
    BY DEF Present
  <2>1. CASE Present(M.c, s) = {}
    <3>1. Present(K.c, s) = {}
      BY <1>13, <2>1
    <3> QED
      BY <2>1, <3>1 DEF SeqPosMax
  <2>2. CASE Present(M.c, s) # {}
    <3> DEFINE a == SeqPosMax(M.c, s)
               b == SeqPosMax(K.c, s)
    <3>1. a \in Present(M.c, s) /\ \A p \in Present(M.c, s) : p <= a
      BY <2>2, SeqPosTyped
    <3>2. a \in Present(K.c, s)
      <4> HIDE DEF a
      <4>1. CASE a > o
        BY <1>14, <3>1, <4>1
      <4>2. CASE ~(a > o)
        <5>1. a \in Nat
          BY <2>p, <3>1, PosTyped
        <5>2. o # -1
          BY <4>2, <5>1
        <5>3. o <= a /\ a = o
          BY <1>15, <1>i, <3>1, <4>2, <5>1, <5>2
        <5> QED
          BY <1>15, <5>2, <5>3
      <4> QED
        BY <4>1, <4>2
    <3>3. b \in Present(K.c, s) /\ \A p \in Present(K.c, s) : p <= b
      BY <3>2, SeqPosTyped
    <3> HIDE DEF a, b
    <3>4. a <= b /\ b <= a /\ a \in Int /\ b \in Int
      BY <1>13, <1>i, <2>p, <3>1, <3>2, <3>3
    <3> QED
      BY <3>4 DEF a, b
  <2> QED
    BY <2>1, <2>2
<1>18. ASSUME o # -1 PROVE IsMaskedSwa(o, SeqPosMax(K.c, s) + 1)
  <2>1. PICK i \in f .. f + n - 1 : s \in M.c.seq[i] /\ M.c.pos[i] = o
    BY <1>8, <1>18
  <2>2. CanUse(M.c, i)
    BY <1>2, <1>6
  <2>3. ~IsEmpty(M.c, i)
    BY <1>18, <2>1 DEF IsEmpty
  <2>4. PICK t \in Seqs : M.c.seq[i] = {t} /\ IsMaskedSwa(M.c.pos[i], SeqPosMax(M.c, t) + 1)
    BY <2>2, <2>3 DEF CanUse
  <2>5. t = s
    BY <2>1, <2>4
  <2> QED
    BY <1>17, <2>1, <2>4, <2>5
<1> QED
  BY <1>8, <1>16, <1>17, <1>18 DEF o

\* What is before a position out of the window is out of it, too.
LEMMA MaskedBelow ==
  ASSUME NEW a \in Int, NEW b \in Int, NEW p \in Int, a <= b, IsMaskedSwa(b, p)
  PROVE  IsMaskedSwa(a, p)
<1> DEFINE x == (p \div NSwa) * NSwa
<1>1. NSwa \in Nat \ {0}
  BY CacheAssumption
<1>2. x \in Int
  BY <1>1
<1> HIDE DEF x
<1>3. CASE SwaType = "standard"
  BY <1>1, <1>3 DEF IsMaskedSwa
<1>4. CASE SwaType = "chunked"
  <2>1. b < x
    BY <1>4 DEF IsMaskedSwa, x
  <2>2. a < x
    BY <1>2, <2>1
  <2> QED
    BY <1>4, <2>2 DEF IsMaskedSwa, x
<1> QED
  BY <1>3, <1>4 DEF IsMaskedSwa

-----------------------------------------------------------------------------
(* What a ubatch that failed leaves of a sequence.                         *)

\* The positions from which a ubatch that failed is removed are its own.
LEMMA FirstInTyped ==
  ASSUME NEW ub \in Ubatches, NEW s \in Seqs
  PROVE  FirstIn(ub, s) \subseteq Pos /\ FirstIn(ub, s) \subseteq PosOf(ub, s)
<1>1. ASSUME NEW t \in Range(ub), t.seqs[1] = s PROVE t.pos \in Pos /\ t.pos \in PosOf(ub, s)
  <2>1. PICK k \in DOMAIN ub : ub[k] = t
    BY DEF Range
  <2>2. TokenOK(t)
    BY <2>1, UbatchIs DEF UbatchOK
  <2>3. 1 \in DOMAIN t.seqs
    BY <2>2 DEF TokenOK
  <2>4. s \in Range(t.seqs)
    BY <1>1, <2>3 DEF Range
  <2> QED
    BY <2>1, <2>2, <2>4 DEF PosOf, TokenOK
<1> QED
  BY <1>1 DEF FirstIn

\* The removal of one sequence's tokens of a ubatch that failed ...
LEMMA RemoveOnePresent ==
  ASSUME NEW M, Sound(M), NEW ub \in Ubatches, NEW s \in Seqs, NEW t \in Seqs
  PROVE  Present(RemoveFailedOf(M, s, ub).c, t) =
         {p \in Present(M.c, t) : t = s => \A q \in FirstIn(ub, s) : p < q}
<1> DEFINE F == FirstIn(ub, s)
           m == Min(F)
<1>1. RemoveFailedOf(M, s, ub) = IF F = {} THEN M ELSE SeqRm(M, s, m, -1)
  BY DEF RemoveFailedOf, FirstIn
<1>2. F \in SUBSET Nat /\ F \subseteq Pos
  BY FirstInTyped, PosTyped
<1> HIDE DEF F
<1>3. CASE F = {}
  BY <1>1, <1>3 DEF F
<1>4. CASE F # {}
  <2>1. m \in F /\ \A q \in F : m <= q
    BY <1>2, <1>4, MinNat
  <2>2. m \in Nat /\ MaxPos \in Nat
    BY <1>2, <2>1, PosTyped
  <2> HIDE DEF m
  <2>3. Present(SeqRm(M, s, m, -1).c, t) =
          {p \in Present(M.c, t) : ~(From(m) <= p /\ p < End(-1) /\ (s = -1 \/ t = s))}
    BY SeqRmPresent
  <2>4. From(m) = m /\ End(-1) = MaxPos + 1
    BY <2>2 DEF From, End
  <2>5. s # -1
    BY CellsAssumption
  <2>6. ASSUME NEW p \in Present(M.c, t)
        PROVE  ~(m <= p /\ p < MaxPos + 1) <=> \A q \in F : p < q
    <3>1. p \in Nat /\ p <= MaxPos
      BY <2>2 DEF Present, Pos
    <3>2. p < MaxPos + 1
      BY <2>2, <3>1
    <3>3. \A q \in F : q \in Nat
      BY <1>2
    <3>4. (\A q \in F : p < q) <=> p < m
      BY <2>1, <2>2, <3>1, <3>3
    <3> QED
      BY <2>2, <3>1, <3>2, <3>4
  <2>7. {p \in Present(M.c, t) : ~(From(m) <= p /\ p < End(-1) /\ (s = -1 \/ t = s))}
          = {p \in Present(M.c, t) : t = s => \A q \in F : p < q}
    BY <2>4, <2>5, <2>6
  <2> QED
    BY <1>1, <1>4, <2>3, <2>7 DEF F
<1> QED
  BY <1>3, <1>4

\* ... and of all: each sequence keeps what is before the first of them.
LEMMA RemoveFailedPresent ==
  ASSUME NEW M, Sound(M), NEW ub \in Ubatches, NEW s \in Seqs
  PROVE  /\ Sound(RemoveFailed(M, ub))
         /\ Present(RemoveFailed(M, ub).c, s) =
              {p \in Present(M.c, s) : \A q \in FirstIn(ub, s) : p < q}
<1> DEFINE L == Len(SeqOrder)
           F(t) == FirstIn(ub, t)
           Kept(N, k) ==
             /\ Sound(N)
             /\ Present(N.c, s) =
                  {p \in Present(M.c, s) : \A j \in 1 .. k : s = SeqOrder[j] => \A q \in F(s) : p < q}
           A == [k \in 0 .. L |-> {N \in Caches : Kept(N, k)}]
           R == RemoveRound!Result(M, SeqOrder, ub, 0, 0, 0)
<1>1. L \in Nat /\ \A k \in 1 .. L : SeqOrder[k] \in Seqs
  BY SeqOrders
<1> HIDE DEF F
<1>2. M \in A[0]
  <2>1. Kept(M, 0)
    OBVIOUS
  <2> QED
    BY <1>1, <2>1 DEF Sound
<1>3. ASSUME NEW k \in 1 .. L, NEW N \in A[k - 1]
      PROVE  RemoveFailedOf(N, SeqOrder[k], ub) \in A[k]
  <2> DEFINE t == SeqOrder[k]
             P == RemoveFailedOf(N, t, ub)
  <2>1. /\ k \in 0 .. L /\ k - 1 \in 0 .. L /\ t \in Seqs
        /\ \A j \in 1 .. k : j \in 1 .. k - 1 \/ j = k
        /\ \A j \in 1 .. k - 1 : j \in 1 .. k
        /\ k \in 1 .. k
    BY <1>1
  <2>2. Kept(N, k - 1)
    BY <2>1
  <2>t. t = SeqOrder[k]
    OBVIOUS
  <2> HIDE DEF t
  <2>3. Sound(N)
    BY <2>2
  <2>4. Sound(P)
    BY <2>1, <2>3, RemoveOne
  <2>5. Present(P.c, s) = {p \in Present(N.c, s) : s = t => \A q \in F(t) : p < q}
    BY <2>1, <2>3, RemoveOnePresent DEF F
  <2> HIDE DEF P
  <2>6. Kept(P, k)
    BY <2>1, <2>2, <2>4, <2>5, <2>t
  <2>7. P \in A[k]
    BY <2>1, <2>4, <2>6 DEF Sound
  <2> QED
    BY <2>7 DEF P, t
<1>4. R \in A[L]
  <2> HIDE DEF A, L
  <2>1. RemoveRound!Keeps(A, M, SeqOrder, ub, 0, 0, 0)
    BY <1>2, <1>3 DEF RemoveRound!Keeps, L
  <2>i. RemoveRound!Inductive
    BY Induct DEF RemoveRound!Inductive
  <2> QED
    BY <1>1, <2>1, <2>i, RemoveRound!Invariant DEF L
<1>5. RemoveFailed(M, ub) = R
  BY DEF RemoveFailed, Loop, RemoveRound!Result
<1> HIDE DEF R
<1>6. Kept(R, L)
  <2>1. L \in 0 .. L
    BY <1>1
  <2> QED
    BY <1>4, <2>1
<1>7. \E j \in 1 .. L : s = SeqOrder[j]
  BY SeqOrderAll
<1> HIDE DEF L
<1>8. Sound(R) /\ Present(R.c, s) = {p \in Present(M.c, s) : \A q \in F(s) : p < q}
  BY <1>6, <1>7
<1> QED
  BY <1>5, <1>8 DEF F

-----------------------------------------------------------------------------
(* Positions without a hole.                                               *)

Unbroken(S) == \A p, q \in S : \A x \in Int : p <= x /\ x <= q => x \in S

\* As many numbers as there are from the least to the greatest one.
LEMMA Filled ==
  ASSUME NEW S \in SUBSET Nat, S # {}, IsFiniteSet(S), NEW a \in S, NEW b \in S,
         \A x \in S : a <= x /\ x <= b, b - a + 1 <= Cardinality(S)
  PROVE  S = a .. b
<1>1. S \subseteq a .. b /\ a \in Int /\ b \in Int /\ a <= b
  OBVIOUS
<1>2. IsFiniteSet(a .. b) /\ Cardinality(a .. b) = b - a + 1
  BY <1>1, FS_Interval
<1>3. Cardinality(S) <= Cardinality(a .. b) /\ (Cardinality(S) = Cardinality(a .. b) => S = a .. b)
  BY <1>1, <1>2, FS_Subset
<1>4. Cardinality(S) \in Nat
  BY FS_CardinalityType
<1> QED
  BY <1>1, <1>2, <1>3, <1>4

\* The positions of a batch that is accepted follow those of the cache.
LEMMA BatchFollows ==
  ASSUME NEW C, NEW batch, BatchTyped(batch), BatchOK(C, batch), NEW s \in Seqs
  PROVE  /\ PosOf(batch, s) \subseteq Pos
         /\ \A p \in PosOf(batch, s) : SeqPosMax(C, s) < p
         /\ Unbroken(PosOf(batch, s))
         /\ SeqPosMax(C, s) >= 0 /\ PosOf(batch, s) # {} => SeqPosMax(C, s) + 1 \in PosOf(batch, s)
<1> DEFINE P == PosOf(batch, s)
           m == SeqPosMax(C, s)
<1>1. batch \in Seq(Tokened) /\ Len(batch) \in Nat /\ DOMAIN batch = 1 .. Len(batch)
  BY CacheAssumption DEF BatchTyped
<1>2. P \subseteq Pos
  <2>1. \A i \in DOMAIN batch : batch[i].pos \in Pos
    BY <1>1 DEF Tokened
  <2> QED
    BY <2>1 DEF PosOf
<1>3. P # {} => /\ m >= 0 => Min(P) = m + 1
                /\ Max(P) - Min(P) + 1 <= Cardinality(P)
  BY DEF BatchOK, PosOf
<1>4. m \in Pos \union {-1}
  BY SeqPosTyped
<1> HIDE DEF P, m
<1>n. \A p \in Pos : p \in Nat
  BY PosTyped
<1>5. m \in Int /\ -1 <= m
  BY <1>4, <1>n
<1>6. CASE P = {}
  BY <1>6 DEF Unbroken, P
<1>7. CASE P # {}
  <2>1. P \in SUBSET Nat
    BY <1>2, <1>n
  <2>2. Min(P) \in P /\ \A p \in P : Min(P) <= p
    BY <1>7, <2>1, MinNat
  <2>3. Max(P) \in P /\ \A p \in P : p <= Max(P)
    <3>1. P \in SUBSET (0 .. MaxPos) /\ MaxPos \in Nat
      BY <1>2, PosTyped DEF Pos
    <3>2. PICK x \in P : \A p \in P : p <= x
      BY <1>7, <3>1, MaxBelow
    <3>3. \A p \in P : x >= p
      BY <2>1, <3>2
    <3>4. Max(P) \in P /\ \A p \in P : Max(P) >= p
      BY <3>3 DEF Max
    <3> QED
      BY <2>1, <3>4
  <2>4. IsFiniteSet(P)
    <3>1. IsFiniteSet(0 .. MaxPos)
      BY PosTyped, FS_Interval
    <3> QED
      BY <1>2, <3>1, FS_Subset DEF Pos
  <2> DEFINE a == Min(P)
             b == Max(P)
  <2>5. /\ a \in P /\ b \in P /\ (\A p \in P : a <= p /\ p <= b) /\ b - a + 1 <= Cardinality(P)
        /\ m >= 0 => a = m + 1
    BY <1>3, <1>7, <2>2, <2>3
  <2> HIDE DEF a, b
  <2>6. P = a .. b
    BY <1>7, <2>1, <2>4, <2>5, Filled
  <2>7. a \in Nat /\ b \in Nat
    BY <2>1, <2>5
  <2>8. Unbroken(P)
    BY <2>6, <2>7 DEF Unbroken
  <2>9. \A p \in P : m < p
    BY <1>5, <2>1, <2>5, <2>7
  <2> QED
    BY <1>2, <2>5, <2>8, <2>9 DEF P, m
<1> QED
  BY <1>6, <1>7

\* A part of it that leaves nothing out in between.
LEMMA UnbrokenPart ==
  ASSUME NEW S, Unbroken(S), NEW T \in SUBSET S,
         \A p, q \in T : \A x \in S : p <= x /\ x <= q => x \in T
  PROVE  Unbroken(T)
  BY DEF Unbroken

\* What is before some of its positions.
LEMMA UnbrokenCut ==
  ASSUME NEW S \in SUBSET Pos, Unbroken(S), NEW F \in SUBSET Pos
  PROVE  Unbroken({p \in S : \A q \in F : p < q})
<1> DEFINE T == {p \in S : \A q \in F : p < q}
<1>1. \A p \in Pos : p \in Int
  BY PosTyped
<1>2. ASSUME NEW q \in T, NEW x \in S, x <= q PROVE x \in T
  <2>1. \A f \in F : x < f
    <3> SUFFICES ASSUME NEW f \in F PROVE x < f
      OBVIOUS
    <3>1. q < f /\ q \in Int /\ f \in Int /\ x \in Int
      BY <1>1
    <3> QED
      BY <1>2, <3>1
  <2> QED
    BY <2>1
<1>3. T \in SUBSET S
  OBVIOUS
<1> HIDE DEF T
<1>4. Unbroken(T)
  BY <1>2, <1>3, UnbrokenPart
<1> QED
  BY <1>4 DEF T

\* What is behind a position, and what follows it without a gap.
LEMMA UnbrokenJoin ==
  ASSUME NEW C, NEW s, Unbroken(Present(C, s)), NEW o \in Int, NEW P \in SUBSET Pos, Unbroken(P),
         \A p \in P : SeqPosMax(C, s) < p,
         SeqPosMax(C, s) >= 0 /\ P # {} => SeqPosMax(C, s) + 1 \in P
  PROVE  Unbroken(Above(C, s, o) \union P)
<1> DEFINE m == SeqPosMax(C, s)
           A == Above(C, s, o)
<1>1. \A p \in Pos : p \in Nat
  BY PosTyped
<1>2. Present(C, s) \subseteq Pos
  BY DEF Present
<1>3. \A p \in A : p \in Present(C, s) /\ p > o /\ p <= m
  BY SeqPosTyped DEF Above
<1>a. \A p \in Present(C, s) : p > o => p \in A
  BY DEF Above
<1>m. m \in Pos \/ m = -1
  BY SeqPosTyped
<1>n. m \in Int
  BY <1>1, <1>m
<1>h. Present(C, s) # {} => m \in Present(C, s)
  BY SeqPosTyped
<1>p. (\A p \in P : m < p) /\ (m >= 0 /\ P # {} => m + 1 \in P)
  OBVIOUS
<1> HIDE DEF m, A
<1>i. (\A p \in A : p \in Nat) /\ (\A p \in P : p \in Nat)
  BY <1>1, <1>2, <1>3
<1>4. ASSUME NEW p \in A \union P, NEW q \in A \union P, NEW x \in Int, p <= x, x <= q
      PROVE  x \in A \union P
  <2>0. p \in Nat /\ q \in Nat
    BY <1>i
  <2>1. CASE p \in P
    <3>1. q \in P
      <4>1. m < p /\ m < q
        BY <1>n, <1>p, <1>4, <2>0, <2>1
      <4>2. q \in A => q <= m
        BY <1>3
      <4> QED
        BY <1>n, <2>0, <4>1, <4>2
    <3> QED
      BY <1>4, <2>1, <3>1 DEF Unbroken
  <2>2. CASE p \in A /\ q \in A
    <3>1. x \in Present(C, s)
      BY <1>3, <1>4, <2>2 DEF Unbroken
    <3>2. x > o
      <4>1. p > o
        BY <1>3, <2>2
      <4> QED
        BY <1>4, <2>0, <4>1
    <3> QED
      BY <1>a, <3>1, <3>2
  <2>3. CASE p \in A /\ q \in P
    <3>1. p <= m /\ p \in Present(C, s) /\ m \in Present(C, s)
      BY <1>3, <1>h, <2>3
    <3>2. m >= 0
      BY <1>n, <2>0, <3>1
    <3>3. m + 1 \in P
      BY <1>p, <2>3, <3>2
    <3>4. CASE x <= m
      <4>1. x \in Present(C, s)
        BY <1>4, <3>1, <3>4 DEF Unbroken
      <4>2. p > o
        BY <1>3, <2>3
      <4>3. x > o
        BY <1>4, <2>0, <4>2
      <4> QED
        BY <1>a, <4>1, <4>3
    <3>5. CASE ~(x <= m)
      <4>1. m + 1 <= x
        BY <1>n, <3>5
      <4> QED
        BY <1>4, <2>3, <3>3, <4>1 DEF Unbroken
    <3> QED
      BY <3>4, <3>5
  <2> QED
    BY <2>1, <2>2, <2>3
<1>5. Unbroken(A \union P)
  BY <1>4 DEF Unbroken
<1> QED
  BY <1>5 DEF A
=============================================================================
