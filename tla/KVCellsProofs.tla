--------------------------- MODULE KVCellsProofs ----------------------------
(***************************************************************************)
(* The cells of the KV cache are consistent, for any number of cells,      *)
(* sequences and positions and after any sequence of calls.  A method      *)
(* changes one cell (mv two) and adjusts the counts by hand; OneCell says  *)
(* which adjustment keeps them right, and there is a lemma per method.     *)
(***************************************************************************)
EXTENDS KVCells, FiniteSetTheorems, TLAPS

-----------------------------------------------------------------------------
(* Induction.                                                              *)

\* A set of natural numbers that is not empty has a least element.
LEMMA LeastNat ==
  ASSUME NEW T \in SUBSET Nat, T # {}
  PROVE  \E m \in T : \A k \in T : m <= k
<1> DEFINE S == FiniteSubsetsOf(Nat)
           R == StrictSubsetOrdering(Nat)
           Below(n) == 0 .. n - 1
           U == {Below(n) : n \in T}
<1> HIDE DEF Below
<1>1. IsWellFoundedOn(R, S)
  BY FS_StrictSubsetOrderingWellFounded
<1>2. U \subseteq S
  <2>1. ASSUME NEW n \in Nat PROVE IsFiniteSet(Below(n))
    BY FS_Interval DEF Below
  <2>2. ASSUME NEW n \in Nat PROVE Below(n) \subseteq Nat
    BY DEF Below
  <2> QED
    BY <2>1, <2>2 DEF FiniteSubsetsOf
<1>3. U # {}
  OBVIOUS
<1>4. PICK x \in U : \A y \in U : ~ (<<y, x>> \in R)
  <2> HIDE DEF R, S, U
  <2> QED
    BY <1>1, <1>2, <1>3, WFMin
<1>5. PICK m \in T : x = Below(m)
  OBVIOUS
<1>6. ASSUME NEW k \in T, k < m PROVE FALSE
  <2>1. Below(k) \in U
    OBVIOUS
  <2>2. Below(k) \subseteq Below(m) /\ k \in Below(m) /\ k \notin Below(k)
    BY <1>6 DEF Below
  <2>3. Below(k) \in SUBSET Nat /\ Below(m) \in SUBSET Nat
    BY DEF Below
  <2>4. <<Below(k), Below(m)>> \in R
    BY <2>2, <2>3 DEF StrictSubsetOrdering
  <2> QED
    BY <2>1, <2>4, <1>4, <1>5
<1> QED
  BY <1>6

\* Induction up to n: the hypothesis of Loops.
LEMMA Induct ==
  \A n \in Nat : \A T : (0 \in T /\ \A k \in 0 .. n - 1 : k \in T => k + 1 \in T)
                      => \A k \in 0 .. n : k \in T
<1> SUFFICES ASSUME NEW n \in Nat, NEW T, 0 \in T, \A k \in 0 .. n - 1 : k \in T => k + 1 \in T,
                    \E k \in 0 .. n : k \notin T
             PROVE  FALSE
  OBVIOUS
<1> DEFINE B == (0 .. n) \ T
<1>1. PICK m \in B : \A k \in B : m <= k
  <2> B \in SUBSET Nat /\ B # {}
    OBVIOUS
  <2> HIDE DEF B
  <2> QED
    BY LeastNat
<1>2. m # 0 /\ m - 1 \in 0 .. n - 1 /\ m \in 0 .. n /\ m \notin T
  OBVIOUS
<1>3. m - 1 \in T
  BY <1>1, <1>2
<1> QED
  BY <1>2, <1>3

-----------------------------------------------------------------------------
(* The cells.                                                              *)

\* What cell i contributes to the count of position p in sequence s.
Adds(C, i, s, p) == IF s \in C.seq[i] /\ C.pos[i] = p THEN 1 ELSE 0

\* C and D differ at most in cell i, and the counts by what it contributes.
Changes(C, D, i) ==
    /\ \A j \in Cell \ {i} : D.pos[j] = C.pos[j] /\ D.seq[j] = C.seq[j] /\ D.shift[j] = C.shift[j]
    /\ \A s \in Seqs, p \in Pos :
         D.seq_pos[s][p] = C.seq_pos[s][p] - Adds(C, i, s, p) + Adds(D, i, s, p)

Good(C) == WellTyped(C) /\ UsedOK(C) /\ CountsOK(C) /\ ShiftOK(C)

LEMMA FiniteCells == IsFiniteSet(Cell)
  BY CellsAssumption, FS_Interval, 0 \in Int, NCells - 1 \in Int DEF Cell

LEMMA OneCell ==
  ASSUME NEW C, NEW D, NEW i \in Cell, CountsOK(C), Changes(C, D, i)
  PROVE  CountsOK(D)
<1> SUFFICES ASSUME NEW s \in Seqs, NEW p \in Pos
             PROVE  D.seq_pos[s][p] = Cardinality(Holding(D, s, p))
  BY DEF CountsOK
<1> DEFINE H == Holding(C, s, p)
           G == Holding(D, s, p)
<1>1. IsFiniteSet(H) /\ IsFiniteSet(G)
  BY FiniteCells, FS_Subset, H \subseteq Cell, G \subseteq Cell DEF Holding
<1>2. H \ {i} = G \ {i}
  BY DEF Holding, Changes
<1>3. C.seq_pos[s][p] = Cardinality(H)
  BY DEF CountsOK
<1>4. /\ (i \in H) => Adds(C, i, s, p) = 1
      /\ (i \notin H) => Adds(C, i, s, p) = 0
      /\ (i \in G) => Adds(D, i, s, p) = 1
      /\ (i \notin G) => Adds(D, i, s, p) = 0
  BY DEF Holding, Adds
<1>5. D.seq_pos[s][p] = Cardinality(H) - Adds(C, i, s, p) + Adds(D, i, s, p)
  BY <1>3 DEF Changes
<1>6. /\ Cardinality(H) \in Nat /\ Cardinality(G) \in Nat
      /\ (i \in H) => Cardinality(H \ {i}) = Cardinality(H) - 1
      /\ (i \in G) => Cardinality(G \ {i}) = Cardinality(G) - 1
      /\ (i \notin H) => H \ {i} = H
      /\ (i \notin G) => G \ {i} = G
  BY <1>1, FS_RemoveElement, FS_CardinalityType
<1>7. Cardinality(H \ {i}) = Cardinality(G \ {i})
  BY <1>2
<1> HIDE DEF H, G
<1> DEFINE a == Adds(C, i, s, p)
           b == Adds(D, i, s, p)
           h == Cardinality(H)
           g == Cardinality(G)
<1>8. g = h - a + b
  <2>1. h \in Nat /\ g \in Nat /\ a \in 0 .. 1 /\ b \in 0 .. 1
    BY <1>6 DEF Adds
  <2>2. h - a = Cardinality(H \ {i}) /\ g - b = Cardinality(G \ {i})
    BY <1>4, <1>6, <2>1
  <2> QED
    BY <1>7, <2>1, <2>2
<1> QED
  BY <1>5, <1>8 DEF G

LEMMA CountValue ==
  ASSUME NEW sp \in [Seqs -> [Pos -> Int]], NEW S, NEW p, NEW n \in Int
  PROVE  /\ Count(sp, S, p, n) \in [Seqs -> [Pos -> Int]]
         /\ \A s \in Seqs, q \in Pos :
              Count(sp, S, p, n)[s][q] = sp[s][q] + (IF s \in S /\ q = p THEN n ELSE 0)
<1>1. ASSUME NEW s \in Seqs
      PROVE  [sp[s] EXCEPT ![p] = @ + n] \in [Pos -> Int]
  <2>1. sp[s] \in [Pos -> Int]
    OBVIOUS
  <2>2. CASE p \in Pos
    BY <2>1, <2>2
  <2>3. CASE p \notin Pos
    BY <2>1, <2>3
  <2> QED
    BY <2>2, <2>3
<1>2. Count(sp, S, p, n) \in [Seqs -> [Pos -> Int]]
  BY <1>1 DEF Count
<1>3. ASSUME NEW s \in Seqs, NEW q \in Pos
      PROVE  Count(sp, S, p, n)[s][q] = sp[s][q] + (IF s \in S /\ q = p THEN n ELSE 0)
  <2>1. Count(sp, S, p, n)[s] = IF s \in S THEN [sp[s] EXCEPT ![p] = @ + n] ELSE sp[s]
    BY DEF Count
  <2>2. sp[s] \in [Pos -> Int] /\ sp[s][q] \in Int
    OBVIOUS
  <2> QED
    BY <2>1, <2>2
<1> QED
  BY <1>2, <1>3

\* The methods copy the cells with some fields changed: a state of the cells is
\* a record with six fields, each of its type.
Fields == {"pos", "shift", "seq", "used", "seq_pos", "has_shift"}
IsRecord(C) == C = [f \in Fields |-> C[f]]
Typed(C) ==
    /\ C.pos \in [Cell -> Pos \union {-1}] /\ C.shift \in [Cell -> Int]
    /\ C.seq \in [Cell -> SUBSET Seqs] /\ C.used \in SUBSET Cell
    /\ C.seq_pos \in [Seqs -> [Pos -> Int]] /\ C.has_shift \in BOOLEAN

LEMMA ByFields ==
  ASSUME NEW C
  PROVE  C \in CellsType <=> IsRecord(C) /\ Typed(C)
<1>1. IsRecord(C) /\ Typed(C) => C \in CellsType
  BY DEF CellsType, Fields, IsRecord, Typed
<1>2. C \in CellsType => IsRecord(C) /\ Typed(C)
  BY DEF CellsType, Fields, IsRecord, Typed
<1> QED
  BY <1>1, <1>2

\* The cells after a change of the counts, an assignment, and after a cell was
\* emptied.
LEMMA Recounted ==
  ASSUME NEW C \in CellsType, NEW S, NEW p, NEW n \in Int
  PROVE  /\ Recount(C, S, p, n) \in CellsType
         /\ Recount(C, S, p, n).pos = C.pos /\ Recount(C, S, p, n).seq = C.seq
         /\ Recount(C, S, p, n).shift = C.shift /\ Recount(C, S, p, n).used = C.used
         /\ Recount(C, S, p, n).has_shift = C.has_shift
         /\ \A s \in Seqs, q \in Pos :
              Recount(C, S, p, n).seq_pos[s][q]
                = C.seq_pos[s][q] + (IF s \in S /\ q = p THEN n ELSE 0)
<1>1. C.seq_pos \in [Seqs -> [Pos -> Int]] /\ IsRecord(C)
  BY ByFields DEF Typed
<1>2. Count(C.seq_pos, S, p, n) \in [Seqs -> [Pos -> Int]]
  BY <1>1, CountValue
<1>3. Recount(C, S, p, n).seq_pos = Count(C.seq_pos, S, p, n)
  BY <1>1 DEF Recount, IsRecord, Fields
<1>4. \A s \in Seqs, q \in Pos :
        Recount(C, S, p, n).seq_pos[s][q]
          = C.seq_pos[s][q] + (IF s \in S /\ q = p THEN n ELSE 0)
  BY <1>1, <1>3, CountValue
<1>5. /\ Recount(C, S, p, n).pos = C.pos /\ Recount(C, S, p, n).seq = C.seq
      /\ Recount(C, S, p, n).shift = C.shift /\ Recount(C, S, p, n).used = C.used
      /\ Recount(C, S, p, n).has_shift = C.has_shift
  BY <1>1 DEF Recount, IsRecord, Fields
<1>6. Recount(C, S, p, n) \in CellsType
  BY <1>2 DEF Recount, CellsType
<1> QED
  BY <1>4, <1>5, <1>6

LEMMA CountedAgain ==
  ASSUME NEW C \in CellsType, NEW i \in Cell
  PROVE  /\ SeqPosAdd(C, i) \in CellsType
         /\ SeqPosAdd(C, i).pos = C.pos /\ SeqPosAdd(C, i).seq = C.seq
         /\ SeqPosAdd(C, i).shift = C.shift /\ SeqPosAdd(C, i).used = C.used
         /\ SeqPosAdd(C, i).has_shift = C.has_shift
         /\ \A s \in Seqs, q \in Pos :
              SeqPosAdd(C, i).seq_pos[s][q]
                = C.seq_pos[s][q] + (IF s \in C.seq[i] /\ q = C.pos[i] THEN 1 ELSE 0)
  BY Recounted, 1 \in Int DEF SeqPosAdd

LEMMA EmptiedFields ==
  ASSUME NEW C, NEW i \in Cell, IsRecord(C)
  PROVE  /\ IsRecord(Emptied(C, i))
         /\ Emptied(C, i).pos = [C.pos EXCEPT ![i] = -1]
         /\ Emptied(C, i).seq = [C.seq EXCEPT ![i] = {}]
         /\ Emptied(C, i).shift = [C.shift EXCEPT ![i] = 0]
         /\ Emptied(C, i).used = C.used \ {i}
         /\ Emptied(C, i).has_shift = C.has_shift /\ Emptied(C, i).seq_pos = C.seq_pos
  BY DEF IsRecord, Fields, Emptied

LEMMA EmptiedCell ==
  ASSUME NEW C \in CellsType, NEW i \in Cell
  PROVE  /\ Emptied(C, i) \in CellsType
         /\ Emptied(C, i).pos = [C.pos EXCEPT ![i] = -1]
         /\ Emptied(C, i).seq = [C.seq EXCEPT ![i] = {}]
         /\ Emptied(C, i).shift = [C.shift EXCEPT ![i] = 0]
         /\ Emptied(C, i).used = C.used \ {i}
         /\ Emptied(C, i).has_shift = C.has_shift /\ Emptied(C, i).seq_pos = C.seq_pos
<1> DEFINE D == Emptied(C, i)
<1>1. IsRecord(C) /\ Typed(C)
  BY ByFields
<1>2. IsRecord(D)
  BY <1>1, EmptiedFields
<1>3. /\ D.pos = [C.pos EXCEPT ![i] = -1] /\ D.seq = [C.seq EXCEPT ![i] = {}]
      /\ D.shift = [C.shift EXCEPT ![i] = 0] /\ D.used = C.used \ {i}
      /\ D.has_shift = C.has_shift /\ D.seq_pos = C.seq_pos
  BY <1>1, EmptiedFields
<1> HIDE DEF D
<1>4. Typed(D)
  BY <1>1, <1>3 DEF Typed
<1>5. D \in CellsType
  BY <1>2, <1>4, ByFields
<1> QED
  BY <1>3, <1>5 DEF D

\* What the methods that change one cell have in common: the cell gets position
\* q, sequences S and shift e, and the counts follow.
Sets(C, D, i, q, S, e) ==
    /\ D \in CellsType
    /\ q \in Pos \union {-1} /\ S \in SUBSET Seqs /\ e \in Int
    /\ q = -1 => S = {} /\ e = 0
    /\ D.pos = [C.pos EXCEPT ![i] = q]
    /\ D.seq = [C.seq EXCEPT ![i] = S]
    /\ D.shift = [C.shift EXCEPT ![i] = e]
    /\ D.used = IF q = -1 THEN C.used \ {i} ELSE C.used \union {i}
    /\ C.has_shift => D.has_shift
    /\ e # 0 => D.has_shift
    /\ \A s \in Seqs, p \in Pos :
         D.seq_pos[s][p] = C.seq_pos[s][p] - Adds(C, i, s, p)
                             + (IF s \in S /\ q = p THEN 1 ELSE 0)

\* The result of a method for its caller: good cells, and one of them changed.
Assigns(C, D, i, q, S, e) ==
    /\ Good(D)
    /\ D.pos[i] = q /\ D.seq[i] = S /\ D.shift[i] = e
    /\ \A j \in Cell \ {i} : D.pos[j] = C.pos[j] /\ D.seq[j] = C.seq[j] /\ D.shift[j] = C.shift[j]

LEMMA SetsGood ==
  ASSUME NEW C, NEW D, NEW i \in Cell, Good(C), NEW q, NEW S, NEW e,
         Sets(C, D, i, q, S, e)
  PROVE  Assigns(C, D, i, q, S, e)
<1>1. /\ C \in CellsType /\ D \in CellsType
      /\ \A j \in Cell : IsEmpty(C, j) => C.seq[j] = {} /\ C.shift[j] = 0
  BY DEF Good, WellTyped, Sets
<1>2. D.pos[i] = q /\ D.seq[i] = S /\ D.shift[i] = e
  BY <1>1 DEF CellsType, Sets
<1>3. \A j \in Cell \ {i} : D.pos[j] = C.pos[j] /\ D.seq[j] = C.seq[j] /\ D.shift[j] = C.shift[j]
  BY <1>1 DEF CellsType, Sets
<1>4. WellTyped(D)
  BY <1>1, <1>2, <1>3 DEF WellTyped, IsEmpty, Sets
<1>5. UsedOK(D)
  BY <1>2, <1>3 DEF UsedOK, Good, IsEmpty, Sets
<1>6. CountsOK(D)
  <2>1. Changes(C, D, i)
    BY <1>2, <1>3 DEF Changes, Adds, Sets
  <2> QED
    BY <2>1, OneCell DEF Good
<1>7. ShiftOK(D)
  BY <1>2, <1>3 DEF ShiftOK, Good, Sets
<1> QED
  BY <1>2, <1>3, <1>4, <1>5, <1>6, <1>7 DEF Good, Assigns

LEMMA RmGood ==
  ASSUME NEW C, Good(C), NEW i \in Cell, ~IsEmpty(C, i)
  PROVE  Assigns(C, Rm(C, i), i, -1, {}, 0)
<1> DEFINE E == SeqPosRm(C, i)
           D == Emptied(E, i)
<1>1. C \in CellsType /\ -1 \in Int
  BY DEF Good, WellTyped
<1>2. /\ E \in CellsType /\ E.pos = C.pos /\ E.seq = C.seq /\ E.shift = C.shift
      /\ E.used = C.used /\ E.has_shift = C.has_shift
      /\ \A s \in Seqs, p \in Pos :
           E.seq_pos[s][p] = C.seq_pos[s][p] + (IF s \in C.seq[i] /\ p = C.pos[i] THEN -1 ELSE 0)
  BY <1>1, Recounted DEF SeqPosRm
<1> HIDE DEF E
<1>3. /\ D \in CellsType /\ D.pos = [E.pos EXCEPT ![i] = -1] /\ D.seq = [E.seq EXCEPT ![i] = {}]
      /\ D.shift = [E.shift EXCEPT ![i] = 0] /\ D.used = E.used \ {i}
      /\ D.has_shift = E.has_shift /\ D.seq_pos = E.seq_pos
  BY <1>2, EmptiedCell
<1> HIDE DEF D
<1>4. \A s \in Seqs, p \in Pos : C.seq_pos[s][p] \in Int
  BY <1>1 DEF CellsType
<1>5. Sets(C, D, i, -1, {}, 0)
  BY <1>1, <1>2, <1>3, <1>4 DEF Sets, Adds
<1>6. Assigns(C, D, i, -1, {}, 0)
  BY <1>5, SetsGood
<1> QED
  BY <1>6 DEF D, E, Rm

\* A cell with other sequences.
LEMMA Resequenced ==
  ASSUME NEW C \in CellsType, NEW i \in Cell, NEW S
  PROVE  /\ S \in SUBSET Seqs => WithSeqs(C, i, S) \in CellsType
         /\ WithSeqs(C, i, S).seq = [C.seq EXCEPT ![i] = S]
         /\ WithSeqs(C, i, S).pos = C.pos /\ WithSeqs(C, i, S).shift = C.shift
         /\ WithSeqs(C, i, S).used = C.used /\ WithSeqs(C, i, S).seq_pos = C.seq_pos
         /\ WithSeqs(C, i, S).has_shift = C.has_shift
<1> DEFINE D == WithSeqs(C, i, S)
<1>1. IsRecord(C) /\ Typed(C)
  BY ByFields
<1>2. IsRecord(D)
  BY <1>1 DEF IsRecord, Fields, WithSeqs
<1>3. /\ D.seq = [C.seq EXCEPT ![i] = S]
      /\ D.pos = C.pos /\ D.shift = C.shift /\ D.used = C.used
      /\ D.has_shift = C.has_shift /\ D.seq_pos = C.seq_pos
  BY <1>1 DEF IsRecord, Fields, WithSeqs
<1> HIDE DEF D
<1>4. S \in SUBSET Seqs => Typed(D)
  BY <1>1, <1>3 DEF Typed
<1> QED
  BY <1>2, <1>3, <1>4, ByFields DEF D

LEMMA SeqRmGood ==
  ASSUME NEW C, Good(C), NEW i \in Cell, NEW s \in C.seq[i]
  PROVE  IF C.seq[i] = {s} THEN Assigns(C, SeqRmCell(C, i, s), i, -1, {}, 0)
         ELSE Assigns(C, SeqRmCell(C, i, s), i, C.pos[i], C.seq[i] \ {s}, C.shift[i])
<1> DEFINE A == WithSeqs(C, i, C.seq[i] \ {s})
           D == Recount(A, {s}, C.pos[i], -1)
           E == Emptied(D, i)
<1>1. /\ C \in CellsType /\ -1 \in Int /\ s \in Seqs /\ C.seq[i] \in SUBSET Seqs
      /\ C.pos[i] \in Pos /\ C.shift[i] \in Int
      /\ C.pos \in [Cell -> Pos \union {-1}] /\ C.shift \in [Cell -> Int]
  BY DEF Good, WellTyped, CellsType, IsEmpty
<1>2. /\ A \in CellsType /\ A.seq = [C.seq EXCEPT ![i] = C.seq[i] \ {s}]
      /\ A.pos = C.pos /\ A.shift = C.shift /\ A.used = C.used
      /\ A.has_shift = C.has_shift /\ A.seq_pos = C.seq_pos
  BY <1>1, Resequenced, C.seq[i] \ {s} \in SUBSET Seqs
<1> HIDE DEF A
<1>3. /\ D \in CellsType /\ D.pos = A.pos /\ D.seq = A.seq /\ D.shift = A.shift
      /\ D.used = A.used /\ D.has_shift = A.has_shift
      /\ \A r \in Seqs, p \in Pos :
           D.seq_pos[r][p] = A.seq_pos[r][p] + (IF r \in {s} /\ p = C.pos[i] THEN -1 ELSE 0)
  BY <1>1, <1>2, Recounted
<1> HIDE DEF D
<1>4. \A r \in Seqs, p \in Pos : C.seq_pos[r][p] \in Int
  BY <1>1 DEF CellsType
<1>5. C.seq \in [Cell -> SUBSET Seqs] /\ D.seq[i] = C.seq[i] \ {s}
  BY <1>1, <1>2, <1>3 DEF CellsType
<1>6. CASE D.seq[i] = {}
  <2>1. /\ E \in CellsType /\ E.pos = [D.pos EXCEPT ![i] = -1] /\ E.seq = [D.seq EXCEPT ![i] = {}]
        /\ E.shift = [D.shift EXCEPT ![i] = 0] /\ E.used = D.used \ {i}
        /\ E.has_shift = D.has_shift /\ E.seq_pos = D.seq_pos
    BY <1>3, EmptiedCell
  <2> HIDE DEF E
  <2>2. C.seq[i] = {s}
    BY <1>1, <1>5, <1>6
  <2>3. Sets(C, E, i, -1, {}, 0)
    <3>1. E.seq = [C.seq EXCEPT ![i] = {}]
      <4>1. E.seq = [[C.seq EXCEPT ![i] = C.seq[i] \ {s}] EXCEPT ![i] = {}]
        BY <1>2, <1>3, <2>1
      <4> QED
        BY <1>5, <4>1
    <3>2. \A r \in Seqs, p \in Pos : E.seq_pos[r][p] = C.seq_pos[r][p] - Adds(C, i, r, p)
      BY <1>2, <1>3, <1>4, <2>1, <2>2 DEF Adds
    <3>3. \A r \in Seqs, p \in Pos :
            E.seq_pos[r][p] = C.seq_pos[r][p] - Adds(C, i, r, p)
                                + (IF r \in {} /\ -1 = p THEN 1 ELSE 0)
      BY <1>4, <3>2 DEF Adds
    <3> QED
      BY <1>1, <1>2, <1>3, <2>1, <3>1, <3>3 DEF Sets
  <2>4. Assigns(C, E, i, -1, {}, 0)
    BY <2>3, SetsGood
  <2>5. SeqRmCell(C, i, s) = E
    BY <1>6 DEF SeqRmCell, A, D, E
  <2> QED
    BY <2>2, <2>4, <2>5
<1>7. CASE D.seq[i] # {}
  <2>1. C.pos[i] # -1 /\ i \in C.used
    BY <1>1 DEF Good, UsedOK, IsEmpty, Pos
  <2>2. /\ D.pos = [C.pos EXCEPT ![i] = C.pos[i]]
        /\ D.shift = [C.shift EXCEPT ![i] = C.shift[i]]
        /\ D.used = C.used \union {i}
    BY <1>1, <1>2, <1>3, <2>1
  <2>3. C.shift[i] # 0 => D.has_shift
    BY <1>2, <1>3 DEF Good, ShiftOK
  <2>4. Sets(C, D, i, C.pos[i], C.seq[i] \ {s}, C.shift[i])
    BY <1>1, <1>2, <1>3, <1>4, <2>1, <2>2, <2>3 DEF Sets, Adds
  <2>5. Assigns(C, D, i, C.pos[i], C.seq[i] \ {s}, C.shift[i])
    BY <2>4, SetsGood
  <2>6. SeqRmCell(C, i, s) = D
    BY <1>7 DEF SeqRmCell, A, D
  <2>7. C.seq[i] # {s}
    BY <1>5, <1>7
  <2> QED
    BY <2>5, <2>6, <2>7
<1> QED
  BY <1>6, <1>7

LEMMA SeqAddGood ==
  ASSUME NEW C, Good(C), NEW i \in Cell, NEW s \in Seqs, ~IsEmpty(C, i), s \notin C.seq[i]
  PROVE  Assigns(C, SeqAddCell(C, i, s), i, C.pos[i], C.seq[i] \union {s}, C.shift[i])
<1> DEFINE A == WithSeqs(C, i, C.seq[i] \union {s})
           D == Recount(A, {s}, C.pos[i], 1)
<1>1. /\ C \in CellsType /\ C.seq[i] \in SUBSET Seqs
      /\ C.pos[i] \in Pos /\ C.shift[i] \in Int
      /\ C.pos \in [Cell -> Pos \union {-1}] /\ C.shift \in [Cell -> Int]
  BY DEF Good, WellTyped, CellsType, IsEmpty
<1>2. /\ A \in CellsType /\ A.seq = [C.seq EXCEPT ![i] = C.seq[i] \union {s}]
      /\ A.pos = C.pos /\ A.shift = C.shift /\ A.used = C.used
      /\ A.has_shift = C.has_shift /\ A.seq_pos = C.seq_pos
  BY <1>1, Resequenced, C.seq[i] \union {s} \in SUBSET Seqs
<1> HIDE DEF A
<1>3. /\ D \in CellsType /\ D.pos = A.pos /\ D.seq = A.seq /\ D.shift = A.shift
      /\ D.used = A.used /\ D.has_shift = A.has_shift
      /\ \A r \in Seqs, p \in Pos :
           D.seq_pos[r][p] = A.seq_pos[r][p] + (IF r \in {s} /\ p = C.pos[i] THEN 1 ELSE 0)
  BY <1>1, <1>2, Recounted
<1> HIDE DEF D
<1>4. \A r \in Seqs, p \in Pos : C.seq_pos[r][p] \in Int
  BY <1>1 DEF CellsType
<1>5. C.pos[i] # -1 /\ i \in C.used
  BY DEF Good, UsedOK, IsEmpty
<1>6. /\ D.pos = [C.pos EXCEPT ![i] = C.pos[i]]
      /\ D.shift = [C.shift EXCEPT ![i] = C.shift[i]]
      /\ D.used = C.used \union {i}
  BY <1>1, <1>2, <1>3, <1>5
<1>7. C.shift[i] # 0 => D.has_shift
  BY <1>2, <1>3 DEF Good, ShiftOK
<1>8. Sets(C, D, i, C.pos[i], C.seq[i] \union {s}, C.shift[i])
  BY <1>1, <1>2, <1>3, <1>4, <1>5, <1>6, <1>7 DEF Sets, Adds
<1>9. Assigns(C, D, i, C.pos[i], C.seq[i] \union {s}, C.shift[i])
  BY <1>8, SetsGood
<1> QED
  BY <1>9 DEF SeqAddCell, A, D

LEMMA SeqKeepGood ==
  ASSUME NEW C, Good(C), NEW i \in Cell, NEW s \in Seqs
  PROVE  CASE s \in C.seq[i] -> Assigns(C, SeqKeepCell(C, i, s), i, C.pos[i], {s}, C.shift[i])
           [] s \notin C.seq[i] /\ C.seq[i] # {} -> Assigns(C, SeqKeepCell(C, i, s), i, -1, {}, 0)
           [] OTHER -> SeqKeepCell(C, i, s) = C
<1> DEFINE R == SeqPosRm(C, i)
           A == WithSeqs(R, i, {s})
           D == SeqPosAdd(A, i)
<1>1. /\ C \in CellsType /\ -1 \in Int /\ C.seq[i] \in SUBSET Seqs
      /\ C.pos[i] \in Pos \union {-1} /\ C.shift[i] \in Int /\ C.seq \in [Cell -> SUBSET Seqs]
      /\ C.pos \in [Cell -> Pos \union {-1}] /\ C.shift \in [Cell -> Int]
  BY DEF Good, WellTyped, CellsType, IsEmpty
<1>2. CASE s \in C.seq[i]
  <2>1. /\ R \in CellsType /\ R.pos = C.pos /\ R.seq = C.seq /\ R.shift = C.shift
        /\ R.used = C.used /\ R.has_shift = C.has_shift
        /\ \A r \in Seqs, p \in Pos :
             R.seq_pos[r][p] = C.seq_pos[r][p] + (IF r \in C.seq[i] /\ p = C.pos[i] THEN -1 ELSE 0)
    BY <1>1, Recounted DEF SeqPosRm
  <2> HIDE DEF R
  <2>2. /\ A \in CellsType /\ A.seq = [R.seq EXCEPT ![i] = {s}]
        /\ A.pos = R.pos /\ A.shift = R.shift /\ A.used = R.used
        /\ A.has_shift = R.has_shift /\ A.seq_pos = R.seq_pos
    <3>1. R \in CellsType
      BY <2>1
    <3>2. {s} \in SUBSET Seqs
      OBVIOUS
    <3> QED
      BY <3>1, <3>2, Resequenced
  <2> HIDE DEF A
  <2>3. /\ D \in CellsType /\ D.pos = A.pos /\ D.seq = A.seq /\ D.shift = A.shift
        /\ D.used = A.used /\ D.has_shift = A.has_shift
        /\ \A r \in Seqs, p \in Pos :
             D.seq_pos[r][p] = A.seq_pos[r][p] + (IF r \in A.seq[i] /\ p = A.pos[i] THEN 1 ELSE 0)
    BY <2>2, Recounted DEF SeqPosAdd
  <2> HIDE DEF D
  <2>4. \A r \in Seqs, p \in Pos : C.seq_pos[r][p] \in Int
    BY <1>1 DEF CellsType
  <2>5. C.pos[i] # -1 /\ i \in C.used /\ A.seq[i] = {s} /\ A.pos[i] = C.pos[i]
    BY <1>1, <1>2, <2>1, <2>2 DEF Good, WellTyped, UsedOK, IsEmpty
  <2>6. /\ D.pos = [C.pos EXCEPT ![i] = C.pos[i]]
        /\ D.shift = [C.shift EXCEPT ![i] = C.shift[i]]
        /\ D.used = C.used \union {i}
    BY <1>1, <2>1, <2>2, <2>3, <2>5
  <2>7. C.shift[i] # 0 => D.has_shift
    BY <2>1, <2>2, <2>3 DEF Good, ShiftOK
  <2>8. Sets(C, D, i, C.pos[i], {s}, C.shift[i])
    BY <1>1, <2>1, <2>2, <2>3, <2>4, <2>5, <2>6, <2>7 DEF Sets, Adds
  <2>9. Assigns(C, D, i, C.pos[i], {s}, C.shift[i])
    BY <2>8, SetsGood
  <2> QED
    BY <1>2, <2>9 DEF SeqKeepCell, A, D, R
<1>3. CASE s \notin C.seq[i] /\ C.seq[i] # {}
  <2>1. ~IsEmpty(C, i)
    BY <1>3 DEF Good, WellTyped
  <2> QED
    BY <1>3, <2>1, RmGood DEF SeqKeepCell
<1>4. CASE C.seq[i] = {}
  BY <1>4 DEF SeqKeepCell
<1> QED
  BY <1>2, <1>3, <1>4

LEMMA PosSetGood ==
  ASSUME NEW C, Good(C), NEW i \in Cell, NEW p \in Pos, IsEmpty(C, i)
  PROVE  Assigns(C, PosSet(C, i, p), i, p, {}, 0)
<1> DEFINE D == PosSet(C, i, p)
<1>1. /\ C \in CellsType /\ IsRecord(C) /\ Typed(C) /\ p \in Nat
      /\ C.seq[i] = {} /\ C.shift[i] = 0 /\ C.pos[i] = -1
  BY ByFields, CellsAssumption DEF Good, WellTyped, IsEmpty, Pos
<1>2. /\ IsRecord(D) /\ D.pos = [C.pos EXCEPT ![i] = p] /\ D.used = C.used \union {i}
      /\ D.seq = C.seq /\ D.shift = C.shift
      /\ D.has_shift = C.has_shift /\ D.seq_pos = C.seq_pos
  BY <1>1 DEF PosSet, IsRecord, Fields
<1> HIDE DEF D
<1>3. Typed(D)
  BY <1>1, <1>2 DEF Typed
<1>4. D \in CellsType
  BY <1>2, <1>3, ByFields
<1>5. D.seq = [C.seq EXCEPT ![i] = {}] /\ D.shift = [C.shift EXCEPT ![i] = 0]
  BY <1>1, <1>2 DEF Typed
<1>6. \A s \in Seqs, q \in Pos : D.seq_pos[s][q] = C.seq_pos[s][q] /\ C.seq_pos[s][q] \in Int
  BY <1>1, <1>2 DEF Typed
<1>7. Sets(C, D, i, p, {}, 0)
  BY <1>1, <1>2, <1>4, <1>5, <1>6 DEF Sets, Adds
<1> QED
  BY <1>7, SetsGood DEF D

\* pos_add and pos_div leave the counts of the cell out, change it and count it
\* again.
LEMMA MovedGood ==
  ASSUME NEW C, Good(C), NEW i \in Cell, ~IsEmpty(C, i), NEW D, IsRecord(D),
         NEW q \in Pos, NEW e \in Int,
         D.pos = [C.pos EXCEPT ![i] = q], D.shift = [C.shift EXCEPT ![i] = e],
         D.seq = C.seq, D.used = C.used, D.has_shift,
         D.seq_pos = SeqPosRm(C, i).seq_pos, D.has_shift \in BOOLEAN
  PROVE  Assigns(C, SeqPosAdd(D, i), i, q, C.seq[i], e)
<1> DEFINE E == SeqPosRm(C, i)
           F == SeqPosAdd(D, i)
<1>1. C \in CellsType /\ Typed(C) /\ C.pos[i] \in Pos
  BY ByFields DEF Good, WellTyped, IsEmpty, CellsType
<1>2. -1 \in Int /\ 1 \in Int
  OBVIOUS
<1>3. /\ E \in CellsType
      /\ \A s \in Seqs, p \in Pos :
           E.seq_pos[s][p] = C.seq_pos[s][p] + (IF s \in C.seq[i] /\ p = C.pos[i] THEN -1 ELSE 0)
  BY <1>1, <1>2, Recounted DEF SeqPosRm
<1>4. D.seq_pos = E.seq_pos /\ E.seq_pos \in [Seqs -> [Pos -> Int]]
  BY <1>3 DEF CellsType
<1> HIDE DEF E
<1>5. Typed(D)
  BY <1>1, <1>4 DEF Typed
<1>6. D \in CellsType
  BY <1>5, ByFields
<1>7. /\ F \in CellsType /\ F.pos = D.pos /\ F.seq = D.seq /\ F.shift = D.shift
      /\ F.used = D.used /\ F.has_shift = D.has_shift
      /\ \A s \in Seqs, p \in Pos :
           F.seq_pos[s][p] = D.seq_pos[s][p] + (IF s \in D.seq[i] /\ p = D.pos[i] THEN 1 ELSE 0)
  BY <1>6, CountedAgain
<1> HIDE DEF F
<1>8. D.pos[i] = q /\ C.seq[i] \in SUBSET Seqs /\ i \in C.used /\ q # -1
  BY <1>1 DEF Typed, Good, UsedOK, Pos
<1>9. F.used = C.used \union {i} /\ F.seq = [C.seq EXCEPT ![i] = C.seq[i]]
  BY <1>1, <1>7, <1>8 DEF Typed
<1>10. \A s \in Seqs, p \in Pos :
         F.seq_pos[s][p] = C.seq_pos[s][p] - Adds(C, i, s, p)
                             + (IF s \in C.seq[i] /\ q = p THEN 1 ELSE 0)
  <2>1. \A s \in Seqs, p \in Pos : C.seq_pos[s][p] \in Int
    BY <1>1 DEF Typed
  <2> QED
    BY <1>3, <1>4, <1>7, <1>8, <2>1 DEF Adds
<1>11. /\ F \in CellsType /\ F.pos = [C.pos EXCEPT ![i] = q] /\ F.shift = [C.shift EXCEPT ![i] = e]
       /\ F.has_shift
  BY <1>7
<1>12. Sets(C, F, i, q, C.seq[i], e)
  BY <1>8, <1>9, <1>10, <1>11 DEF Sets
<1> QED
  BY <1>12, SetsGood DEF F

LEMMA PosAddGood ==
  ASSUME NEW C, Good(C), NEW i \in Cell, NEW d \in Int,
         ~IsEmpty(C, i), C.pos[i] + d <= MaxPos
  PROVE  IF C.pos[i] + d < 0 THEN Assigns(C, PosAdd(C, i, d), i, -1, {}, 0)
         ELSE Assigns(C, PosAdd(C, i, d), i, C.pos[i] + d, C.seq[i], C.shift[i] + d)
<1> DEFINE E == SeqPosRm(C, i)
           D == [E EXCEPT !.pos[i] = E.pos[i] + d, !.shift[i] = E.shift[i] + d,
                          !.has_shift = TRUE]
           F == Emptied(D, i)
<1>1. /\ C \in CellsType /\ IsRecord(C) /\ Typed(C) /\ C.pos[i] \in Pos /\ C.shift[i] \in Int
      /\ C.pos[i] \in Int
  BY ByFields, CellsAssumption DEF Good, WellTyped, IsEmpty, Typed, Pos
<1>2. -1 \in Int
  OBVIOUS
<1>3. /\ E \in CellsType /\ E.pos = C.pos /\ E.seq = C.seq /\ E.shift = C.shift
      /\ E.used = C.used /\ E.has_shift = C.has_shift
      /\ \A s \in Seqs, p \in Pos :
           E.seq_pos[s][p] = C.seq_pos[s][p] + (IF s \in C.seq[i] /\ p = C.pos[i] THEN -1 ELSE 0)
  BY <1>1, <1>2, Recounted DEF SeqPosRm
<1>4. IsRecord(E)
  BY <1>3, ByFields
<1>e. E = SeqPosRm(C, i)
  OBVIOUS
<1> HIDE DEF E
<1>5. /\ IsRecord(D) /\ D.pos = [E.pos EXCEPT ![i] = E.pos[i] + d]
      /\ D.shift = [E.shift EXCEPT ![i] = E.shift[i] + d]
      /\ D.seq = E.seq /\ D.used = E.used /\ D.has_shift = TRUE /\ D.seq_pos = E.seq_pos
  BY <1>4 DEF IsRecord, Fields
<1> HIDE DEF D
<1>6. D.pos[i] = C.pos[i] + d
  BY <1>1, <1>3, <1>5 DEF Typed
<1>7. CASE D.pos[i] < 0
  <2>1. /\ IsRecord(F) /\ F.pos = [D.pos EXCEPT ![i] = -1] /\ F.seq = [D.seq EXCEPT ![i] = {}]
        /\ F.shift = [D.shift EXCEPT ![i] = 0] /\ F.used = D.used \ {i}
        /\ F.has_shift = D.has_shift /\ F.seq_pos = D.seq_pos
    <3>1. IsRecord(D)
      BY <1>5
    <3> QED
      BY <3>1, EmptiedFields
  <2>2. F = PosAdd(C, i, d)
    BY <1>7 DEF PosAdd, D, E
  <2> HIDE DEF F
  <2>3. F.pos = [C.pos EXCEPT ![i] = -1]
    <3>1. F.pos = [[C.pos EXCEPT ![i] = C.pos[i] + d] EXCEPT ![i] = -1]
      BY <1>3, <1>5, <2>1
    <3> QED
      BY <1>1, <3>1 DEF Typed
  <2>4. F.shift = [C.shift EXCEPT ![i] = 0]
    <3>1. F.shift = [[C.shift EXCEPT ![i] = C.shift[i] + d] EXCEPT ![i] = 0]
      BY <1>3, <1>5, <2>1
    <3> QED
      BY <1>1, <3>1 DEF Typed
  <2>5. /\ F.seq = [C.seq EXCEPT ![i] = {}] /\ F.used = C.used \ {i}
        /\ F.has_shift = TRUE /\ F.seq_pos = E.seq_pos
    BY <1>3, <1>5, <2>1
  <2>6. E.seq_pos \in [Seqs -> [Pos -> Int]]
    BY <1>3 DEF CellsType
  <2>7. Typed(F)
    <3>1. F.pos \in [Cell -> Pos \union {-1}] /\ F.shift \in [Cell -> Int]
      BY <1>1, <2>3, <2>4 DEF Typed
    <3>2. F.seq \in [Cell -> SUBSET Seqs] /\ F.used \in SUBSET Cell
      BY <1>1, <2>5 DEF Typed
    <3> QED
      BY <2>5, <2>6, <3>1, <3>2 DEF Typed
  <2>8. F \in CellsType
    BY <2>1, <2>7, ByFields
  <2>9. \A s \in Seqs, p \in Pos :
          F.seq_pos[s][p] = C.seq_pos[s][p] - Adds(C, i, s, p)
                              + (IF s \in {} /\ -1 = p THEN 1 ELSE 0)
    <3>1. \A s \in Seqs, p \in Pos : C.seq_pos[s][p] \in Int
      BY <1>1 DEF Typed
    <3> QED
      BY <1>3, <2>5, <3>1 DEF Adds
  <2>10. Sets(C, F, i, -1, {}, 0)
    BY <2>3, <2>4, <2>5, <2>8, <2>9 DEF Sets
  <2>11. Assigns(C, F, i, -1, {}, 0)
    BY <2>10, SetsGood
  <2> QED
    BY <1>6, <1>7, <2>2, <2>11
<1>8. CASE ~(D.pos[i] < 0)
  <2>1. C.pos[i] + d \in Pos /\ C.shift[i] + d \in Int
    BY <1>1, <1>6, <1>8 DEF Pos
  <2>2. /\ D.pos = [C.pos EXCEPT ![i] = C.pos[i] + d] /\ D.shift = [C.shift EXCEPT ![i] = C.shift[i] + d]
        /\ D.seq = C.seq /\ D.used = C.used /\ D.seq_pos = SeqPosRm(C, i).seq_pos
        /\ D.has_shift /\ D.has_shift \in BOOLEAN
    BY <1>3, <1>5, <1>e
  <2>3. Assigns(C, SeqPosAdd(D, i), i, C.pos[i] + d, C.seq[i], C.shift[i] + d)
    BY <1>5, <2>1, <2>2, MovedGood
  <2>4. PosAdd(C, i, d) = SeqPosAdd(D, i)
    BY <1>8 DEF PosAdd, D, E
  <2> QED
    BY <1>6, <1>8, <2>3, <2>4
<1> QED
  BY <1>7, <1>8

LEMMA Quotient ==
  ASSUME NEW p \in Pos, NEW d \in Nat \ {0}
  PROVE  p \div d \in Pos
<1>1. p \in Nat /\ p <= MaxPos /\ MaxPos \in Nat
  BY CellsAssumption DEF Pos
<1> DEFINE q == p \div d
<1>2. q \in Int /\ d * q <= p /\ p < d * q + d
  BY <1>1
<1> HIDE DEF q
<1>3. q >= 0
  <2>1. ASSUME q <= -1 PROVE FALSE
    <3>1. d * q <= d * (-1)
      BY <1>2, <2>1
    <3> QED
      BY <1>1, <1>2, <3>1
  <2> QED
    BY <1>2, <2>1
<1>4. q <= p
  <2>1. q <= d * q
    BY <1>2, <1>3
  <2> QED
    BY <1>1, <1>2, <2>1
<1> QED
  BY <1>1, <1>2, <1>3, <1>4 DEF Pos, q

LEMMA PosDivGood ==
  ASSUME NEW C, Good(C), NEW i \in Cell, NEW d \in Nat \ {0}, ~IsEmpty(C, i)
  PROVE  Assigns(C, PosDiv(C, i, d), i, C.pos[i] \div d, C.seq[i],
                 C.shift[i] + C.pos[i] - C.pos[i] \div d)
<1> DEFINE E == SeqPosRm(C, i)
           q == C.pos[i] \div d
           e == C.shift[i] + C.pos[i] - q
           D == [E EXCEPT !.pos[i] = E.pos[i] \div d,
                          !.shift[i] = E.shift[i] + C.pos[i] - C.pos[i] \div d,
                          !.has_shift = TRUE]
<1>1. /\ C \in CellsType /\ Typed(C) /\ C.pos[i] \in Pos /\ C.shift[i] \in Int
      /\ C.pos[i] \in Int
  BY ByFields, CellsAssumption DEF Good, WellTyped, IsEmpty, Typed, Pos
<1>2. q \in Pos /\ q \in Int /\ e \in Int
  BY <1>1, Quotient, CellsAssumption DEF Pos
<1>3. /\ E \in CellsType /\ E.pos = C.pos /\ E.seq = C.seq /\ E.shift = C.shift /\ E.used = C.used
  BY <1>1, Recounted, -1 \in Int DEF SeqPosRm
<1>4. IsRecord(E)
  BY <1>3, ByFields
<1>e. E = SeqPosRm(C, i)
  OBVIOUS
<1> HIDE DEF E
<1>5. /\ IsRecord(D) /\ D.pos = [E.pos EXCEPT ![i] = E.pos[i] \div d]
      /\ D.shift = [E.shift EXCEPT ![i] = E.shift[i] + C.pos[i] - C.pos[i] \div d]
      /\ D.seq = E.seq /\ D.used = E.used /\ D.has_shift = TRUE /\ D.seq_pos = E.seq_pos
  BY <1>4 DEF IsRecord, Fields
<1>d. PosDiv(C, i, d) = SeqPosAdd(D, i)
  BY DEF PosDiv, D, E
<1> HIDE DEF D
<1>6. /\ D.pos = [C.pos EXCEPT ![i] = q] /\ D.shift = [C.shift EXCEPT ![i] = e]
      /\ D.seq = C.seq /\ D.used = C.used /\ D.seq_pos = SeqPosRm(C, i).seq_pos
      /\ D.has_shift /\ D.has_shift \in BOOLEAN
  BY <1>3, <1>5, <1>e
<1> HIDE DEF q, e
<1>7. Assigns(C, SeqPosAdd(D, i), i, q, C.seq[i], e)
  BY <1>2, <1>5, <1>6, MovedGood
<1> QED
  BY <1>7, <1>d DEF q, e

LEMMA SetCellGood ==
  ASSUME NEW C, Good(C), NEW i \in Cell, NEW p \in Pos \union {-1}, NEW S \in SUBSET Seqs,
         C.shift[i] = 0, p = -1 => S = {}
  PROVE  Assigns(C, SetCell(C, i, p, S), i, p, S, 0)
<1> DEFINE R == SeqPosRm(C, i)
           D == IF IsEmpty(C, i) THEN C ELSE R
           E == [D EXCEPT !.pos[i] = p, !.seq[i] = S,
                          !.used = IF p = -1 THEN @ \ {i} ELSE @ \union {i}]
           F == IF p = -1 THEN E ELSE SeqPosAdd(E, i)
<1>1. C \in CellsType /\ Typed(C) /\ IsRecord(C) /\ C.pos[i] \in Pos \union {-1}
  BY ByFields DEF Good, WellTyped, Typed
<1>i. \A s \in Seqs, r \in Pos : C.seq_pos[s][r] \in Int
  BY <1>1 DEF Typed
<1>2. /\ R \in CellsType /\ R.pos = C.pos /\ R.seq = C.seq /\ R.shift = C.shift
      /\ R.used = C.used /\ R.has_shift = C.has_shift
      /\ \A s \in Seqs, r \in Pos :
           R.seq_pos[s][r] = C.seq_pos[s][r] + (IF s \in C.seq[i] /\ r = C.pos[i] THEN -1 ELSE 0)
  BY <1>1, Recounted, -1 \in Int DEF SeqPosRm
<1>f. SetCell(C, i, p, S) = F
  BY DEF SetCell
<1> HIDE DEF R
<1>3. /\ D \in CellsType /\ D.pos = C.pos /\ D.seq = C.seq /\ D.shift = C.shift
      /\ D.used = C.used /\ D.has_shift = C.has_shift
  BY <1>1, <1>2
<1>4. \A s \in Seqs, r \in Pos : D.seq_pos[s][r] = C.seq_pos[s][r] - Adds(C, i, s, r)
  <2>1. CASE IsEmpty(C, i)
    <3>1. \A s \in Seqs : s \notin C.seq[i]
      BY <2>1 DEF Good, WellTyped
    <3> QED
      BY <1>i, <2>1, <3>1 DEF Adds
  <2>2. CASE ~IsEmpty(C, i)
    BY <1>i, <1>2, <2>2 DEF Adds
  <2> QED
    BY <2>1, <2>2
<1>5. IsRecord(D) /\ Typed(D)
  BY <1>3, ByFields
<1> HIDE DEF D
<1>6. /\ IsRecord(E) /\ E.pos = [D.pos EXCEPT ![i] = p] /\ E.seq = [D.seq EXCEPT ![i] = S]
      /\ E.used = IF p = -1 THEN D.used \ {i} ELSE D.used \union {i}
      /\ E.shift = D.shift /\ E.has_shift = D.has_shift /\ E.seq_pos = D.seq_pos
  BY <1>5 DEF IsRecord, Fields
<1> HIDE DEF E
<1>7. Typed(E)
  <2>1. E.pos \in [Cell -> Pos \union {-1}] /\ E.seq \in [Cell -> SUBSET Seqs]
    BY <1>5, <1>6 DEF Typed
  <2>2. E.used \in SUBSET Cell
    BY <1>5, <1>6 DEF Typed
  <2> QED
    BY <1>5, <1>6, <2>1, <2>2 DEF Typed
<1>8. E \in CellsType
  BY <1>6, <1>7, ByFields
<1>9. E.pos[i] = p /\ E.seq[i] = S /\ E.shift = [C.shift EXCEPT ![i] = 0]
  BY <1>1, <1>3, <1>5, <1>6 DEF Typed
<1>10. CASE p = -1
  <2>1. \A s \in Seqs, r \in Pos :
          E.seq_pos[s][r] = C.seq_pos[s][r] - Adds(C, i, s, r)
                              + (IF s \in S /\ p = r THEN 1 ELSE 0)
    BY <1>i, <1>4, <1>6, <1>10 DEF Adds
  <2>2. Sets(C, E, i, p, S, 0)
    BY <1>3, <1>6, <1>8, <1>9, <1>10, <2>1 DEF Sets
  <2> QED
    BY <1>f, <1>10, <2>2, SetsGood
<1>11. CASE p # -1
  <2> DEFINE G == SeqPosAdd(E, i)
  <2>1. /\ G \in CellsType /\ G.pos = E.pos /\ G.seq = E.seq /\ G.shift = E.shift
        /\ G.used = E.used /\ G.has_shift = E.has_shift
        /\ \A s \in Seqs, r \in Pos :
             G.seq_pos[s][r] = E.seq_pos[s][r] + (IF s \in E.seq[i] /\ r = E.pos[i] THEN 1 ELSE 0)
    BY <1>8, CountedAgain
  <2>f. F = G
    BY <1>11
  <2> HIDE DEF G
  <2>2. \A s \in Seqs, r \in Pos :
          G.seq_pos[s][r] = C.seq_pos[s][r] - Adds(C, i, s, r)
                              + (IF s \in S /\ p = r THEN 1 ELSE 0)
    BY <1>i, <1>4, <1>6, <1>9, <2>1 DEF Adds
  <2>3. Sets(C, G, i, p, S, 0)
    BY <1>3, <1>6, <1>9, <1>11, <2>1, <2>2 DEF Sets
  <2>4. Assigns(C, G, i, p, S, 0)
    BY <2>3, SetsGood
  <2> QED
    BY <1>f, <2>f, <2>4
<1> QED
  BY <1>10, <1>11

\* The one method that changes two cells: j takes the place of i among the cells
\* that hold a token.
LEMMA MvGood ==
  ASSUME NEW C, Good(C), NEW i \in Cell, NEW j \in Cell, ~IsEmpty(C, i), IsEmpty(C, j)
  PROVE  LET D == Mv(C, i, j) IN
         /\ Good(D) /\ D.has_shift = C.has_shift
         /\ D.pos[j] = C.pos[i] /\ D.seq[j] = C.seq[i] /\ D.shift[j] = C.shift[i]
         /\ D.pos[i] = -1 /\ D.seq[i] = {} /\ D.shift[i] = 0
         /\ \A k \in Cell \ {i, j} :
              D.pos[k] = C.pos[k] /\ D.seq[k] = C.seq[k] /\ D.shift[k] = C.shift[k]
<1> DEFINE D == Mv(C, i, j)
<1>1. /\ C \in CellsType /\ Typed(C) /\ IsRecord(C) /\ i # j
      /\ C.pos[j] = -1 /\ C.pos[i] # -1 /\ C.seq[j] = {} /\ C.shift[j] = 0
  BY ByFields DEF Good, WellTyped, IsEmpty
<1>2. /\ IsRecord(D) /\ D.pos = [[C.pos EXCEPT ![j] = C.pos[i]] EXCEPT ![i] = -1]
      /\ D.shift = [[C.shift EXCEPT ![j] = C.shift[i]] EXCEPT ![i] = 0]
      /\ D.seq = [[C.seq EXCEPT ![j] = C.seq[i]] EXCEPT ![i] = {}]
      /\ D.used = (C.used \ {i}) \union {j}
      /\ D.has_shift = C.has_shift /\ D.seq_pos = C.seq_pos
  BY <1>1 DEF Mv, IsRecord, Fields
<1> HIDE DEF D
<1>3. Typed(D)
  <2>1. D.pos \in [Cell -> Pos \union {-1}]
    BY <1>1, <1>2 DEF Typed
  <2>2. D.shift \in [Cell -> Int]
    BY <1>1, <1>2 DEF Typed
  <2>3. D.seq \in [Cell -> SUBSET Seqs]
    BY <1>1, <1>2 DEF Typed
  <2>4. D.used \in SUBSET Cell
    BY <1>1, <1>2 DEF Typed
  <2> QED
    BY <1>1, <1>2, <2>1, <2>2, <2>3, <2>4 DEF Typed
<1>4. /\ D.pos[j] = C.pos[i] /\ D.seq[j] = C.seq[i] /\ D.shift[j] = C.shift[i]
      /\ D.pos[i] = -1 /\ D.seq[i] = {} /\ D.shift[i] = 0
      /\ \A k \in Cell \ {i, j} :
           D.pos[k] = C.pos[k] /\ D.seq[k] = C.seq[k] /\ D.shift[k] = C.shift[k]
  BY <1>1, <1>2 DEF Typed
<1>5. WellTyped(D)
  <2>1. D \in CellsType
    BY <1>2, <1>3, ByFields
  <2> QED
    BY <1>1, <1>4, <2>1 DEF WellTyped, Good, IsEmpty
<1>6. UsedOK(D)
  BY <1>1, <1>2, <1>4 DEF UsedOK, Good, IsEmpty
<1>7. ShiftOK(D)
  BY <1>2, <1>4 DEF ShiftOK, Good
<1>8. ASSUME NEW s \in Seqs, NEW p \in Pos
      PROVE  Cardinality(Holding(D, s, p)) = Cardinality(Holding(C, s, p))
  <2> DEFINE H == Holding(C, s, p)
             G == Holding(D, s, p)
  <2>1. IsFiniteSet(H)
    BY FiniteCells, FS_Subset, H \subseteq Cell DEF Holding
  <2>2. j \notin H
    BY <1>1 DEF Holding
  <2>3. CASE i \in H
    <3>1. G = (H \ {i}) \union {j}
      BY <1>1, <1>4, <2>3 DEF Holding
    <3>2. IsFiniteSet(H \ {i}) /\ Cardinality(H \ {i}) = Cardinality(H) - 1
      BY <2>1, <2>3, FS_RemoveElement
    <3>3. Cardinality(G) = Cardinality(H \ {i}) + 1
      BY <2>2, <3>1, <3>2, FS_AddElement
    <3>4. Cardinality(H) \in Nat
      BY <2>1, FS_CardinalityType
    <3> QED
      BY <3>2, <3>3, <3>4
  <2>4. CASE i \notin H
    <3>1. G = H
      BY <1>1, <1>4, <2>2, <2>4 DEF Holding
    <3> QED
      BY <3>1
  <2> QED
    BY <2>3, <2>4
<1>9. CountsOK(D)
  BY <1>2, <1>8 DEF CountsOK, Good
<1> QED
  BY <1>2, <1>4, <1>5, <1>6, <1>7, <1>9 DEF Good, D

LEMMA ResetShiftGood ==
  ASSUME NEW C, Good(C)
  PROVE  LET D == ResetShift(C) IN
         /\ Good(D) /\ D.pos = C.pos /\ D.seq = C.seq /\ D.shift = [i \in Cell |-> 0]
         /\ D.has_shift = FALSE
<1> DEFINE D == ResetShift(C)
<1>1. C \in CellsType /\ Typed(C) /\ IsRecord(C)
  BY ByFields DEF Good, WellTyped
<1>2. /\ IsRecord(D) /\ D.pos = C.pos /\ D.seq = C.seq /\ D.used = C.used
      /\ D.shift = [i \in Cell |-> 0] /\ D.has_shift = FALSE /\ D.seq_pos = C.seq_pos
  BY <1>1 DEF ResetShift, IsRecord, Fields
<1> HIDE DEF D
<1>3. Typed(D)
  <2>1. [k \in Cell |-> 0] \in [Cell -> Int]
    OBVIOUS
  <2>2. D.shift \in [Cell -> Int]
    BY <1>2, <2>1
  <2>3. D.has_shift \in BOOLEAN
    BY <1>2
  <2> QED
    BY <1>1, <1>2, <2>2, <2>3 DEF Typed
<1>4. WellTyped(D)
  BY <1>2, <1>3, ByFields DEF WellTyped, Good, IsEmpty
<1>5. UsedOK(D) /\ CountsOK(D) /\ ShiftOK(D)
  BY <1>2 DEF UsedOK, CountsOK, ShiftOK, Good, IsEmpty, Holding
<1> QED
  BY <1>2, <1>4, <1>5 DEF Good, D

LEMMA NoCellsGood == Good(NoCells)
<1> DEFINE D == NoCells
<1>1. /\ D.pos = [i \in Cell |-> -1] /\ D.shift = [i \in Cell |-> 0]
      /\ D.seq = [i \in Cell |-> {}] /\ D.used = {} /\ D.has_shift = FALSE
      /\ D.seq_pos = [s \in Seqs |-> [p \in Pos |-> 0]] /\ IsRecord(D)
  BY DEF NoCells, IsRecord, Fields
<1> HIDE DEF D
<1>2. Typed(D)
  <2>1. D.pos \in [Cell -> Pos \union {-1}] /\ D.shift \in [Cell -> Int]
    BY <1>1
  <2>2. D.seq \in [Cell -> SUBSET Seqs] /\ D.used \in SUBSET Cell /\ D.has_shift \in BOOLEAN
    BY <1>1
  <2>3. D.seq_pos \in [Seqs -> [Pos -> Int]]
    BY <1>1
  <2> QED
    BY <2>1, <2>2, <2>3 DEF Typed
<1>3. WellTyped(D)
  BY <1>1, <1>2, ByFields DEF WellTyped
<1>4. UsedOK(D) /\ ShiftOK(D)
  BY <1>1 DEF UsedOK, ShiftOK, IsEmpty
<1>5. CountsOK(D)
  <2> SUFFICES ASSUME NEW s \in Seqs, NEW p \in Pos
               PROVE  D.seq_pos[s][p] = Cardinality(Holding(D, s, p))
    BY DEF CountsOK
  <2>1. Holding(D, s, p) = {}
    BY <1>1 DEF Holding
  <2> QED
    BY <1>1, <2>1, FS_EmptySet
<1> QED
  BY <1>3, <1>4, <1>5 DEF Good, D

\* Every method, called as its assertions demand, keeps the cells good.
LEMMA NextGood == Good(cells) /\ [NextCells]_cells => Good(cells')
<1> SUFFICES ASSUME Good(cells), [NextCells]_cells
             PROVE  Good(cells')
  OBVIOUS
<1>1. CASE \E i \in Cell : \E s \in Seqs : \E p \in Pos : \E S \in SUBSET Seqs :
             \/ ~IsEmpty(cells, i) /\ cells' = Rm(cells, i)
             \/ s \in cells.seq[i] /\ cells' = SeqRmCell(cells, i, s)
             \/ (cells.seq[i] = {} => IsEmpty(cells, i)) /\ cells' = SeqKeepCell(cells, i, s)
             \/ ~IsEmpty(cells, i) /\ s \notin cells.seq[i] /\ cells' = SeqAddCell(cells, i, s)
             \/ IsEmpty(cells, i) /\ cells' = PosSet(cells, i, p)
             \/ cells.shift[i] = 0 /\ cells' = SetCell(cells, i, p, S)
             \/ cells.shift[i] = 0 /\ cells' = SetCell(cells, i, -1, {})
  <2> PICK i \in Cell, s \in Seqs, p \in Pos, S \in SUBSET Seqs :
             \/ ~IsEmpty(cells, i) /\ cells' = Rm(cells, i)
             \/ s \in cells.seq[i] /\ cells' = SeqRmCell(cells, i, s)
             \/ (cells.seq[i] = {} => IsEmpty(cells, i)) /\ cells' = SeqKeepCell(cells, i, s)
             \/ ~IsEmpty(cells, i) /\ s \notin cells.seq[i] /\ cells' = SeqAddCell(cells, i, s)
             \/ IsEmpty(cells, i) /\ cells' = PosSet(cells, i, p)
             \/ cells.shift[i] = 0 /\ cells' = SetCell(cells, i, p, S)
             \/ cells.shift[i] = 0 /\ cells' = SetCell(cells, i, -1, {})
    BY <1>1
  <2>1. p # -1 /\ p \in Pos \union {-1} /\ -1 \in Pos \union {-1} /\ {} \in SUBSET Seqs
    BY DEF Pos
  <2>2. CASE ~IsEmpty(cells, i) /\ cells' = Rm(cells, i)
    BY <2>2, RmGood DEF Assigns
  <2>3. CASE s \in cells.seq[i] /\ cells' = SeqRmCell(cells, i, s)
    BY <2>3, SeqRmGood DEF Assigns
  <2>4. CASE cells' = SeqKeepCell(cells, i, s)
    BY <2>4, SeqKeepGood DEF Assigns
  <2>5. CASE ~IsEmpty(cells, i) /\ s \notin cells.seq[i] /\ cells' = SeqAddCell(cells, i, s)
    BY <2>5, SeqAddGood DEF Assigns
  <2>6. CASE IsEmpty(cells, i) /\ cells' = PosSet(cells, i, p)
    BY <2>6, PosSetGood DEF Assigns
  <2>7. CASE cells.shift[i] = 0 /\ cells' = SetCell(cells, i, p, S)
    BY <2>1, <2>7, SetCellGood DEF Assigns
  <2>8. CASE cells.shift[i] = 0 /\ cells' = SetCell(cells, i, -1, {})
    BY <2>1, <2>8, SetCellGood DEF Assigns
  <2> QED
    BY <2>2, <2>3, <2>4, <2>5, <2>6, <2>7, <2>8
<1>2. CASE \E i, j \in Cell : ~IsEmpty(cells, i) /\ IsEmpty(cells, j) /\ cells' = Mv(cells, i, j)
  BY <1>2, MvGood
<1>3. CASE \E i \in Cell, d \in Int :
             ~IsEmpty(cells, i) /\ cells.pos[i] + d <= MaxPos /\ cells' = PosAdd(cells, i, d)
  BY <1>3, PosAddGood DEF Assigns
<1>4. CASE \E i \in Cell, d \in Nat \ {0} : ~IsEmpty(cells, i) /\ cells' = PosDiv(cells, i, d)
  BY <1>4, PosDivGood DEF Assigns
<1>5. CASE cells' = ResetShift(cells)
  BY <1>5, ResetShiftGood
<1>6. CASE cells' = NoCells
  BY <1>6, NoCellsGood
<1>7. CASE UNCHANGED cells
  BY <1>7
<1> QED
  BY <1>1, <1>2, <1>3, <1>4, <1>5, <1>6, <1>7 DEF NextCells

\* After any sequence of calls the cells have their types, and an empty cell has
\* neither sequences nor a shift.
THEOREM CellsTypeCorrect == SpecCells => []CellsTypeOK
<1>1. InitCells => Good(cells)
  BY NoCellsGood DEF InitCells
<1>2. Good(cells) /\ [NextCells]_cells => Good(cells)'
  BY NextGood
<1>3. Good(cells) => CellsTypeOK
  BY DEF Good, CellsTypeOK
<1> QED
  BY <1>1, <1>2, <1>3, PTL DEF SpecCells

\* After any sequence of calls the summaries agree with the cells: used, the
\* counts of seq_pos and has_shift, on which find_slot, the checks of a batch
\* and K-shift rely.
THEOREM CellsCorrect == SpecCells => []CellsOK
<1>1. InitCells => Good(cells)
  BY NoCellsGood DEF InitCells
<1>2. Good(cells) /\ [NextCells]_cells => Good(cells)'
  BY NextGood
<1>3. Good(cells) => CellsOK
  BY DEF Good, CellsOK
<1> QED
  BY <1>1, <1>2, <1>3, PTL DEF SpecCells
=============================================================================
