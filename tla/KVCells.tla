------------------------------ MODULE KVCells -------------------------------
(***************************************************************************)
(* The cells of llama.cpp's unified KV cache (src/llama-kv-cells.h, class  *)
(* llama_kv_cells_unified): which position and which sequences each cell   *)
(* holds, and two summaries of it that every method keeps up to date by    *)
(* hand, the set of used cells and the number of times each position       *)
(* occurs in each sequence.  A method is an operator from a state of the   *)
(* cells to the next; what it asserts is a guard of its action.            *)
(***************************************************************************)
EXTENDS Integers, FiniteSets

CONSTANTS NCells, Seqs, MaxPos      \* MaxPos bounds the positions

ASSUME CellsAssumption ==
    NCells \in Nat \ {0} /\ Seqs \subseteq Nat /\ MaxPos \in Nat

VARIABLE cells

Cell == 0 .. NCells - 1
Pos == 0 .. MaxPos

NoCells == [pos |-> [i \in Cell |-> -1], shift |-> [i \in Cell |-> 0],
            seq |-> [i \in Cell |-> {}], used |-> {},
            seq_pos |-> [s \in Seqs |-> [p \in Pos |-> 0]], has_shift |-> FALSE]

IsEmpty(C, i) == C.pos[i] = -1
PosIn(C, i, p0, p1) == C.pos[i] >= p0 /\ C.pos[i] < p1

\* seq_pos_inc and seq_pos_dec, for the sequences of S.
Count(sp, S, p, n) ==
    [s \in Seqs |-> IF s \in S THEN [sp[s] EXCEPT ![p] = @ + n] ELSE sp[s]]
Recount(C, S, p, n) == [C EXCEPT !.seq_pos = Count(@, S, p, n)]
SeqPosRm(C, i) == Recount(C, C.seq[i], C.pos[i], -1)
SeqPosAdd(C, i) == Recount(C, C.seq[i], C.pos[i], 1)

WithSeqs(C, i, S) == [C EXCEPT !.seq[i] = S]

Present(C, s) == {p \in Pos : C.seq_pos[s][p] > 0}
SeqPosMin(C, s) == IF Present(C, s) = {} THEN -1
                   ELSE CHOOSE p \in Present(C, s) : \A q \in Present(C, s) : p <= q
SeqPosMax(C, s) == IF Present(C, s) = {} THEN -1
                   ELSE CHOOSE p \in Present(C, s) : \A q \in Present(C, s) : p >= q

-----------------------------------------------------------------------------
\* What every method does to a cell that becomes empty.
Emptied(C, i) == [C EXCEPT !.pos[i] = -1, !.shift[i] = 0, !.seq[i] = {}, !.used = @ \ {i}]

Rm(C, i) == Emptied(SeqPosRm(C, i), i)

\* mutant: the count of the position is left as it was.
SeqRmUncounted(C, i, s) ==
    LET D == WithSeqs(C, i, C.seq[i] \ {s}) IN
    IF D.seq[i] = {} THEN Emptied(D, i) ELSE D

SeqRmCell(C, i, s) ==
    LET D == Recount(WithSeqs(C, i, C.seq[i] \ {s}), {s}, C.pos[i], -1) IN
    IF D.seq[i] = {} THEN Emptied(D, i) ELSE D

SeqKeepCell(C, i, s) ==
    CASE s \in C.seq[i] -> SeqPosAdd(WithSeqs(SeqPosRm(C, i), i, {s}), i)
      [] s \notin C.seq[i] /\ C.seq[i] # {} -> Rm(C, i)
      [] OTHER -> C

SeqAddCell(C, i, s) ==
    Recount(WithSeqs(C, i, C.seq[i] \union {s}), {s}, C.pos[i], 1)

PosSet(C, i, p) == [C EXCEPT !.pos[i] = p, !.used = @ \union {i}]

PosAdd(C, i, d) ==
    LET D == [SeqPosRm(C, i) EXCEPT !.pos[i] = @ + d, !.shift[i] = @ + d,
                                    !.has_shift = TRUE] IN
    IF D.pos[i] < 0 THEN Emptied(D, i) ELSE SeqPosAdd(D, i)

\* The difference is the other way round than in pos_add.
PosDiv(C, i, d) ==
    SeqPosAdd([SeqPosRm(C, i) EXCEPT !.pos[i] = @ \div d,
                                     !.shift[i] = @ + C.pos[i] - C.pos[i] \div d,
                                     !.has_shift = TRUE], i)

ResetShift(C) == [C EXCEPT !.shift = [i \in Cell |-> 0], !.has_shift = FALSE]

\* A cell that moves (defrag) keeps its position and its sequences.
Mv(C, src, dst) ==
    [C EXCEPT !.pos = [@ EXCEPT ![dst] = C.pos[src], ![src] = -1],
              !.shift = [@ EXCEPT ![dst] = C.shift[src], ![src] = 0],
              !.seq = [@ EXCEPT ![dst] = C.seq[src], ![src] = {}],
              !.used = (@ \ {src}) \union {dst}]

\* One round of the loop of set(): the cell gets a saved state back.
SetCell(C, i, p, S) ==
    LET D == IF IsEmpty(C, i) THEN C ELSE SeqPosRm(C, i)
        E == [D EXCEPT !.pos[i] = p, !.seq[i] = S,
                       !.used = IF p = -1 THEN @ \ {i} ELSE @ \union {i}] IN
    IF p = -1 THEN E ELSE SeqPosAdd(E, i)

-----------------------------------------------------------------------------
\* Every sequence of calls that respects the assertions of the class.
InitCells == cells = NoCells

NextCells ==
    \/ \E i \in Cell : \E s \in Seqs : \E p \in Pos : \E S \in SUBSET Seqs :
         \/ ~IsEmpty(cells, i) /\ cells' = Rm(cells, i)
         \/ s \in cells.seq[i] /\ cells' = SeqRmCell(cells, i, s)
         \/ (cells.seq[i] = {} => IsEmpty(cells, i)) /\ cells' = SeqKeepCell(cells, i, s)
         \/ ~IsEmpty(cells, i) /\ s \notin cells.seq[i] /\ cells' = SeqAddCell(cells, i, s)
         \/ IsEmpty(cells, i) /\ cells' = PosSet(cells, i, p)
         \/ cells.shift[i] = 0 /\ cells' = SetCell(cells, i, p, S)
         \/ cells.shift[i] = 0 /\ cells' = SetCell(cells, i, -1, {})
    \/ \E i, j \in Cell :
         ~IsEmpty(cells, i) /\ IsEmpty(cells, j) /\ cells' = Mv(cells, i, j)
    \/ \E i \in Cell, d \in Int :
         ~IsEmpty(cells, i) /\ cells.pos[i] + d <= MaxPos /\ cells' = PosAdd(cells, i, d)
    \/ \E i \in Cell, d \in Nat \ {0} :
         ~IsEmpty(cells, i) /\ cells' = PosDiv(cells, i, d)
    \/ cells' = ResetShift(cells)
    \/ cells' = NoCells

SpecCells == InitCells /\ [][NextCells]_cells

CellsType == [pos : [Cell -> Pos \union {-1}], shift : [Cell -> Int],
              seq : [Cell -> SUBSET Seqs], used : SUBSET Cell,
              seq_pos : [Seqs -> [Pos -> Int]], has_shift : BOOLEAN]

\* An empty cell belongs to no sequence and has no shift.
WellTyped(C) ==
    /\ C \in CellsType
    /\ \A i \in Cell : IsEmpty(C, i) => C.seq[i] = {} /\ C.shift[i] = 0

Holding(C, s, p) == {i \in Cell : s \in C.seq[i] /\ C.pos[i] = p}

UsedOK(C) == C.used = {i \in Cell : ~IsEmpty(C, i)}
CountsOK(C) == \A s \in Seqs, p \in Pos : C.seq_pos[s][p] = Cardinality(Holding(C, s, p))
ShiftOK(C) == \A i \in Cell : C.shift[i] # 0 => C.has_shift

\* The type invariant of the cells.
CellsTypeOK == WellTyped(cells)

\* The summaries agree with the cells, whatever was called in whatever order:
\* used is the set of cells that are not empty, and seq_pos counts the cells
\* of each sequence at each position, so that seq_pos_min and seq_pos_max, on
\* which every decode relies, are the true ones.  A shift that is still to be
\* applied is announced by has_shift.
CellsOK == UsedOK(cells) /\ CountsOK(cells) /\ ShiftOK(cells)
=============================================================================
