------------------------------ MODULE KVCache -------------------------------
(***************************************************************************)
(* The unified KV cache (src/llama-kv-cache-unified.cpp) as llama_decode   *)
(* (src/llama-context.cpp) uses it: the user's operations on sequences,    *)
(* and a decode that applies pending shifts, finds a slot for every        *)
(* ubatch, defragments and tries once more when it finds none, and then    *)
(* stores and computes ubatch after ubatch, each of which may fail.        *)
(*                                                                         *)
(* One thread calls all of it.  The tensors are data: which token a row    *)
(* was computed from and at which position its key was rotated.            *)
(***************************************************************************)
EXTENDS KVCells, Sequences, FiniteSetsExt

CONSTANTS Tokens, Words,        \* tokens with the list of sequences they are for
          NBatch, NUbatch,      \* tokens of a batch and of a ubatch
          Offsets,              \* by how much a caller is wrong about positions
          SwaType, NSwa,        \* sliding window: "none", "standard", "chunked"
          MaxMoves,             \* blocks one defragmentation may move
          UserOps,              \* what the user does between decodes,
          Ranges, Shifts,       \* to which [p0, p1) and by how much,
          MaxShift,             \* up to this shift of a cell at a time
          MayFail               \* the graphs whose computation may fail

\* Sequences are numbered from 0, and a token is for each of its own once.
ASSUME CacheAssumption ==
    /\ {NBatch, NUbatch, NSwa, MaxMoves} \subseteq Nat \ {0}
    /\ IsFiniteSet(Seqs) /\ Seqs = 0 .. Cardinality(Seqs) - 1
    /\ Words \subseteq [tok : Tokens, seqs : {q \in Seq(Seqs) : q # <<>> /\ IsInjective(q)}]
    /\ SwaType \in {"none", "standard", "chunked"}
    /\ Offsets \subseteq Nat /\ MayFail \subseteq {"ubatch", "shift", "defrag"}
    /\ Ranges \subseteq Int \X Int /\ Shifts \subseteq Int /\ MaxShift \in Nat
    /\ UserOps \subseteq {"clear", "rm", "cp", "keep", "add", "div", "defrag"}

VARIABLES head, data,
          ctx,      \* the decode in progress: its ubatches and their slots
          ret       \* the last decode: its result and its number of tokens

cacheVars == <<cells, head, data, ctx, ret>>

Junk == [tok |-> "junk", rope |-> 0]
Idle == [ubs |-> <<>>, heads |-> <<>>]
NoResult == [code |-> 0, n |-> 0]

\* A state of the cache in the middle of an operation, and its end.  The row of
\* a cell that is left empty is never read again.
Cache == [c |-> cells, h |-> head, d |-> data]
Becomes(M) ==
    /\ cells' = M.c /\ head' = M.h
    /\ data' = [i \in Cell |-> IF IsEmpty(M.c, i) THEN Junk ELSE M.d[i]]

InitCache ==
    /\ InitCells
    /\ head = 0 /\ data = [i \in Cell |-> Junk]
    /\ ctx = Idle /\ ret = NoResult

-----------------------------------------------------------------------------
(* Operations on sequences.                                                *)

\* A loop over the elements of s that updates x.
Loop(Op(_, _), x, s) ==
    LET after[k \in 0 .. Len(s)] == IF k = 0 THEN x ELSE Op(after[k - 1], s[k])
    IN after[Len(s)]

Rounds(n) == [k \in 1 .. n |-> k]
CellOrder == [k \in 1 .. NCells |-> k - 1]
SeqOrder == [k \in 1 .. Cardinality(Seqs) |-> k - 1]
EachCell(Op(_, _), C) == Loop(Op, C, CellOrder)
End(p1) == IF p1 < 0 THEN MaxPos + 1 ELSE p1
From(p0) == IF p0 < 0 THEN 0 ELSE p0
\* mutant: p1 belongs to the range.
InRangeClosed(C, i, p0, p1) == PosIn(C, i, From(p0), End(p1) + 1)

InRange(C, i, p0, p1) == PosIn(C, i, From(p0), End(p1))
Freed(C, D) == {i \in Cell : ~IsEmpty(C, i) /\ IsEmpty(D, i)}

\* The head goes back to the first cell that was freed.
HeadBack(C, D, h) == LET F == Freed(C, D) IN IF F # {} /\ Min(F) < h THEN Min(F) ELSE h
Left(M, D) == [M EXCEPT !.c = D, !.h = HeadBack(M.c, D, @)]

RmInRange(C, i, s, p0, p1) ==
    CASE InRange(C, i, p0, p1) /\ s < 0 -> Rm(C, i)
      [] InRange(C, i, p0, p1) /\ s >= 0 /\ s \in C.seq[i] -> SeqRmCell(C, i, s)
      [] OTHER -> C

SeqRm(M, s, p0, p1) ==
    Left(M, EachCell(LAMBDA C, i : RmInRange(C, i, s, p0, p1), M.c))

SeqKeep(M, s) == Left(M, EachCell(LAMBDA C, i : SeqKeepCell(C, i, s), M.c))

Belongs(C, i, s, p0, p1) == InRange(C, i, p0, p1) /\ s \in C.seq[i]

SeqCp(M, s, d, p0, p1) ==
    [M EXCEPT !.c = EachCell(
        LAMBDA C, i : IF Belongs(C, i, s, p0, p1) THEN SeqAddCell(C, i, d) ELSE C, @)]

SeqAdd(M, s, p0, p1, d) ==
    LET D == EachCell(
               LAMBDA C, i : IF Belongs(C, i, s, p0, p1) THEN PosAdd(C, i, d) ELSE C, M.c)
        F == Freed(M.c, D)
    IN [M EXCEPT !.c = D, !.h = IF F = {} THEN 0 ELSE Min(F)]

SeqDiv(M, s, p0, p1, d) ==
    [M EXCEPT !.c = EachCell(
        LAMBDA C, i : IF Belongs(C, i, s, p0, p1) THEN PosDiv(C, i, d) ELSE C, @)]

\* The caller has the result of the last decode and makes its next call.
Ready == ctx = Idle /\ ret = NoResult
User(op) == Ready /\ op \in UserOps /\ UNCHANGED <<ctx, ret>>

Clear == User("clear") /\ Becomes([Cache EXCEPT !.c = NoCells, !.h = 0])

RemoveTokens(s, p0, p1) == User("rm") /\ Becomes(SeqRm(Cache, s, p0, p1))

Keep(s) == User("keep") /\ Becomes(SeqKeep(Cache, s))

\* The cells assert that they are not in the other sequence yet.
Copy(s, d, p0, p1) ==
    /\ User("cp") /\ s # d
    /\ \A i \in Cell : Belongs(cells, i, s, p0, p1) => d \notin cells.seq[i]
    /\ Becomes(SeqCp(Cache, s, d, p0, p1))

\* Bounds: no position becomes greater than MaxPos, no shift than MaxShift.
Add(s, p0, p1, d) ==
    /\ User("add") /\ d # 0 /\ p0 # p1
    /\ \A i \in Cell : Belongs(cells, i, s, p0, p1) =>
         cells.pos[i] + d <= MaxPos /\ cells.shift[i] + d \in -MaxShift .. MaxShift
    /\ Becomes(SeqAdd(Cache, s, p0, p1, d))

\* Bound: the keys of the cells are where they should be, so that they get out
\* of place once (see KeysRotated).
Div(s, p0, p1, d) ==
    /\ User("div") /\ d # 1 /\ p0 # p1
    /\ \A i \in Cell : Belongs(cells, i, s, p0, p1) => data[i].rope = cells.pos[i]
    /\ Becomes(SeqDiv(Cache, s, p0, p1, d))

-----------------------------------------------------------------------------
(* Shifts and defragmentation: init_update and update.                     *)

\* mutant: the shift that was applied stays pending.
KShiftKeeps(M) ==
    [M EXCEPT !.d = [i \in Cell |-> IF IsEmpty(M.c, i) THEN M.d[i] ELSE
                                    [tok |-> M.d[i].tok, rope |-> M.d[i].rope + M.c.shift[i]]]]

KShift(M) ==
    [M EXCEPT !.c = ResetShift(M.c),
              !.d = [i \in Cell |-> IF IsEmpty(M.c, i) THEN M.d[i] ELSE
                                    [tok |-> M.d[i].tok, rope |-> M.d[i].rope + M.c.shift[i]]]]

UsedMaxP1(C) == IF C.used = {} THEN 0 ELSE Max(C.used) + 1

\* The next cell, with a hole the whole of it: a hole is filled with the last
\* cells that have not been given a new place, kept in their order; each block
\* of neighbours is a move.
FillStep(S, C) ==
    LET i0 == S.i0
        n_used == Cardinality(C.used)
        n_kv == UsedMaxP1(C)
        hole == CHOOSE nh \in 1 .. n_used - i0 :
                  /\ \A i \in i0 .. i0 + nh - 1 : IsEmpty(C, i)
                  /\ i0 + nh < n_used => ~IsEmpty(C, i0 + nh)
        left == {i \in i0 .. n_kv - 1 : ~IsEmpty(C, i) /\ S.ids[i] = n_kv}
        movers == {i \in left : Cardinality({j \in left : j >= i}) <= hole}
        starts == {i \in movers : i - 1 \notin movers}
        moved == {i \in movers : S.n + Cardinality({j \in starts : j <= i}) <= MaxMoves}
        moves == S.n + Cardinality(starts \intersect moved)
    IN CASE i0 >= n_used -> S
         [] i0 < n_used /\ ~IsEmpty(C, i0) -> [S EXCEPT !.i0 = i0 + 1, !.ids[i0] = i0]
         [] OTHER ->
              [i0 |-> IF moves = MaxMoves THEN n_used ELSE i0 + hole, n |-> moves,
               ids |-> [i \in 0 .. n_kv - 1 |->
                          IF i \in moved THEN i0 + Cardinality({j \in movers : j < i})
                          ELSE S.ids[i]]]

Unfilled(C) == [i0 |-> 0, n |-> 0, ids |-> [i \in 0 .. UsedMaxP1(C) - 1 |-> UsedMaxP1(C)]]
Fill(C) == Loop(LAMBDA S, k : FillStep(S, C), Unfilled(C), Rounds(Cardinality(C.used)))

DefragPrepare(C) == IF Fill(C).n = 0 THEN <<>> ELSE Fill(C).ids

Moved(ids, i) == i \in DOMAIN ids /\ ids[i] # Cardinality(DOMAIN ids) /\ ids[i] # i

Defrag(M, ids) ==
    [M EXCEPT !.c = EachCell(LAMBDA C, i : IF Moved(ids, i) THEN Mv(C, i, ids[i]) ELSE C, @),
              !.h = 0,
              !.d = [k \in Cell |-> IF \E i \in Cell : Moved(ids, i) /\ ids[i] = k
                                    THEN @[CHOOSE i \in Cell : Moved(ids, i) /\ ids[i] = k]
                                    ELSE @[k]]]

\* mutant: a defragmentation alone is not reported as something done.
UpdateShiftOnly(M, optimize) ==
    LET ids == IF optimize THEN DefragPrepare(M.c) ELSE <<>>
        Shifted == IF ~M.c.has_shift THEN M ELSE KShift(M)
    IN {[m |-> IF ids = <<>> THEN Shifted ELSE Defrag(Shifted, ids), did |-> M.c.has_shift]}

\* kv_self_update: the states it may leave behind, and whether there was
\* anything to do.  A K-shift that fails leaves the shift for another time,
\* and the defragmentation with it; a defragmentation that fails has moved the
\* cells and not the data.
Update(M, optimize) ==
    LET ids == IF optimize THEN DefragPrepare(M.c) ELSE <<>>
        did == M.c.has_shift \/ ids # <<>>
        Shifted == IF ~M.c.has_shift THEN M ELSE KShift(M)
        Done == IF ids = <<>> THEN Shifted ELSE Defrag(Shifted, ids)
    IN {[m |-> Done, did |-> did]}
       \union (IF "shift" \in MayFail /\ M.c.has_shift THEN {[m |-> M, did |-> did]} ELSE {})
       \union (IF "defrag" \in MayFail /\ ids # <<>>
               THEN {[m |-> [Done EXCEPT !.d = Shifted.d], did |-> did]} ELSE {})

\* llama_kv_self_defrag and llama_kv_self_update.
DefragNow ==
    /\ User("defrag")
    /\ \E u \in Update(Cache, TRUE) : u.did /\ Becomes(u.m)

-----------------------------------------------------------------------------
(* Slots: find_slot, apply_ubatch and prepare.                             *)

IsMaskedSwa(p0, p1) ==
    \/ SwaType = "standard" /\ p1 - p0 >= NSwa
    \/ SwaType = "chunked" /\ p0 < (p1 \div NSwa) * NSwa

\* mutant: the window of the position after the next one.
CanUseEarly(C, i) ==
    \/ IsEmpty(C, i)
    \/ \E s \in Seqs : C.seq[i] = {s} /\ IsMaskedSwa(C.pos[i], SeqPosMax(C, s) + 2)

CanUse(C, i) ==
    \/ IsEmpty(C, i)
    \/ \E s \in Seqs : C.seq[i] = {s} /\ IsMaskedSwa(C.pos[i], SeqPosMax(C, s) + 1)

SearchStep(r, C, n) ==
    LET bad == {i \in 0 .. n - 1 : ~CanUse(C, r.h + i)}
        k == Min(bad) + 1
    IN CASE r.done -> r
         [] ~r.done /\ r.h + n > NCells ->
              [h |-> 0, tested |-> r.tested + NCells - r.h, done |-> FALSE]
         [] ~r.done /\ r.h + n <= NCells /\ bad = {} -> [r EXCEPT !.done = TRUE]
         [] OTHER -> IF r.tested + k >= NCells THEN [r EXCEPT !.h = -1, !.done = TRUE]
                     ELSE [h |-> r.h + k, tested |-> r.tested + k, done |-> FALSE]

\* The loop ends in fewer rounds than that (see FindsASlot).
Search(C, h, tested, n) ==
    Loop(LAMBDA r, k : SearchStep(r, C, n), [h |-> h, tested |-> tested, done |-> FALSE],
         Rounds(NCells + 2)).h

\* mutant: the cells before head count as tested from the start.
FindSlotFromHead(M, n) ==
    LET h == IF M.h > Cardinality(M.c.used) + 2 * n THEN 0 ELSE M.h
    IN IF n > NCells THEN -1 ELSE Search(M.c, h, h, n)

FindSlot(M, n) ==
    LET h == IF M.h > Cardinality(M.c.used) + 2 * n THEN 0 ELSE M.h
    IN IF n > NCells THEN -1 ELSE Search(M.c, h, 0, n)

\* A token's cell, emptied first if the window had left it behind.
Place(C, i, t) ==
    LET D == PosSet(IF IsEmpty(C, i) THEN C ELSE Rm(C, i), i, t.pos)
    IN Loop(LAMBDA E, s : SeqAddCell(E, i, s), D, t.seqs)

Placed(M, h, ub) ==
    Loop(LAMBDA C, k : Place(C, h + k - 1, ub[k]), M.c, Rounds(Len(ub)))

\* mutant: only what was overwritten is lost.
ApplyNoPurge(M, h, ub) == [M EXCEPT !.c = Placed(M, h, ub), !.h = h + Len(ub)]

\* Positions below one that was overwritten are purged, so that those of a
\* sequence stay consecutive.
Overwritten(M, h, n, s) ==
    Max({-1} \union {M.c.pos[i] : i \in {j \in h .. h + n - 1 : s \in M.c.seq[j]}})

Purge(N, s, last) ==
    IF last # -1 /\ SeqPosMin(N.c, s) <= last THEN SeqRm(N, s, SeqPosMin(N.c, s), last + 1)
    ELSE N

Apply(M, h, ub) ==
    [Loop(LAMBDA N, s : Purge(N, s, Overwritten(M, h, Len(ub), s)),
          [M EXCEPT !.c = Placed(M, h, ub)], SeqOrder) EXCEPT !.h = h + Len(ub)]

\* One ubatch gets its slot, and the cells it takes are saved; every slot gets its
\* old cells back, the last one first.
TakeSlot(P, ub, h) ==
    IF ~P.ok \/ h < 0 THEN [P EXCEPT !.ok = FALSE]
    ELSE [m |-> Apply(P.m, h, ub), ok |-> TRUE, heads |-> Append(P.heads, h),
          saved |-> <<[at |-> h, n |-> Len(ub), old |-> P.m]>> \o P.saved]
TrySlot(P, ub) == TakeSlot(P, ub, FindSlot(P.m, Len(ub)))

Restore(N, st) ==
    [N EXCEPT !.h = st.old.h,
              !.c = Loop(LAMBDA C, k : SetCell(C, k, st.old.c.pos[k], st.old.c.seq[k]),
                             @, [k \in 1 .. st.n |-> st.at + k - 1])]

Trial(M, ubs) == Loop(TrySlot, [m |-> M, ok |-> TRUE, heads |-> <<>>, saved |-> <<>>], ubs)
Restored(res) == Loop(Restore, res.m, res.saved)

\* mutant: the slots found before one is missing are returned.
OutcomePartial(res) == [m |-> Restored(res), heads |-> res.heads]

\* mutant: the cells are restored only if every ubatch had a slot.
OutcomeKeeps(res) ==
    [m |-> IF res.ok THEN Restored(res) ELSE res.m,
     heads |-> IF res.ok THEN res.heads ELSE <<>>]

\* The slots for the ubatches, <<>> when one has none, and the cache that is left.
Outcome(res) == [m |-> Restored(res), heads |-> IF res.ok THEN res.heads ELSE <<>>]
Prepare(M, ubs) == Outcome(Trial(M, ubs))

\* The sliding-window half of llama_kv_cache_unified_iswa is asked twice; for
\* the batches of one sequence that SWA is modelled with, both splits agree.
AskTwice(res, ubs) ==
    IF res.heads = <<>> /\ SwaType # "none" THEN Prepare(res.m, ubs) ELSE res
InitBatch(M, ubs) == AskTwice(Prepare(M, ubs), ubs)

-----------------------------------------------------------------------------
(* llama_decode.                                                           *)

\* Positions the caller leaves out continue those of the first sequence.
Position(acc, t) ==
    LET p == acc.p0[t.seqs[1]] IN
    [out |-> Append(acc.out, [tok |-> t.tok, seqs |-> t.seqs, pos |-> p]),
     p0 |-> [s \in Seqs |-> IF s \in Range(t.seqs) THEN p + 1 ELSE acc.p0[s]]]

WithPositions(C, batch) ==
    Loop(Position, [out |-> <<>>, p0 |-> [s \in Seqs |-> SeqPosMax(C, s) + 1]], batch).out

\* The caller leaves the positions out, or it counts them itself and is wrong.
Batches(C, input) ==
    LET batch == WithPositions(C, input)
    IN {[k \in DOMAIN batch |-> [batch[k] EXCEPT !.pos = batch[k].pos + n]] : n \in Offsets}

\* Two checks of the code refuse nothing: tokens of a sequence have that one in
\* common, and cur_seq_pos stays -1, so that positions may decrease.  That those of
\* Batches do not is what callers do.
BatchOK(C, batch) ==
    LET Of(s) == {i \in DOMAIN batch : s \in Range(batch[i].seqs)}
        P(s) == {batch[i].pos : i \in Of(s)}
    IN /\ \A s \in Seqs : P(s) # {} =>
            /\ SeqPosMax(C, s) >= 0 => Min(P(s)) = SeqPosMax(C, s) + 1
            /\ Max(P(s)) - Min(P(s)) + 1 <= Cardinality(P(s))
       /\ \A i \in DOMAIN batch : \A s \in Range(batch[i].seqs) :
            /\ SeqPosMin(C, s) = SeqPosMin(C, batch[i].seqs[1])
            /\ SeqPosMax(C, s) = SeqPosMax(C, batch[i].seqs[1])

SplitSimple(batch) ==
    [k \in 1 .. (Len(batch) + NUbatch - 1) \div NUbatch |->
       SubSeq(batch, (k - 1) * NUbatch + 1, Min({k * NUbatch, Len(batch)}))]

Returns(code, batch) == ctx' = Idle /\ ret' = [code |-> code, n |-> Len(batch)]

DecodeRefused(batch) ==
    /\ ~BatchOK(cells, batch)
    /\ Returns(-1, batch) /\ UNCHANGED <<cells, head, data>>

Found(M, ubs, heads) ==
    Becomes(M) /\ ctx' = [ubs |-> ubs, heads |-> heads] /\ ret' = NoResult

\* A defragmentation is due because the user asked for it or because the cache
\* is fragmented beyond the threshold.
DecodePrepared(batch) ==
    LET ubs == SplitSimple(batch) IN
       /\ BatchOK(cells, batch)
       /\ \E due \in {FALSE, "defrag" \in UserOps} : \E u \in Update(Cache, due) :
            \E first \in {InitBatch(u.m, ubs)} :
            \/ first.heads # <<>> /\ Found(first.m, ubs, first.heads)
            \/ /\ first.heads = <<>>
               /\ \E v \in Update(first.m, TRUE) :
                    \/ ~v.did /\ Becomes(v.m) /\ Returns(1, batch)
                    \/ /\ v.did
                       /\ \E second \in {InitBatch(v.m, ubs)} :
                            \/ second.heads # <<>> /\ Found(second.m, ubs, second.heads)
                            \/ second.heads = <<>> /\ Becomes(second.m) /\ Returns(1, batch)

Inputs == UNION {[1 .. n -> Words] : n \in 1 .. NBatch}

\* Bounds: positions up to MaxPos; batches of one sequence with SWA.
Decode ==
    /\ Ready
    /\ \E input \in Inputs : \E batch \in Batches(cells, input) :
         /\ \A i \in DOMAIN batch : batch[i].pos <= MaxPos
         /\ SwaType # "none" => \A i \in DOMAIN batch : batch[i].seqs = batch[1].seqs
         /\ DecodeRefused(batch) \/ DecodePrepared(batch)

\* The next ubatch is placed in its slot and computed.
Compute ==
    LET ub == Head(ctx.ubs)
        h == Head(ctx.heads)
        rest == [ubs |-> Tail(ctx.ubs), heads |-> Tail(ctx.heads)]
        row(i) == [tok |-> ub[i - h + 1].tok, rope |-> ub[i - h + 1].pos]
        slot == h .. h + Len(ub) - 1
        M == Apply(Cache, h, ub)
    IN /\ ctx # Idle
       /\ Becomes([M EXCEPT !.d = [i \in Cell |-> IF i \in slot THEN row(i) ELSE M.d[i]]])
       /\ ctx' = rest /\ UNCHANGED ret

\* Only the first sequence of each token is removed.
RemoveFailedOf(N, s, ub) ==
    LET from == {t.pos : t \in {u \in Range(ub) : u.seqs[1] = s}} IN
    IF from = {} THEN N ELSE SeqRm(N, s, Min(from), -1)
RemoveFailed(M, ub) == Loop(LAMBDA N, s : RemoveFailedOf(N, s, ub), M, SeqOrder)

ComputeFails ==
    LET ub == Head(ctx.ubs)
        h == Head(ctx.heads)
        slot == h .. h + Len(ub) - 1
        M == Apply(Cache, h, ub)
        Failed == [M EXCEPT !.d = [i \in Cell |-> IF i \in slot THEN Junk ELSE M.d[i]]]
    IN /\ "ubatch" \in MayFail /\ ctx # Idle
       /\ Becomes(RemoveFailed(Failed, ub)) /\ Returns(-3, ub)

ReadResult == ret # NoResult /\ ret' = NoResult /\ UNCHANGED <<cells, head, data, ctx>>

UserNext ==
    \/ Clear \/ DefragNow
    \/ \E s \in Seqs : Keep(s)
    \/ \E r \in Ranges :
         \/ \E s \in Seqs \union {-1} : RemoveTokens(s, r[1], r[2])
         \/ \E s, d \in Seqs : Copy(s, d, r[1], r[2])
         \/ \E s \in Seqs, d \in Shifts : Add(s, r[1], r[2], d)
         \/ \E s \in Seqs : Div(s, r[1], r[2], 2)

NextCache == UserNext \/ Decode \/ ReadResult \/ Compute \/ ComputeFails

SpecCache == InitCache /\ [][NextCache]_cacheVars

-----------------------------------------------------------------------------
(* Properties.                                                             *)

Full(i) == ~IsEmpty(cells, i)
Entries == {[pos |-> cells.pos[i], seqs |-> cells.seq[i], tok |-> data[i].tok] :
              i \in {j \in Cell : Full(j)}}

\* Tokens lost in a step, and whether a decode that goes on at p could do without.
Lost == Entries \ Entries'
OutOfWindow(e, p) == Cardinality(e.seqs) = 1 /\ IsMaskedSwa(e.pos, p)

\* Types of the cache; a decode in progress has a slot for every ubatch left.
CacheTypeOK ==
    /\ CellsTypeOK /\ head \in 0 .. NCells
    /\ data \in [Cell -> [tok : Tokens \union {Junk.tok}, rope : Int]]
    /\ Len(ctx.ubs) = Len(ctx.heads)
    /\ ret.code \in {0, 1, -1, -3} /\ ret.n \in 0 .. NBatch

\* The key of every token in the cache has been, or will be by the shift that
\* is pending for its cell, rotated to the position of the cell: whatever was
\* removed, copied, shifted, moved by a defragmentation or tried in vain by
\* prepare, K-shift and decode.  It is stated for users who do not divide: the
\* shift that pos_div records has the wrong sign.
KeysRotated == \A i \in Cell : Full(i) => data[i].rope + cells.shift[i] = cells.pos[i]

\* find_slot, which starts at head, jumps back and counts what it has tested,
\* finds a slot if and only if there is one.
FindsASlot ==
    \A n \in 1 .. NUbatch :
      LET slots == {h \in 0 .. NCells - n : \A i \in 0 .. n - 1 : CanUse(cells, h + i)}
      IN IF slots = {} THEN FindSlot(Cache, n) = -1 ELSE FindSlot(Cache, n) \in slots

\* "Could not find a KV slot" (llama_decode returns 1) is said of a batch of
\* one ubatch only when the cache has too few free cells: however they are
\* scattered, the defragmentation before the second attempt brings them
\* together, unless it had to wait for a shift that failed.
SlotIfItFits ==
    ret.code = 1 /\ ret.n <= NUbatch /\ ~cells.has_shift
      => Cardinality(cells.used) + ret.n > NCells

\* A decode that returns an error leaves the tokens in the cache as they were,
\* but for the ubatches that were computed before (llama.h: "the memory state
\* is restored to the state before this call"): neither prepare, which stores
\* the whole batch and takes it out again, nor the removal of a ubatch that
\* failed loses or leaves a token.  So the code has it where each token is of one
\* sequence and the positions of a batch ascend: of a failed ubatch it looks at
\* the first sequence of each token only, and removes all that is behind the
\* ubatch's first position.
FailureIsClean == [][ret'.code # 0 => Entries' = Entries]_cacheVars

\* The positions of a sequence are consecutive: none between the first and the
\* last one is missing, although the window lets single cells be overwritten
\* and a ubatch that fails is removed.  (Stated for batches of one ubatch: a
\* decode of several that has no slot for a later one, or fails in an earlier
\* one, has put back what they overwrote on trial, not what was purged with it,
\* and leaves holes.)
Consecutive ==
    ctx = Idle =>
    \A s \in Seqs : \A p \in Pos :
      SeqPosMin(cells, s) <= p /\ p <= SeqPosMax(cells, s) => p \in Present(cells, s)

\* A position that a sequence loses while a decode is in progress, because it
\* is overwritten or purged, is out of the window of the sequence's next token,
\* and so of every later one; a ubatch that fails takes none with it that was
\* there before.  (Stated for batches of one ubatch, as Consecutive.)
OnlyMaskedLost ==
    [][ctx # Idle =>
         \A s \in Seqs : \A p \in Present(cells, s) \ Present(cells', s) :
           IsMaskedSwa(p, SeqPosMax(cells, s) + 1)]_cacheVars

\* "restore the cells to their original state" (prepare): a decode that has found
\* its slots and computed nothing has lost no token that its first one attends to.
TrialRestored ==
    [][ctx = Idle /\ ctx' # Idle =>
         \A e \in Lost : OutOfWindow(e, Head(ctx'.ubs)[1].pos)]_cacheVars

Store == INSTANCE KVStore WITH entries <- Entries

\* To its user the cache is the set of tokens KVStore describes: each call has
\* the effect the header gives it, and a step that moves, shifts or fails none.
IsStore == Store!Spec
=============================================================================
