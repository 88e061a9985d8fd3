---------------------------- MODULE KVCacheProofs ----------------------------
(***************************************************************************)
(* The KV cache under the user's operations and llama_decode, for any      *)
(* number of cells, sequences, positions and tokens: the invariants of     *)
(* SpecCache, the cache as an implementation of KVStore, and what a        *)
(* sliding window takes from a sequence.                                   *)
(***************************************************************************)
EXTENDS KVCacheLemmas

-----------------------------------------------------------------------------
(* The user's operations.                                                  *)

\* What the induction needs of a step from M to N.
Steps(M, N) == Sound(N) /\ (Rotated(M) => Rotated(N))

\* The rows of the empty cells are forgotten.
Forgets(M) == [c |-> M.c, h |-> M.h, d |-> [i \in Cell |-> IF IsEmpty(M.c, i) THEN Junk ELSE M.d[i]]]

LEMMA ForgetsDone ==
  ASSUME NEW M, Sound(M)
  PROVE  Steps(M, Forgets(M)) /\ Forgets(M).c = M.c /\ Forgets(M).h = M.h
<1> DEFINE d == [i \in Cell |-> IF IsEmpty(M.c, i) THEN Junk ELSE M.d[i]]
<1>1. M.d \in [Cell -> Row] /\ Good(M.c) /\ M.h \in 0 .. NCells
  BY SoundWith
<1>2. Junk \in Row
  BY DEF Junk, Row
<1>3. d \in [Cell -> Row] /\ \A i \in Cell : ~IsEmpty(M.c, i) => d[i] = M.d[i]
  BY <1>1, <1>2
<1>4. Forgets(M) = [c |-> M.c, h |-> M.h, d |-> d]
  BY DEF Forgets
<1> HIDE DEF d
<1>5. Sound([c |-> M.c, h |-> M.h, d |-> d])
  BY <1>1, <1>3, SoundIs
<1>6. Rotated(M) => Rotated([c |-> M.c, h |-> M.h, d |-> d])
  BY <1>3 DEF Rotated
<1> QED
  BY <1>4, <1>5, <1>6 DEF Steps

LEMMA BecomesDone ==
  ASSUME NEW M, Becomes(M)
  PROVE  Cache' = Forgets(M)
  BY DEF Becomes, Cache, Forgets

\* The end of a handler: what it has made of the cache.
LEMMA Ends ==
  ASSUME NEW M, Sound(M), Becomes(M)
  PROVE  Sound(Cache') /\ (Rotated(M) => Rotated(Cache'))
  BY ForgetsDone, BecomesDone DEF Steps

LEMMA CacheIs ==
  /\ Cache = [c |-> cells, h |-> head, d |-> data]
  /\ Cache.c = cells /\ Cache.h = head /\ Cache.d = data
  BY DEF Cache

LEMMA ClearDone ==
  ASSUME NEW M, Sound(M)
  PROVE  Steps(M, [M EXCEPT !.c = NoCells, !.h = 0])
<1> DEFINE N == [M EXCEPT !.c = NoCells, !.h = 0]
<1>0. \A C, h : [M EXCEPT !.c = C, !.h = h] = [c |-> C, h |-> h, d |-> M.d]
  BY SoundWith
<1>1. N = [c |-> NoCells, h |-> 0, d |-> M.d]
  BY <1>0
<1>2. Good(NoCells) /\ M.d \in [Cell -> Row] /\ 0 \in 0 .. NCells
  <2>1. M.d \in [Cell -> Row]
    BY SoundWith
  <2>2. 0 \in 0 .. NCells
    BY PosTyped
  <2> QED
    BY <2>1, <2>2, NoCellsGood
<1> HIDE DEF N
<1>3. Sound([c |-> NoCells, h |-> 0, d |-> M.d])
  BY <1>2, SoundIs
<1>4. \A i \in Cell : IsEmpty(N.c, i)
  BY <1>1 DEF IsEmpty, NoCells
<1>5. Rotated(N)
  BY <1>4 DEF Rotated
<1> QED
  BY <1>1, <1>3, <1>5 DEF Steps, N

LEMMA RmSteps ==
  ASSUME NEW M, Sound(M), NEW s \in Seqs \union {-1}, NEW p0 \in Int, NEW p1
  PROVE  Steps(M, SeqRm(M, s, p0, p1))
<1>1. s \in Seqs \/ (s = -1 /\ p0 \in Int)
  OBVIOUS
<1> DEFINE N == SeqRm(M, s, p0, p1)
<1>2. Sound(N) /\ N.d = M.d /\ \A i \in Cell : Less(M.c, N.c, i)
  BY <1>1, SeqRmLess
<1> HIDE DEF N
<1>3. Rotated(M) => Rotated(N)
  BY <1>2, RotatedLess
<1> QED
  BY <1>2, <1>3 DEF Steps, N

\* An operation that changes no position that it leaves, and no shift.
LEMMA RotatedStays ==
  ASSUME NEW M, NEW N, Rotated(M), N.d = M.d,
         \A i \in Cell : ~IsEmpty(N.c, i) => N.c.pos[i] = M.c.pos[i] /\ N.c.shift[i] = M.c.shift[i]
  PROVE  Rotated(N)
  BY DEF Rotated, IsEmpty

LEMMA KeepSteps ==
  ASSUME NEW M, Sound(M), NEW s \in Seqs
  PROVE  Steps(M, SeqKeep(M, s))
<1> DEFINE N == SeqKeep(M, s)
<1>1. Sound(N) /\ N.d = M.d /\ Holds(N.c, AfterKeep(M.c, s))
  BY SeqKeepDone
<1> HIDE DEF N
<1>2. ASSUME NEW i \in Cell, ~IsEmpty(N.c, i)
      PROVE  N.c.pos[i] = M.c.pos[i] /\ N.c.shift[i] = M.c.shift[i]
  <2>1. At(N.c, i) \in {[pos |-> M.c.pos[i], seq |-> {s}, shift |-> M.c.shift[i]], Gone, At(M.c, i)}
    BY <1>1 DEF Holds, AfterKeep
  <2> QED
    BY <1>2, <2>1 DEF At, Gone, IsEmpty
<1>3. Rotated(M) => Rotated(N)
  BY <1>1, <1>2, RotatedStays
<1> QED
  BY <1>1, <1>3 DEF Steps, N

LEMMA CpSteps ==
  ASSUME NEW M, Sound(M), NEW s \in Seqs, NEW d \in Seqs, NEW p0, NEW p1,
         \A i \in Cell : Belongs(M.c, i, s, p0, p1) => d \notin M.c.seq[i]
  PROVE  Steps(M, SeqCp(M, s, d, p0, p1))
<1> DEFINE N == SeqCp(M, s, d, p0, p1)
<1>1. Sound(N) /\ N.d = M.d /\ Holds(N.c, AfterCp(M.c, s, d, p0, p1))
  BY SeqCpDone
<1> HIDE DEF N
<1>2. ASSUME NEW i \in Cell
      PROVE  N.c.pos[i] = M.c.pos[i] /\ N.c.shift[i] = M.c.shift[i]
  <2>1. At(N.c, i) \in {[pos |-> M.c.pos[i], seq |-> M.c.seq[i] \union {d}, shift |-> M.c.shift[i]], At(M.c, i)}
    BY <1>1 DEF Holds, AfterCp
  <2> QED
    BY <1>2, <2>1 DEF At
<1>3. Rotated(M) => Rotated(N)
  BY <1>1, <1>2, RotatedStays
<1> QED
  BY <1>1, <1>3 DEF Steps, N

\* The position and the shift of a cell change together.
LEMMA AddSteps ==
  ASSUME NEW M, Sound(M), NEW s \in Seqs, NEW p0, NEW p1, NEW d \in Int,
         \A i \in Cell : Belongs(M.c, i, s, p0, p1) => M.c.pos[i] + d <= MaxPos
  PROVE  Steps(M, SeqAdd(M, s, p0, p1, d))
<1> DEFINE N == SeqAdd(M, s, p0, p1, d)
<1>1. Sound(N) /\ N.d = M.d /\ Holds(N.c, AfterAdd(M.c, s, p0, p1, d))
  BY SeqAddDone
<1> HIDE DEF N
<1>2. ASSUME Rotated(M), NEW i \in Cell, ~IsEmpty(N.c, i)
      PROVE  N.d[i].rope + N.c.shift[i] = N.c.pos[i]
  <2>0. M.d[i].rope \in Int /\ M.c.shift[i] \in Int /\ M.c.pos[i] \in Int
    <3>1. M.d \in [Cell -> Row] /\ Good(M.c)
      BY SoundWith
    <3> QED
      BY <3>1, GoodTyped DEF Row
  <2>1. At(N.c, i) = IF Belongs(M.c, i, s, p0, p1)
                     THEN IF M.c.pos[i] + d < 0 THEN Gone
                          ELSE [pos |-> M.c.pos[i] + d, seq |-> M.c.seq[i], shift |-> M.c.shift[i] + d]
                     ELSE At(M.c, i)
    BY <1>1 DEF Holds, AfterAdd
  <2>2. CASE Belongs(M.c, i, s, p0, p1)
    <3>1. At(N.c, i) # Gone
      BY <1>2 DEF At, Gone, IsEmpty
    <3>2. N.c.pos[i] = M.c.pos[i] + d /\ N.c.shift[i] = M.c.shift[i] + d
      BY <2>1, <2>2, <3>1 DEF At
    <3>3. ~IsEmpty(M.c, i)
      BY <2>2, RangeFull DEF Sound
    <3>4. M.d[i].rope + M.c.shift[i] = M.c.pos[i]
      BY <1>2, <3>3 DEF Rotated
    <3> QED
      BY <1>1, <2>0, <3>2, <3>4
  <2>3. CASE ~Belongs(M.c, i, s, p0, p1)
    BY <1>1, <1>2, <2>1, <2>3 DEF At, Rotated, IsEmpty
  <2> QED
    BY <2>2, <2>3
<1>3. Rotated(M) => Rotated(N)
  BY <1>2 DEF Rotated
<1> QED
  BY <1>1, <1>3 DEF Steps, N

\* One step of the user.
LEMMA UserSteps ==
  ASSUME Sound(Cache), UserNext
  PROVE  /\ Sound(Cache')
         /\ (Rotated(Cache) /\ "div" \notin UserOps /\ "defrag" \notin MayFail) => Rotated(Cache')
         /\ UNCHANGED <<ctx, ret>>
<1>0. /\ \A r \in Ranges : r[1] \in Int /\ r[2] \in Int
      /\ \A d \in Shifts : d \in Int
  BY CacheAssumption
<1>1. CASE Clear
  <2>1. Steps(Cache, [Cache EXCEPT !.c = NoCells, !.h = 0])
    BY ClearDone
  <2> QED
    BY <1>1, <2>1, Ends DEF Clear, User, Steps
<1>2. CASE DefragNow
  <2>1. PICK u \in Update(Cache, TRUE) : u.did /\ Becomes(u.m)
    BY <1>2 DEF DefragNow
  <2>2. Sound(u.m) /\ (("defrag" \notin MayFail /\ Rotated(Cache)) => Rotated(u.m))
    BY UpdateDone
  <2> QED
    BY <1>2, <2>1, <2>2, Ends DEF DefragNow, User
<1>3. CASE \E s \in Seqs : Keep(s)
  <2>1. PICK s \in Seqs : Keep(s)
    BY <1>3
  <2>2. Steps(Cache, SeqKeep(Cache, s))
    BY KeepSteps
  <2> QED
    BY <2>1, <2>2, Ends DEF Keep, User, Steps
<1>4. ASSUME NEW r \in Ranges, NEW s \in Seqs \union {-1}, RemoveTokens(s, r[1], r[2])
      PROVE  /\ Sound(Cache') /\ (Rotated(Cache) => Rotated(Cache')) /\ UNCHANGED <<ctx, ret>>
  <2>2. Steps(Cache, SeqRm(Cache, s, r[1], r[2]))
    BY <1>0, RmSteps
  <2> QED
    BY <1>4, <2>2, Ends DEF RemoveTokens, User, Steps
<1>5. ASSUME NEW r \in Ranges, NEW s \in Seqs, NEW d \in Seqs, Copy(s, d, r[1], r[2])
      PROVE  /\ Sound(Cache') /\ (Rotated(Cache) => Rotated(Cache')) /\ UNCHANGED <<ctx, ret>>
  <2>1. \A i \in Cell : Belongs(Cache.c, i, s, r[1], r[2]) => d \notin Cache.c.seq[i]
    BY <1>5, CacheIs DEF Copy
  <2>2. Steps(Cache, SeqCp(Cache, s, d, r[1], r[2]))
    BY <2>1, CpSteps
  <2> QED
    BY <1>5, <2>2, Ends DEF Copy, User, Steps
<1>6. ASSUME NEW r \in Ranges, NEW s \in Seqs, NEW d \in Shifts, Add(s, r[1], r[2], d)
      PROVE  /\ Sound(Cache') /\ (Rotated(Cache) => Rotated(Cache')) /\ UNCHANGED <<ctx, ret>>
  <2>1. \A i \in Cell : Belongs(Cache.c, i, s, r[1], r[2]) => Cache.c.pos[i] + d <= MaxPos
    BY <1>6, CacheIs DEF Add
  <2>2. Steps(Cache, SeqAdd(Cache, s, r[1], r[2], d))
    BY <1>0, <2>1, AddSteps
  <2> QED
    BY <1>6, <2>2, Ends DEF Add, User, Steps
<1>7. ASSUME NEW r \in Ranges, NEW s \in Seqs, Div(s, r[1], r[2], 2)
      PROVE  /\ Sound(Cache') /\ "div" \in UserOps /\ UNCHANGED <<ctx, ret>>
  <2>1. Sound(SeqDiv(Cache, s, r[1], r[2], 2))
    BY SeqDivDone
  <2> QED
    BY <1>7, <2>1, Ends DEF Div, User
<1> QED
  BY <1>1, <1>2, <1>3, <1>4, <1>5, <1>6, <1>7 DEF UserNext
-----------------------------------------------------------------------------
(* Decodes, and the invariant of the cache.                                *)

OneSeq == \A w \in Words : Len(w.seqs) = 1

\* A decode in progress has a slot for each of its ubatches.
Pending(c) ==
    /\ c \in [ubs : Seq(Ubatches), heads : Seq(0 .. NCells)]
    /\ SlotsFor(c.ubs, c.heads)
    /\ OneSeq => \A k \in 1 .. Len(c.ubs) : Single(c.ubs[k])

Results == [code : {0, 1, -1, -3}, n : 0 .. NBatch]

\* The users and the failures for which keys stay where they should be.  A
\* division records its shift with the wrong sign, a defragmentation that fails
\* leaves the data of other cells, a token of two sequences that failed stays
\* in the second one, and cells that prepare restores lose a pending shift.
Rotating ==
    /\ "div" \notin UserOps /\ "defrag" \notin MayFail
    /\ SwaType = "none" \/ "shift" \notin MayFail
    /\ "ubatch" \notin MayFail \/ OneSeq

CacheInv ==
    /\ Sound(Cache) /\ Pending(ctx) /\ ret \in Results
    /\ Rotating => Rotated(Cache)

LEMMA PendingIdle == Pending(Idle)
<1>1. Idle.ubs = <<>> /\ Idle.heads = <<>> /\ Idle \in [ubs : Seq(Ubatches), heads : Seq(0 .. NCells)]
  BY DEF Idle
<1>2. <<>> \in Seq(0 .. NCells) /\ Len(<<>>) = 0 /\ 1 .. 0 = {}
  OBVIOUS
<1> QED
  BY <1>1, <1>2 DEF Pending, SlotsFor

\* The next ubatch of a decode and its slot, and the others.
LEMMA RestIs ==
  ASSUME NEW c, Pending(c), c # Idle
  PROVE  LET u == c.ubs
             g == c.heads IN
         /\ Len(u) \in Nat /\ 1 \in 1 .. Len(u)
         /\ Head(u) = u[1] /\ Head(g) = g[1] /\ u[1] \in Ubatches /\ g[1] \in 0 .. NCells
         /\ Tail(u) \in Seq(Ubatches) /\ Tail(g) \in Seq(0 .. NCells)
         /\ Len(Tail(u)) = Len(u) - 1 /\ Len(Tail(g)) = Len(u) - 1
         /\ \A k \in 1 .. Len(u) - 1 :
              Tail(u)[k] = u[k + 1] /\ Tail(g)[k] = g[k + 1] /\ k + 1 \in 1 .. Len(u)
<1> DEFINE u == c.ubs
           g == c.heads
<1>1. u \in Seq(Ubatches) /\ g \in Seq(0 .. NCells) /\ c = [ubs |-> u, heads |-> g]
  BY DEF Pending
<1>2. Len(g) = Len(u)
  BY DEF Pending, SlotsFor
<1>3. u # <<>>
  <2>1. SUFFICES ASSUME u = <<>> PROVE FALSE
    OBVIOUS
  <2>2. g = <<>>
    BY <1>1, <1>2, <2>1
  <2> QED
    BY <1>1, <2>1, <2>2 DEF Idle
<1> HIDE DEF u, g
<1>4. /\ Head(u) = u[1] /\ Head(g) = g[1] /\ 1 \in 1 .. Len(u) /\ u[1] \in Ubatches /\ g[1] \in 0 .. NCells
  <2>1. Len(u) \in Nat /\ Len(u) >= 1 /\ Len(g) = Len(u)
    BY <1>1, <1>2, <1>3
  <2>2. 1 \in 1 .. Len(u) /\ 1 \in 1 .. Len(g)
    BY <2>1
  <2>3. Head(u) = u[1] /\ Head(g) = g[1]
    OBVIOUS
  <2>4. u[1] \in Ubatches
    BY <1>1, <2>2
  <2>5. g[1] \in 0 .. NCells
    <3> DEFINE H == 0 .. NCells
    <3>1. g \in Seq(H)
      BY <1>1
    <3> HIDE DEF H
    <3>2. g[1] \in H
      BY <2>2, <3>1
    <3> QED
      BY <3>2 DEF H
  <2> QED
    BY <2>2, <2>3, <2>4, <2>5
<1>5. /\ Tail(u) \in Seq(Ubatches) /\ Tail(g) \in Seq(0 .. NCells)
      /\ Len(Tail(u)) = Len(u) - 1 /\ Len(Tail(g)) = Len(u) - 1
      /\ \A k \in 1 .. Len(u) - 1 : Tail(u)[k] = u[k + 1] /\ Tail(g)[k] = g[k + 1] /\ k + 1 \in 1 .. Len(u)
  BY <1>1, <1>2, <1>3
<1>6. Len(u) \in Nat
  BY <1>1
<1> QED
  BY <1>4, <1>5, <1>6 DEF u, g

LEMMA PendingRest ==
  ASSUME NEW c, Pending(c), c # Idle
  PROVE  LET ub == Head(c.ubs)
             h == Head(c.heads) IN
         /\ ub \in Ubatches /\ h \in 0 .. NCells /\ h + Len(ub) <= NCells
         /\ OneSeq => Single(ub)
         /\ Pending([ubs |-> Tail(c.ubs), heads |-> Tail(c.heads)])
<1> DEFINE u == c.ubs
           g == c.heads
<1>1. /\ Len(u) \in Nat /\ 1 \in 1 .. Len(u)
      /\ Head(u) = u[1] /\ Head(g) = g[1] /\ u[1] \in Ubatches /\ g[1] \in 0 .. NCells
      /\ Tail(u) \in Seq(Ubatches) /\ Tail(g) \in Seq(0 .. NCells)
      /\ Len(Tail(u)) = Len(u) - 1 /\ Len(Tail(g)) = Len(u) - 1
      /\ \A k \in 1 .. Len(u) - 1 :
           Tail(u)[k] = u[k + 1] /\ Tail(g)[k] = g[k + 1] /\ k + 1 \in 1 .. Len(u)
  BY RestIs
<1>2. /\ \A k \in 1 .. Len(u) : g[k] + Len(u[k]) <= NCells
      /\ OneSeq => \A k \in 1 .. Len(u) : Single(u[k])
  BY DEF Pending, SlotsFor
<1> HIDE DEF u, g
<1>3. Pending([ubs |-> Tail(u), heads |-> Tail(g)])
  BY <1>1, <1>2 DEF Pending, SlotsFor
<1> QED
  BY <1>1, <1>2, <1>3 DEF u, g

LEMMA UpdateKeeps ==
  ASSUME NEW M, Sound(M), NEW optimize \in BOOLEAN, NEW u \in Update(M, optimize)
  PROVE  /\ Sound(u.m)
         /\ (Rotating /\ Rotated(M)) => Rotated(u.m) /\ (SwaType = "none" \/ Unshifted(u.m))
<1>1. /\ Sound(u.m) /\ ("defrag" \notin MayFail /\ Rotated(M) => Rotated(u.m))
      /\ "shift" \notin MayFail => Unshifted(u.m)
  BY UpdateDone
<1> QED
  BY <1>1 DEF Rotating

LEMMA InitBatchKeeps ==
  ASSUME NEW M, Sound(M), NEW ubs, UbatchesOK(ubs)
  PROVE  LET r == InitBatch(M, ubs) IN
         /\ Sound(r.m)
         /\ (Rotated(M) /\ (SwaType = "none" \/ Unshifted(M))) => Rotated(r.m)
         /\ r.heads # <<>> => SlotsFor(ubs, r.heads)
<1> DEFINE r == InitBatch(M, ubs)
<1>1. LeftOf(M, r.m) /\ (r.heads # <<>> => SlotsFor(ubs, r.heads))
  BY InitBatchDone
<1> HIDE DEF r
<1>2. Sound(r.m)
  BY <1>1 DEF LeftOf
<1>3. (Rotated(M) /\ (SwaType = "none" \/ Unshifted(M))) => Rotated(r.m)
  BY <1>1, RotatedLeft
<1> QED
  BY <1>1, <1>2, <1>3 DEF r

\* The batches of a decode, and their ubatches.
LEMMA BatchSplit ==
  ASSUME NEW input \in Inputs, NEW batch \in Batches(cells, input),
         \A i \in DOMAIN batch : batch[i].pos <= MaxPos
  PROVE  LET ubs == SplitSimple(batch) IN
         /\ Len(batch) \in 0 .. NBatch
         /\ ubs \in Seq(Ubatches) /\ UbatchesOK(ubs)
         /\ OneSeq => Ordered(ubs) /\ \A k \in 1 .. Len(ubs) : Single(ubs[k])
         /\ \A j \in 1 .. Len(ubs) : \A k \in 1 .. Len(ubs[j]) :
              \E i \in DOMAIN batch : ubs[j][k] = batch[i]
<1> DEFINE ubs == SplitSimple(batch)
<1>1. /\ BatchTyped(batch) /\ Len(batch) = Len(input) /\ DOMAIN input = 1 .. Len(input)
      /\ \A k \in 1 .. Len(batch) : batch[k].seqs = input[k].seqs
      /\ Single(input) => Ascending(batch)
      /\ DOMAIN batch = 1 .. Len(batch)
  BY BatchesTyped
<1>2. /\ ubs \in Seq(Ubatches) /\ UbatchesOK(ubs)
      /\ \A j \in 1 .. Len(ubs) : \A k \in 1 .. Len(ubs[j]) :
           \E i \in 1 .. Len(batch) : ubs[j][k] = batch[i]
      /\ Ascending(batch) => Ordered(ubs)
  BY <1>1, SplitTyped, SplitOrdered
<1> HIDE DEF ubs
<1>3. PICK n \in 1 .. NBatch : input \in [1 .. n -> Words]
  BY DEF Inputs
<1>4. NBatch \in Nat
  BY CacheAssumption
<1>5. Len(input) = n /\ \A k \in 1 .. n : input[k] \in Words
  BY <1>3, <1>4
<1>6. ASSUME OneSeq PROVE Single(input)
  <2> SUFFICES ASSUME NEW k \in 1 .. Len(input)
               PROVE  Range(input[k].seqs) = {input[k].seqs[1]}
    BY DEF Single
  <2> DEFINE q == input[k].seqs
  <2>1. Len(q) = 1 /\ q \in Seq(Seqs)
    BY <1>5, <1>6, CacheAssumption DEF OneSeq
  <2> HIDE DEF q
  <2>2. DOMAIN q = {1}
    BY <2>1
  <2>3. Range(q) = {q[1]}
    BY <2>2 DEF Range
  <2> QED
    BY <2>3 DEF q
<1>7. ASSUME Single(input) PROVE \A j \in 1 .. Len(ubs) : Single(ubs[j])
  <2> SUFFICES ASSUME NEW j \in 1 .. Len(ubs), NEW k \in 1 .. Len(ubs[j])
               PROVE  Range(ubs[j][k].seqs) = {ubs[j][k].seqs[1]}
    BY DEF Single
  <2>1. PICK i \in 1 .. Len(batch) : ubs[j][k] = batch[i]
    BY <1>2
  <2>2. ubs[j][k].seqs = input[i].seqs
    BY <1>1, <2>1
  <2> QED
    BY <1>1, <1>7, <2>2 DEF Single
<1> QED
  <2>1. Len(batch) \in 0 .. NBatch
    BY <1>1, <1>4, <1>5
  <2>2. OneSeq => Ordered(ubs) /\ \A k \in 1 .. Len(ubs) : Single(ubs[k])
    BY <1>1, <1>2, <1>6, <1>7
  <2>3. \A j \in 1 .. Len(ubs) : \A k \in 1 .. Len(ubs[j]) :
          \E i \in DOMAIN batch : ubs[j][k] = batch[i]
    BY <1>1, <1>2
  <2> QED
    BY <1>2, <2>1, <2>2, <2>3 DEF ubs

\* An invariant of every step that leaves the cache as M and a decode as c.
LEMMA Established ==
  ASSUME NEW M, Sound(M), (Rotating /\ Rotated(Cache)) => Rotated(M), CacheInv, Becomes(M),
         Pending(ctx'), ret' \in Results
  PROVE  CacheInv'
<1>1. Sound(Cache') /\ (Rotated(M) => Rotated(Cache'))
  BY Ends
<1>2. Rotating => Rotated(Cache')
  BY <1>1 DEF CacheInv
<1> QED
  BY <1>1, <1>2 DEF CacheInv, Results

LEMMA ReturnsDone ==
  ASSUME NEW code \in {0, 1, -1, -3}, NEW batch, Len(batch) \in 0 .. NBatch, Returns(code, batch)
  PROVE  Pending(ctx') /\ ret' \in Results
<1>1. ctx' = Idle /\ ret' = [code |-> code, n |-> Len(batch)]
  BY DEF Returns
<1>2. Pending(ctx')
  BY <1>1, PendingIdle
<1> QED
  BY <1>1, <1>2 DEF Results

LEMMA FoundDone ==
  ASSUME NEW M, NEW ubs \in Seq(Ubatches), NEW heads, Found(M, ubs, heads), SlotsFor(ubs, heads),
         OneSeq => \A k \in 1 .. Len(ubs) : Single(ubs[k])
  PROVE  Becomes(M) /\ Pending(ctx') /\ ret' \in Results
<1> DEFINE c == [ubs |-> ubs, heads |-> heads]
<1>1. Becomes(M) /\ ctx' = c /\ ret' = NoResult
  BY DEF Found
<1>2. heads \in Seq(0 .. NCells) /\ c.ubs = ubs /\ c.heads = heads
  BY DEF SlotsFor
<1>3. Pending(c)
  BY <1>2 DEF Pending
<1>4. NoResult \in Results
  BY CacheAssumption DEF NoResult, Results
<1> QED
  BY <1>1, <1>3, <1>4

\* What is prepared for a batch, whatever is updated and tried on the way: A is
\* an invariant of it as long as no slots are found, and B holds after each update.
LEMMA PreparedBy ==
  ASSUME NEW batch, DecodePrepared(batch), NEW ubs, ubs = SplitSimple(batch),
         NEW A, NEW B \in SUBSET A, Cache \in A,
         \A M \in A, o \in BOOLEAN : \A u \in Update(M, o) : u.m \in B,
         \A M \in B : InitBatch(M, ubs).heads = <<>> => InitBatch(M, ubs).m \in A
  PROVE  \/ \E M \in A : Becomes(M) /\ Returns(1, batch)
         \/ \E K \in B : LET r == InitBatch(K, ubs) IN
              r.heads # <<>> /\ Found(r.m, ubs, r.heads)
<1> DEFINE Ready1(K) == LET r == InitBatch(K, ubs) IN r.heads # <<>> /\ Found(r.m, ubs, r.heads)
           Retried(v) == \E second \in {InitBatch(v.m, ubs)} :
                           \/ second.heads # <<>> /\ Found(second.m, ubs, second.heads)
                           \/ second.heads = <<>> /\ Becomes(second.m) /\ Returns(1, batch)
           Once(first) ==
             \/ first.heads # <<>> /\ Found(first.m, ubs, first.heads)
             \/ /\ first.heads = <<>>
                /\ \E v \in Update(first.m, TRUE) :
                     \/ ~v.did /\ Becomes(v.m) /\ Returns(1, batch)
                     \/ v.did /\ Retried(v)
           asked == "defrag" \in UserOps
<1>1. PICK due \in {FALSE, asked} :
        \E u \in Update(Cache, due) : \E first \in {InitBatch(u.m, ubs)} : Once(first)
  BY DEF DecodePrepared
<1>2. due \in BOOLEAN
  <2>1. asked \in BOOLEAN
    OBVIOUS
  <2> HIDE DEF asked
  <2> QED
    BY <2>1
<1> HIDE DEF Once
<1>3. PICK u \in Update(Cache, due) : \E first \in {InitBatch(u.m, ubs)} : Once(first)
  BY <1>1
<1>4. Once(InitBatch(u.m, ubs))
  BY <1>3
<1> DEFINE first == InitBatch(u.m, ubs)
<1>5. u.m \in B /\ (first.heads = <<>> => first.m \in A)
  BY <1>2
<1>6. CASE first.heads # <<>> /\ Found(first.m, ubs, first.heads)
  <2>1. Ready1(u.m)
    BY <1>6
  <2> HIDE DEF Ready1
  <2>2. \E K \in B : Ready1(K)
    BY <1>5, <2>1
  <2> QED
    BY <2>2 DEF Ready1
<1> HIDE DEF first
<1>7. ASSUME first.heads = <<>>, NEW v \in Update(first.m, TRUE), Becomes(v.m), Returns(1, batch)
      PROVE  \E M \in A : Becomes(M) /\ Returns(1, batch)
  <2>1. v.m \in A
    BY <1>5, <1>7
  <2> QED
    BY <1>7, <2>1
<1>8. ASSUME first.heads = <<>>, NEW v \in Update(first.m, TRUE), Retried(v)
      PROVE  \/ \E M \in A : Becomes(M) /\ Returns(1, batch)
             \/ \E K \in B : Ready1(K)
  <2> DEFINE second == InitBatch(v.m, ubs)
  <2>1. v.m \in B
    BY <1>5, <1>8
  <2>s. second.heads = <<>> => second.m \in A
    BY <2>1
  <2>2. \/ second.heads # <<>> /\ Found(second.m, ubs, second.heads)
        \/ second.heads = <<>> /\ Becomes(second.m) /\ Returns(1, batch)
    BY <1>8
  <2>3. CASE second.heads # <<>> /\ Found(second.m, ubs, second.heads)
    <3>1. Ready1(v.m)
      BY <2>3
    <3> HIDE DEF Ready1
    <3> QED
      BY <2>1, <3>1
  <2>4. CASE second.heads = <<>> /\ Becomes(second.m) /\ Returns(1, batch)
    <3> HIDE DEF second
    <3> QED
      BY <2>s, <2>4
  <2> QED
    BY <2>2, <2>3, <2>4
<1>9. \/ first.heads # <<>> /\ Found(first.m, ubs, first.heads)
      \/ /\ first.heads = <<>>
         /\ \E v \in Update(first.m, TRUE) :
              (Becomes(v.m) /\ Returns(1, batch)) \/ Retried(v)
  BY <1>4 DEF Once, first
<1> HIDE DEF Retried
<1> QED
  BY <1>6, <1>7, <1>8, <1>9

\* The same for an invariant that holds when slots are found, too.
LEMMA PreparedIs ==
  ASSUME NEW batch, DecodePrepared(batch), NEW ubs, ubs = SplitSimple(batch),
         NEW A, NEW B \in SUBSET A, Cache \in A,
         \A M \in A, o \in BOOLEAN : \A u \in Update(M, o) : u.m \in B,
         \A M \in B : InitBatch(M, ubs).m \in A
  PROVE  \E M \in A : \/ Becomes(M) /\ Returns(1, batch)
                      \/ \E K \in B : LET r == InitBatch(K, ubs) IN
                           M = r.m /\ r.heads # <<>> /\ Found(r.m, ubs, r.heads)
<1>1. \A M \in B : InitBatch(M, ubs).heads = <<>> => InitBatch(M, ubs).m \in A
  OBVIOUS
<1>2. \/ \E M \in A : Becomes(M) /\ Returns(1, batch)
      \/ \E K \in B : LET r == InitBatch(K, ubs) IN
           r.heads # <<>> /\ Found(r.m, ubs, r.heads)
  BY <1>1, PreparedBy
<1> QED
  BY <1>2

LEMMA PreparedKeeps ==
  ASSUME CacheInv, NEW input \in Inputs, NEW batch \in Batches(cells, input),
         \A i \in DOMAIN batch : batch[i].pos <= MaxPos, DecodePrepared(batch)
  PROVE  CacheInv'
<1> DEFINE ubs == SplitSimple(batch)
           A == {M \in Caches : Sound(M) /\ (Rotating => Rotated(M))}
           B == {M \in A : Rotating => SwaType = "none" \/ Unshifted(M)}
<1>1. /\ Len(batch) \in 0 .. NBatch /\ ubs \in Seq(Ubatches) /\ UbatchesOK(ubs)
      /\ OneSeq => \A k \in 1 .. Len(ubs) : Single(ubs[k])
  BY BatchSplit
<1>u. ubs = SplitSimple(batch)
  OBVIOUS
<1>2. Sound(Cache) /\ (Rotating => Rotated(Cache))
  BY DEF CacheInv
<1> HIDE DEF ubs
<1>3. Cache \in A
  BY <1>2 DEF Sound
<1>4. ASSUME NEW M \in A, NEW o \in BOOLEAN, NEW u \in Update(M, o) PROVE u.m \in B
  <2>1. /\ Sound(u.m)
        /\ (Rotating /\ Rotated(M)) => Rotated(u.m) /\ (SwaType = "none" \/ Unshifted(u.m))
    BY UpdateKeeps
  <2> QED
    BY <2>1 DEF Sound
<1>5. ASSUME NEW M \in B
      PROVE  LET r == InitBatch(M, ubs) IN r.m \in A /\ (r.heads # <<>> => SlotsFor(ubs, r.heads))
  <2> DEFINE r == InitBatch(M, ubs)
  <2>1. /\ Sound(r.m) /\ (r.heads # <<>> => SlotsFor(ubs, r.heads))
        /\ (Rotated(M) /\ (SwaType = "none" \/ Unshifted(M))) => Rotated(r.m)
    BY <1>1, InitBatchKeeps
  <2> HIDE DEF r
  <2>2. r.m \in A
    BY <2>1 DEF Sound
  <2> QED
    BY <2>1, <2>2 DEF r
<1>6. B \in SUBSET A
  OBVIOUS
<1>7. ASSUME NEW M \in A, Becomes(M), Pending(ctx'), ret' \in Results PROVE CacheInv'
  BY <1>7, Established
<1> HIDE DEF A, B
<1>8. PICK M \in A : \/ Becomes(M) /\ Returns(1, batch)
                     \/ \E K \in B : LET r == InitBatch(K, ubs) IN
                          M = r.m /\ r.heads # <<>> /\ Found(r.m, ubs, r.heads)
  BY <1>3, <1>4, <1>5, <1>6, <1>u, PreparedIs
<1>9. CASE Becomes(M) /\ Returns(1, batch)
  BY <1>1, <1>7, <1>9, ReturnsDone
<1>10. ASSUME NEW K \in B, M = InitBatch(K, ubs).m, InitBatch(K, ubs).heads # <<>>,
              Found(M, ubs, InitBatch(K, ubs).heads)
       PROVE  CacheInv'
  <2> DEFINE g == InitBatch(K, ubs).heads
  <2>1. SlotsFor(ubs, g) /\ Found(M, ubs, g)
    BY <1>5, <1>10
  <2> HIDE DEF g
  <2>2. Becomes(M) /\ Pending(ctx') /\ ret' \in Results
    BY <1>1, <2>1, FoundDone
  <2> QED
    BY <1>7, <2>2
<1> QED
  BY <1>8, <1>9, <1>10

LEMMA DecodeKeeps ==
  ASSUME CacheInv, Decode
  PROVE  CacheInv'
<1>1. PICK input \in Inputs : \E batch \in Batches(cells, input) :
        /\ \A i \in DOMAIN batch : batch[i].pos <= MaxPos
        /\ DecodeRefused(batch) \/ DecodePrepared(batch)
  BY DEF Decode
<1>2. PICK batch \in Batches(cells, input) :
        /\ \A i \in DOMAIN batch : batch[i].pos <= MaxPos
        /\ DecodeRefused(batch) \/ DecodePrepared(batch)
  BY <1>1
<1>3. CASE DecodeRefused(batch)
  <2>1. Returns(-1, batch) /\ Cache' = Cache
    BY <1>3 DEF DecodeRefused, Cache
  <2>2. Pending(ctx') /\ ret' \in Results
    BY <1>2, <2>1, BatchSplit, ReturnsDone
  <2> QED
    BY <2>1, <2>2 DEF CacheInv, Results
<1> QED
  BY <1>2, <1>3, PreparedKeeps

LEMMA ComputeKeeps ==
  ASSUME CacheInv, Compute
  PROVE  CacheInv'
<1> DEFINE ub == Head(ctx.ubs)
           h == Head(ctx.heads)
           c == [ubs |-> Tail(ctx.ubs), heads |-> Tail(ctx.heads)]
           N == WithRows(Apply(Cache, h, ub), h, ub, Computed(h, ub))
<1>1. /\ ctx # Idle /\ ctx' = c /\ ret' = ret
      /\ Becomes([Apply(Cache, h, ub) EXCEPT !.d =
                    [i \in Cell |-> IF i \in h .. h + Len(ub) - 1
                                    THEN [tok |-> ub[i - h + 1].tok, rope |-> ub[i - h + 1].pos]
                                    ELSE Apply(Cache, h, ub).d[i]]])
  BY DEF Compute
<1>2. /\ ub \in Ubatches /\ h \in 0 .. NCells /\ h + Len(ub) <= NCells /\ Pending(c)
  BY <1>1, PendingRest DEF CacheInv
<1> HIDE DEF ub, h, c
<1>3. Becomes(N)
  <2>1. [i \in Cell |-> IF i \in h .. h + Len(ub) - 1
                        THEN [tok |-> ub[i - h + 1].tok, rope |-> ub[i - h + 1].pos]
                        ELSE Apply(Cache, h, ub).d[i]]
        = [i \in Cell |-> IF i \in h .. h + Len(ub) - 1 THEN Computed(h, ub)[i]
                          ELSE Apply(Cache, h, ub).d[i]]
    BY DEF Computed
  <2> QED
    BY <1>1, <2>1 DEF WithRows
<1>4. Sound(Cache) /\ ret \in Results /\ h \in Nat
  BY <1>2, PosTyped DEF CacheInv
<1>5. Sound(N) /\ (Rotated(Cache) => Rotated(N))
  BY <1>2, <1>4, ComputeDone
<1> HIDE DEF N
<1> QED
  BY <1>1, <1>2, <1>3, <1>4, <1>5, Established

LEMMA ComputeFailsKeeps ==
  ASSUME CacheInv, ComputeFails
  PROVE  CacheInv'
<1> DEFINE ub == Head(ctx.ubs)
           h == Head(ctx.heads)
           N == RemoveFailed(WithRows(Apply(Cache, h, ub), h, ub, [i \in Cell |-> Junk]), ub)
<1>1. /\ "ubatch" \in MayFail /\ ctx # Idle /\ Returns(-3, ub)
      /\ Becomes(RemoveFailed([Apply(Cache, h, ub) EXCEPT !.d =
                                 [i \in Cell |-> IF i \in h .. h + Len(ub) - 1 THEN Junk
                                                 ELSE Apply(Cache, h, ub).d[i]]], ub))
  BY DEF ComputeFails
<1>2. /\ ub \in Ubatches /\ h \in 0 .. NCells /\ h + Len(ub) <= NCells /\ (OneSeq => Single(ub))
  BY <1>1, PendingRest DEF CacheInv
<1> HIDE DEF ub, h
<1>3. Becomes(N)
  <2>1. [i \in Cell |-> IF i \in h .. h + Len(ub) - 1 THEN Junk ELSE Apply(Cache, h, ub).d[i]]
        = [i \in Cell |-> IF i \in h .. h + Len(ub) - 1 THEN [j \in Cell |-> Junk][i]
                          ELSE Apply(Cache, h, ub).d[i]]
    OBVIOUS
  <2> QED
    BY <1>1, <2>1 DEF WithRows
<1>4. Sound(Cache) /\ h \in Nat
  BY <1>2, PosTyped DEF CacheInv
<1>5. Sound(N) /\ (Rotated(Cache) /\ Single(ub) => Rotated(N))
  BY <1>2, <1>4, ComputeFailsDone
<1> HIDE DEF N
<1>6. Rotating => OneSeq
  BY <1>1 DEF Rotating
<1>7. Pending(ctx') /\ ret' \in Results
  <2>1. Len(ub) \in 0 .. NBatch
    BY <1>2, UbatchIs
  <2> QED
    BY <1>1, <2>1, ReturnsDone
<1> QED
  BY <1>2, <1>3, <1>5, <1>6, <1>7, Established

LEMMA CacheInvInit == InitCache => CacheInv
<1> SUFFICES ASSUME InitCache PROVE CacheInv
  OBVIOUS
<1>1. Cache = [c |-> NoCells, h |-> 0, d |-> [i \in Cell |-> Junk]]
  BY DEF InitCache, InitCells, Cache
<1>2. [i \in Cell |-> Junk] \in [Cell -> Row] /\ 0 \in 0 .. NCells
  BY PosTyped DEF Row, Junk
<1>3. Sound(Cache)
  BY <1>1, <1>2, NoCellsGood, SoundIs
<1>4. Rotated(Cache)
  <2>1. \A i \in Cell : IsEmpty(Cache.c, i)
    BY <1>1 DEF IsEmpty, NoCells
  <2> QED
    BY <2>1 DEF Rotated
<1>5. Pending(ctx) /\ ret \in Results
  BY PendingIdle, CacheAssumption DEF InitCache, NoResult, Results
<1> QED
  BY <1>3, <1>4, <1>5 DEF CacheInv

LEMMA CacheInvStep == CacheInv /\ [NextCache]_cacheVars => CacheInv'
<1> SUFFICES ASSUME CacheInv, [NextCache]_cacheVars PROVE CacheInv'
  OBVIOUS
<1>1. CASE UserNext
  <2>1. /\ Sound(Cache') /\ ctx' = ctx /\ ret' = ret
        /\ (Rotated(Cache) /\ "div" \notin UserOps /\ "defrag" \notin MayFail) => Rotated(Cache')
    BY <1>1, UserSteps DEF CacheInv
  <2> QED
    BY <2>1 DEF CacheInv, Rotating, Results
<1>2. CASE Decode
  BY <1>2, DecodeKeeps
<1>3. CASE ReadResult
  <2>1. Cache' = Cache /\ ctx' = ctx /\ ret' = NoResult
    BY <1>3 DEF ReadResult, Cache
  <2>2. NoResult \in Results
    BY CacheAssumption DEF NoResult, Results
  <2> QED
    BY <2>1, <2>2 DEF CacheInv, Results
<1>4. CASE Compute
  BY <1>4, ComputeKeeps
<1>5. CASE ComputeFails
  BY <1>5, ComputeFailsKeeps
<1>6. CASE UNCHANGED cacheVars
  <2>1. Cache' = Cache /\ ctx' = ctx /\ ret' = ret
    BY <1>6 DEF cacheVars, Cache
  <2> QED
    BY <2>1 DEF CacheInv, Results
<1> QED
  BY <1>1, <1>2, <1>3, <1>4, <1>5, <1>6 DEF NextCache

LEMMA CacheInvAlways == SpecCache => []CacheInv
  BY CacheInvInit, CacheInvStep, PTL DEF SpecCache

LEMMA InvImplies == CacheInv => CacheTypeOK /\ CellsOK
<1> SUFFICES ASSUME CacheInv PROVE CacheTypeOK /\ CellsOK
  OBVIOUS
<1>1. Good(cells) /\ head \in 0 .. NCells /\ data \in [Cell -> Row]
  BY SoundWith, CacheIs DEF CacheInv
<1>2. CellsTypeOK /\ CellsOK
  BY <1>1 DEF Good, CellsTypeOK, CellsOK
<1>3. Len(ctx.ubs) = Len(ctx.heads)
  BY DEF CacheInv, Pending, SlotsFor
<1>4. ret.code \in {0, 1, -1, -3} /\ ret.n \in 0 .. NBatch
  BY DEF CacheInv, Results
<1> QED
  BY <1>1, <1>2, <1>3, <1>4 DEF CacheTypeOK, Row

LEMMA InvRotated == CacheInv /\ Rotating => KeysRotated
<1> SUFFICES ASSUME CacheInv, Rotating PROVE KeysRotated
  OBVIOUS
<1>1. Rotated(Cache)
  BY DEF CacheInv
<1> QED
  BY <1>1, CacheIs DEF Rotated, KeysRotated, Full

SlotsOf(C, n) == {h \in 0 .. NCells - n : \A i \in 0 .. n - 1 : CanUse(C, h + i)}

LEMMA InSlots ==
  ASSUME NEW C, NEW n
  PROVE  \A h : h \in SlotsOf(C, n) <=> Slot(C, n, h)
  BY DEF SlotsOf, Slot

LEMMA InvFinds == CacheInv => FindsASlot
<1> SUFFICES ASSUME CacheInv, NEW n \in 1 .. NUbatch
             PROVE  IF SlotsOf(cells, n) = {} THEN FindSlot(Cache, n) = -1
                    ELSE FindSlot(Cache, n) \in SlotsOf(cells, n)
  BY DEF FindsASlot, SlotsOf
<1> DEFINE f == FindSlot(Cache, n)
<1>1. n \in Nat /\ NCells \in Nat
  BY CacheAssumption, PosTyped
<1>2. /\ (f = -1 /\ n <= NCells) => NoSlot(cells, n, 0 .. NCells - n)
      /\ f # -1 => n <= NCells /\ Slot(cells, n, f)
  BY <1>1, FindSlotDone, CacheIs DEF CacheInv
<1> HIDE DEF f
<1>3. CASE f = -1
  <2>1. \A h \in 0 .. NCells - n : ~Slot(cells, n, h)
    <3>1. CASE n <= NCells
      BY <1>2, <1>3, <3>1 DEF NoSlot
    <3>2. CASE n > NCells
      BY <1>1, <3>2
    <3> QED
      BY <1>1, <3>1, <3>2
  <2>2. \A h : ~Slot(cells, n, h)
    BY <2>1 DEF Slot
  <2>3. SlotsOf(cells, n) = {}
    BY <2>2, InSlots
  <2> QED
    BY <1>3, <2>3 DEF f
<1>4. CASE f # -1
  <2>1. f \in SlotsOf(cells, n)
    BY <1>2, <1>4, InSlots
  <2> QED
    BY <2>1 DEF f
<1> QED
  BY <1>3, <1>4

\* However decodes and the user's operations follow each other, and whatever fails
\* in between: the cells, the head and the data have their types, the result of a
\* decode is one of those llama.h lists, and a decode in progress has a slot for
\* every ubatch that it has not computed yet.
THEOREM CacheTypeCorrect == SpecCache => []CacheTypeOK
  BY CacheInvAlways, InvImplies, PTL

\* The methods of the cache respect what those of the cells demand: after every
\* operation and every decode the summaries that find_slot, seq_pos_min and
\* seq_pos_max read (used, seq_pos, has_shift) agree with the cells.
THEOREM CacheCellsCorrect == SpecCache => []CellsOK
  BY CacheInvAlways, InvImplies, PTL

\* find_slot finds a slot if and only if there is one, in every state llama_decode
\* can call it in: it misses none although it starts at head and stops after it
\* has tested as many cells as there are.
THEOREM SlotsAreFound == SpecCache => []FindsASlot
  BY CacheInvAlways, InvFinds, PTL

\* The key of every token is rotated to the position of its cell, but for the
\* shift that is pending there, under the users and failures of Rotating: those
\* it excludes are the ones for which the code leaves keys in the wrong place.
THEOREM KeysStayRotated == Rotating => (SpecCache => []KeysRotated)
<1> SUFFICES ASSUME Rotating PROVE SpecCache => []KeysRotated
  OBVIOUS
<1>1. CacheInv => KeysRotated
  BY InvRotated
<1> QED
  BY <1>1, CacheInvAlways, PTL

-----------------------------------------------------------------------------
(* The slots of a decode: without a window they are free, and apart.       *)

\* The cells of the slots are empty and no two slots share one.
SlotsFree(C, ubs, heads, k) ==
    /\ \A j \in 1 .. k : \A i \in Cell : InSlot(heads[j], ubs[j], i) => IsEmpty(C, i)
    /\ \A j, l \in 1 .. k : j < l => \A i \in Cell :
         InSlot(heads[j], ubs[j], i) => ~InSlot(heads[l], ubs[l], i)

\* What a trial has taken: the slots, and nothing else.
Fitting(M, ubs, k, P) ==
    P.ok =>
      /\ SlotsFree(M.c, ubs, P.heads, k)
      /\ \A j \in 1 .. k : \A i \in Cell : InSlot(P.heads[j], ubs[j], i) => ~IsEmpty(P.m.c, i)
      /\ \A i \in Cell : (\A j \in 1 .. k : ~InSlot(P.heads[j], ubs[j], i)) => At(P.m.c, i) = At(M.c, i)

LEMMA ApplyFree ==
  ASSUME NEW M, Sound(M), NEW h \in Nat, NEW ub, UbatchOK(ub), h + Len(ub) <= NCells,
         \A i \in Cell : InSlot(h, ub, i) => IsEmpty(M.c, i)
  PROVE  LET N == Apply(M, h, ub) IN
         \A i \in Cell : /\ At(N.c, i) = IF InSlot(h, ub, i) THEN Stored(ub[i - h + 1]) ELSE At(M.c, i)
                         /\ InSlot(h, ub, i) => i - h + 1 \in 1 .. Len(ub) /\ ~IsEmpty(N.c, i)
<1> DEFINE N == Apply(M, h, ub)
<1>1. \A i \in Cell : At(N.c, i) = IF InSlot(h, ub, i) THEN Stored(ub[i - h + 1]) ELSE At(M.c, i)
  BY ApplyDone
<1> HIDE DEF N
<1>2. ASSUME NEW i \in Cell, InSlot(h, ub, i)
      PROVE  i - h + 1 \in 1 .. Len(ub) /\ ~IsEmpty(N.c, i)
  <2>1. Len(ub) \in Nat /\ i \in Nat
    BY PosTyped DEF UbatchOK
  <2>2. i - h + 1 \in 1 .. Len(ub)
    BY <1>2, <2>1 DEF InSlot
  <2>3. ub[i - h + 1].pos \in Pos
    BY <2>2 DEF UbatchOK, TokenOK
  <2>4. N.c.pos[i] = ub[i - h + 1].pos
    BY <1>1, <1>2 DEF At, Stored
  <2>5. N.c.pos[i] \in Nat
    BY <2>3, <2>4, PosTyped
  <2> QED
    BY <2>2, <2>5 DEF IsEmpty
<1> QED
  BY <1>1, <1>2 DEF N

LEMMA FittingKept ==
  ASSUME NEW M, NEW ubs, NEW k \in Nat, NEW P, TrialOK(M, ubs, k, P), UbatchOK(ubs[k + 1]),
         Fitting(M, ubs, k, P), SwaType = "none"
  PROVE  Fitting(M, ubs, k + 1, TrySlot(P, ubs[k + 1]))
<1> DEFINE ub == ubs[k + 1]
           f == FindSlot(P.m, Len(ub))
           N == TrySlot(P, ub)
           Q == Apply(P.m, f, ub)
           g == Append(P.heads, f)
<1>1. P \in Trials /\ Sound(P.m) /\ Len(ub) \in Nat
  BY DEF TrialOK, UbatchOK
<1>2. f # -1 => Len(ub) <= NCells /\ Slot(P.m.c, Len(ub), f)
  BY <1>1, FindSlotDone
<1>3. \/ N = [P EXCEPT !.ok = FALSE]
      \/ /\ P.ok /\ ~(f < 0)
         /\ N = [m |-> Q, ok |-> TRUE, heads |-> g,
                 saved |-> <<[at |-> f, n |-> Len(ub), old |-> P.m]>> \o P.saved]
  BY DEF TrySlot, TakeSlot
<1>4. CASE N = [P EXCEPT !.ok = FALSE]
  <2> HIDE DEF N
  <2>1. ~N.ok
    BY <1>1, <1>4 DEF Trials
  <2> QED
    BY <2>1 DEF Fitting, N
<1>5. CASE /\ P.ok /\ ~(f < 0)
           /\ N = [m |-> Q, ok |-> TRUE, heads |-> g,
                   saved |-> <<[at |-> f, n |-> Len(ub), old |-> P.m]>> \o P.saved]
  <2>1. f # -1 /\ P.ok /\ N.m = Q /\ N.heads = g
    BY <1>5
  <2>2. Slot(P.m.c, Len(ub), f) /\ Len(ub) <= NCells
    BY <1>2, <2>1
  <2> HIDE DEF f, N
  <2>3. f \in Nat /\ f + Len(ub) <= NCells /\ f \in 0 .. NCells
    BY <1>1, <2>2, PosTyped DEF Slot
  <2>4. ASSUME NEW i \in Cell, InSlot(f, ub, i) PROVE IsEmpty(P.m.c, i)
    <3>1. i - f \in 0 .. Len(ub) - 1 /\ f + (i - f) = i
      BY <1>1, <2>3, <2>4, PosTyped DEF InSlot
    <3>2. CanUse(P.m.c, f + (i - f))
      BY <2>2, <3>1 DEF Slot
    <3> QED
      BY <3>1, <3>2, CanUseNone
  <2>5. \A i \in Cell : /\ At(Q.c, i) = IF InSlot(f, ub, i) THEN Stored(ub[i - f + 1]) ELSE At(P.m.c, i)
                        /\ InSlot(f, ub, i) => ~IsEmpty(Q.c, i)
    BY <1>1, <2>3, <2>4, ApplyFree
  <2> HIDE DEF Q
  <2>6. /\ P.heads \in Seq(0 .. NCells) /\ Len(P.heads) = k
    BY <2>1 DEF TrialOK, Trials
  <2>7. g[k + 1] = f /\ \A j \in 1 .. k : g[j] = P.heads[j]
    BY <2>3, <2>6
  <2> HIDE DEF g
  <2>8. /\ SlotsFree(M.c, ubs, P.heads, k)
        /\ \A j \in 1 .. k : \A i \in Cell : InSlot(P.heads[j], ubs[j], i) => ~IsEmpty(P.m.c, i)
        /\ \A i \in Cell : (\A j \in 1 .. k : ~InSlot(P.heads[j], ubs[j], i)) => At(P.m.c, i) = At(M.c, i)
    BY <2>1 DEF Fitting
  <2>9. \A j \in 1 .. k + 1 : j \in 1 .. k \/ j = k + 1
    OBVIOUS
  <2>u. ub = ubs[k + 1]
    OBVIOUS
  <2> HIDE DEF ub
  \* The new slot is in the empty cells, so in none of the others.
  <2>10. ASSUME NEW i \in Cell, InSlot(f, ub, i)
         PROVE  IsEmpty(M.c, i) /\ \A j \in 1 .. k : ~InSlot(P.heads[j], ubs[j], i)
    <3>1. \A j \in 1 .. k : ~InSlot(P.heads[j], ubs[j], i)
      BY <2>4, <2>8, <2>10
    <3>2. At(P.m.c, i) = At(M.c, i)
      BY <2>8, <3>1
    <3> QED
      BY <2>4, <2>10, <3>1, <3>2 DEF At, IsEmpty
  <2>11. \A j \in 1 .. k + 1 : \A i \in Cell : InSlot(g[j], ubs[j], i) => IsEmpty(M.c, i) /\ ~IsEmpty(Q.c, i)
    <3> SUFFICES ASSUME NEW j \in 1 .. k + 1, NEW i \in Cell, InSlot(g[j], ubs[j], i)
                 PROVE  IsEmpty(M.c, i) /\ ~IsEmpty(Q.c, i)
      OBVIOUS
    <3>1. CASE j = k + 1
      BY <2>5, <2>7, <2>10, <2>u, <3>1
    <3>2. CASE j \in 1 .. k
      <4>1. InSlot(P.heads[j], ubs[j], i)
        BY <2>7, <3>2
      <4>2. IsEmpty(M.c, i) /\ ~IsEmpty(P.m.c, i)
        BY <2>8, <3>2, <4>1 DEF SlotsFree
      <4>3. At(Q.c, i) = At(P.m.c, i)
        BY <2>4, <2>5, <4>2
      <4> QED
        BY <4>2, <4>3 DEF At, IsEmpty
    <3> QED
      BY <2>9, <3>1, <3>2
  <2>12. ASSUME NEW j \in 1 .. k + 1, NEW l \in 1 .. k + 1, j < l, NEW i \in Cell,
                InSlot(g[j], ubs[j], i), InSlot(g[l], ubs[l], i)
         PROVE  FALSE
    <3>1. j \in 1 .. k
      BY <2>12
    <3>2. InSlot(P.heads[j], ubs[j], i)
      BY <2>7, <2>12, <3>1
    <3>3. CASE l = k + 1
      BY <2>7, <2>10, <2>12, <2>u, <3>1, <3>2, <3>3
    <3>4. CASE l \in 1 .. k
      <4>1. InSlot(P.heads[l], ubs[l], i)
        BY <2>7, <2>12, <3>4
      <4> QED
        BY <2>8, <2>12, <3>1, <3>2, <3>4, <4>1 DEF SlotsFree
    <3> QED
      BY <2>9, <3>3, <3>4
  <2>13. SlotsFree(M.c, ubs, g, k + 1)
    BY <2>11, <2>12 DEF SlotsFree
  <2>14. ASSUME NEW i \in Cell, \A j \in 1 .. k + 1 : ~InSlot(g[j], ubs[j], i)
         PROVE  At(Q.c, i) = At(M.c, i)
    <3>1. ~InSlot(f, ub, i)
      BY <2>7, <2>14, <2>u
    <3>2. \A j \in 1 .. k : ~InSlot(P.heads[j], ubs[j], i)
      BY <2>7, <2>14
    <3> QED
      BY <2>5, <2>8, <3>1, <3>2
  <2>15. Fitting(M, ubs, k + 1, N)
    BY <2>1, <2>11, <2>13, <2>14 DEF Fitting
  <2> QED
    BY <2>15, <2>u DEF N
<1> QED
  BY <1>3, <1>4, <1>5

LEMMA FittingDone ==
  ASSUME NEW M, Sound(M), NEW ubs, UbatchesOK(ubs), SwaType = "none"
  PROVE  Fitting(M, ubs, Len(ubs), Trial(M, ubs))
<1> DEFINE x == [m |-> M, ok |-> TRUE, heads |-> <<>>, saved |-> <<>>]
           n == Len(ubs)
           A == [k \in 0 .. n |-> {P \in Trials : TrialOK(M, ubs, k, P) /\ Fitting(M, ubs, k, P)}]
           R == TryRound!Result(x, ubs, 0, 0, 0, 0)
<1>1. n \in Nat
  BY DEF UbatchesOK
<1>2. x \in A[0]
  <2>1. x \in Trials /\ x.m = M /\ x.heads = <<>> /\ x.saved = <<>>
    BY DEF Trials, Sound
  <2> HIDE DEF x
  <2>2. Len(x.heads) = 0 /\ Len(x.saved) = 0 /\ Before(x, 0) = M
    BY <2>1 DEF Before
  <2>3. TrialOK(M, ubs, 0, x)
    BY <2>1, <2>2 DEF TrialOK
  <2>4. SlotsFree(M.c, ubs, x.heads, 0)
    BY DEF SlotsFree
  <2>5. Fitting(M, ubs, 0, x)
    BY <2>1, <2>4 DEF Fitting
  <2>6. 0 \in 0 .. n
    BY <1>1
  <2> QED
    BY <2>1, <2>3, <2>5, <2>6
<1> HIDE DEF x
<1>3. ASSUME NEW k \in 1 .. n, NEW P \in A[k - 1]
      PROVE  TrySlot(P, ubs[k]) \in A[k]
  <2> DEFINE j == k - 1
  <2>1. j \in Nat /\ j + 1 = k /\ j \in 0 .. n /\ k \in 0 .. n
    BY <1>1
  <2>2. TrialOK(M, ubs, j, P) /\ Fitting(M, ubs, j, P)
    BY <2>1
  <2>3. UbatchOK(ubs[j + 1])
    BY <2>1 DEF UbatchesOK
  <2> HIDE DEF j
  <2>4. TrialOK(M, ubs, j + 1, TrySlot(P, ubs[j + 1]))
    BY <2>1, <2>2, <2>3, TrialKept
  <2>5. Fitting(M, ubs, j + 1, TrySlot(P, ubs[j + 1]))
    BY <2>1, <2>2, <2>3, FittingKept
  <2>6. /\ TrySlot(P, ubs[k]) \in Trials /\ TrialOK(M, ubs, k, TrySlot(P, ubs[k]))
        /\ Fitting(M, ubs, k, TrySlot(P, ubs[k]))
    BY <2>1, <2>4, <2>5 DEF TrialOK
  <2> QED
    BY <2>1, <2>6
<1>4. R \in A[n]
  <2> HIDE DEF A, n
  <2>1. TryRound!Keeps(A, x, ubs, 0, 0, 0, 0)
    BY <1>2, <1>3 DEF TryRound!Keeps, n
  <2>i. TryRound!Inductive
    BY Induct DEF TryRound!Inductive
  <2> QED
    BY <1>1, <2>1, <2>i, TryRound!Invariant DEF n
<1>5. Trial(M, ubs) = R
  BY DEF Trial, Loop, TryRound!Result, x
<1> HIDE DEF R
<1>6. n \in 0 .. n
  BY <1>1
<1> QED
  BY <1>4, <1>5, <1>6

\* A trial without a window leaves the cells as they were, and its slots free.
LEMMA InitBatchFree ==
  ASSUME NEW M, Sound(M), NEW ubs, UbatchesOK(ubs), SwaType = "none"
  PROVE  LET r == InitBatch(M, ubs) IN
         /\ r.m.d = M.d /\ \A i \in Cell : At(r.m.c, i) = At(M.c, i)
         /\ r.heads # <<>> => SlotsFree(r.m.c, ubs, r.heads, Len(ubs))
<1> DEFINE P == Trial(M, ubs)
           r == InitBatch(M, ubs)
<1>1. r = [m |-> Restored(P), heads |-> IF P.ok THEN P.heads ELSE <<>>]
  BY DEF InitBatch, AskTwice, Prepare, Outcome
<1>2. Fitting(M, ubs, Len(ubs), P)
  BY FittingDone
<1>3. LeftOf(M, r.m)
  BY InitBatchDone
<1> HIDE DEF r, P
<1>4. r.m.d = M.d /\ \A i \in Cell : At(r.m.c, i) = At(M.c, i)
  BY <1>3 DEF LeftOf, Near
<1>5. r.heads # <<>> => SlotsFree(M.c, ubs, r.heads, Len(ubs))
  BY <1>1, <1>2 DEF Fitting
<1>6. \A i \in Cell : IsEmpty(M.c, i) => IsEmpty(r.m.c, i)
  BY <1>4 DEF At, IsEmpty
<1>7. r.heads # <<>> => SlotsFree(r.m.c, ubs, r.heads, Len(ubs))
  BY <1>5, <1>6 DEF SlotsFree
<1> QED
  BY <1>4, <1>7 DEF r

-----------------------------------------------------------------------------
(* The entries of the cache, which are all that KVStore knows of it.       *)

LEMMA EntriesAre ==
  ASSUME NEW M, NEW e
  PROVE  e \in EntriesOf(M) <=> \E i \in Cell : ~IsEmpty(M.c, i) /\ e = EntryAt(M, i)
  BY DEF EntriesOf

LEMMA SameEntries ==
  ASSUME NEW M, NEW N, N.d = M.d, \A i \in Cell : At(N.c, i) = At(M.c, i)
  PROVE  EntriesOf(N) = EntriesOf(M)
<1>1. \A i \in Cell : N.c.pos[i] = M.c.pos[i] /\ N.c.seq[i] = M.c.seq[i]
  BY DEF At
<1>2. \A i \in Cell : IsEmpty(N.c, i) = IsEmpty(M.c, i) /\ EntryAt(N, i) = EntryAt(M, i)
  BY <1>1 DEF IsEmpty, EntryAt
<1>3. \A e : e \in EntriesOf(N) <=> e \in EntriesOf(M)
  BY <1>2, EntriesAre
<1> QED
  BY <1>3

LEMMA ForgetsEntries ==
  ASSUME NEW M
  PROVE  EntriesOf(Forgets(M)) = EntriesOf(M)
<1> DEFINE N == Forgets(M)
<1>1. N.c = M.c /\ \A i \in Cell : ~IsEmpty(M.c, i) => N.d[i] = M.d[i]
  BY DEF Forgets
<1> HIDE DEF N
<1>2. \A i \in Cell : IsEmpty(N.c, i) = IsEmpty(M.c, i) /\ (~IsEmpty(M.c, i) => EntryAt(N, i) = EntryAt(M, i))
  BY <1>1 DEF EntryAt
<1>3. \A e : e \in EntriesOf(N) <=> e \in EntriesOf(M)
  BY <1>2, EntriesAre
<1> QED
  BY <1>3 DEF N

LEMMA EntriesNow == Entries = EntriesOf(Cache)
  BY DEF Entries, EntriesOf, EntryAt, Full, Cache

LEMMA EntriesNext ==
  ASSUME NEW M, Becomes(M)
  PROVE  Entries' = EntriesOf(M)
<1>1. Entries' = EntriesOf(Cache')
  BY DEF Entries, EntriesOf, EntryAt, Full, Cache
<1>2. Cache' = Forgets(M)
  BY BecomesDone
<1> QED
  BY <1>1, <1>2, ForgetsEntries

\* An operation that makes G[e] of each entry e, and drops what is nowhere.
Makes(M, N, G) ==
    /\ \A i \in Cell : IsEmpty(M.c, i) => IsEmpty(N.c, i)
    /\ \A i \in Cell : ~IsEmpty(M.c, i) =>
         LET e == G[EntryAt(M, i)] IN
         /\ e.tok = EntryAt(M, i).tok
         /\ IF e.seqs # {} /\ e.pos >= 0 THEN ~IsEmpty(N.c, i) /\ EntryAt(N, i) = e
            ELSE IsEmpty(N.c, i)

Images(G, M) == {G[e] : e \in EntriesOf(M)}

LEMMA MadeEntries ==
  ASSUME NEW M, NEW N, Sound(N), NEW G, Makes(M, N, G)
  PROVE  /\ EntriesOf(N) = Store!Live(Images(G, M))
         /\ EntriesOf(M) \subseteq Store!Entry => EntriesOf(N) \subseteq Store!Entry
<1> DEFINE X == Images(G, M)
<1>1. ASSUME NEW e \in EntriesOf(N) PROVE e \in Store!Live(X)
  <2>1. PICK i \in Cell : ~IsEmpty(N.c, i) /\ e = EntryAt(N, i)
    BY <1>1, EntriesAre
  <2>2. ~IsEmpty(M.c, i)
    BY <2>1 DEF Makes
  <2>3. e = G[EntryAt(M, i)] /\ e.seqs # {} /\ e.pos >= 0
    BY <2>1, <2>2 DEF Makes
  <2>4. EntryAt(M, i) \in EntriesOf(M)
    BY <2>2, EntriesAre
  <2> QED
    BY <2>3, <2>4 DEF Store!Live, Images
<1>2. ASSUME NEW f \in Store!Live(X) PROVE f \in EntriesOf(N)
  <2>1. PICK e \in EntriesOf(M) : f = G[e]
    BY <1>2 DEF Store!Live, Images
  <2>2. f.seqs # {} /\ f.pos >= 0
    BY <1>2 DEF Store!Live
  <2>3. PICK i \in Cell : ~IsEmpty(M.c, i) /\ e = EntryAt(M, i)
    BY <2>1, EntriesAre
  <2>4. ~IsEmpty(N.c, i) /\ EntryAt(N, i) = f
    BY <2>1, <2>2, <2>3 DEF Makes
  <2> QED
    BY <2>4, EntriesAre
<1>3. ASSUME EntriesOf(M) \subseteq Store!Entry, NEW f \in EntriesOf(N)
      PROVE  f \in Store!Entry
  <2>1. PICK i \in Cell : ~IsEmpty(N.c, i) /\ f = EntryAt(N, i)
    BY EntriesAre
  <2>2. ~IsEmpty(M.c, i)
    BY <2>1 DEF Makes
  <2>3. f = G[EntryAt(M, i)] /\ f.seqs # {} /\ f.tok = EntryAt(M, i).tok
    BY <2>1, <2>2 DEF Makes
  <2>4. EntryAt(M, i) \in Store!Entry
    BY <1>3, <2>2, EntriesAre
  <2>5. f.tok \in Tokens
    BY <2>3, <2>4 DEF Store!Entry
  <2>6. f = [pos |-> N.c.pos[i], seqs |-> N.c.seq[i], tok |-> N.d[i].tok]
    BY <2>1 DEF EntryAt
  <2>7. N.c.pos[i] \in Pos /\ N.c.seq[i] \in SUBSET Seqs
    <3>1. N.c.pos[i] \in Pos \union {-1} /\ N.c.seq[i] \in SUBSET Seqs
      BY GoodTyped DEF Sound
    <3> QED
      BY <2>1, <3>1 DEF IsEmpty
  <2> QED
    BY <2>3, <2>5, <2>6, <2>7 DEF Store!Entry, Pos
<1> HIDE DEF X
<1>4. EntriesOf(N) = Store!Live(X)
  BY <1>1, <1>2
<1> QED
  BY <1>3, <1>4 DEF X

\* The range of a user's operation, as the header states it.
LEMMA RangeIs ==
  ASSUME NEW M, Sound(M), NEW i \in Cell, ~IsEmpty(M.c, i), NEW p0 \in Int, NEW p1 \in Int
  PROVE  /\ InRange(M.c, i, p0, p1) = Store!In(EntryAt(M, i), p0, p1)
         /\ EntryAt(M, i).pos \in Nat /\ EntryAt(M, i).seqs = M.c.seq[i] /\ EntryAt(M, i).pos = M.c.pos[i]
         /\ EntryAt(M, i) = [pos |-> M.c.pos[i], seqs |-> M.c.seq[i], tok |-> M.d[i].tok]
<1> DEFINE p == M.c.pos[i]
<1>1. p \in Pos
  <2>1. p \in Pos \union {-1}
    BY GoodTyped DEF Sound
  <2> QED
    BY <2>1 DEF IsEmpty
<1>2. p \in Nat /\ p <= MaxPos /\ MaxPos \in Nat
  BY <1>1, PosTyped DEF Pos
<1>3. /\ EntryAt(M, i).pos = p /\ EntryAt(M, i).seqs = M.c.seq[i]
      /\ EntryAt(M, i) = [pos |-> p, seqs |-> M.c.seq[i], tok |-> M.d[i].tok]
  BY DEF EntryAt
<1>4. InRange(M.c, i, p0, p1) <=> p >= (IF p0 < 0 THEN 0 ELSE p0) /\ p < (IF p1 < 0 THEN MaxPos + 1 ELSE p1)
  BY DEF InRange, PosIn, From, End
<1> HIDE DEF p
<1>5. InRange(M.c, i, p0, p1) <=> p0 <= p /\ (p1 < 0 \/ p < p1)
  BY <1>2, <1>4
<1>6. Store!In(EntryAt(M, i), p0, p1) <=> p0 <= p /\ (p1 < 0 \/ p < p1)
  BY <1>3 DEF Store!In
<1>7. InRange(M.c, i, p0, p1) \in BOOLEAN /\ Store!In(EntryAt(M, i), p0, p1) \in BOOLEAN
  BY DEF InRange, PosIn, Store!In
<1> QED
  BY <1>2, <1>3, <1>5, <1>6, <1>7 DEF p

LEMMA EntryFrom ==
  ASSUME NEW M, NEW N, NEW i, NEW w, N.d = M.d, At(N.c, i) = w
  PROVE  /\ IsEmpty(N.c, i) <=> w.pos = -1
         /\ EntryAt(N, i) = [pos |-> w.pos, seqs |-> w.seq, tok |-> M.d[i].tok]
         /\ w = At(M.c, i) => IsEmpty(N.c, i) = IsEmpty(M.c, i) /\ EntryAt(N, i) = EntryAt(M, i)
  BY DEF At, IsEmpty, EntryAt

\* What an operation may take for granted of the entry of a cell.
LEMMA EntryIs ==
  ASSUME NEW M, Sound(M), EntriesOf(M) \subseteq Store!Entry, NEW i \in Cell, ~IsEmpty(M.c, i)
  PROVE  /\ EntryAt(M, i) \in EntriesOf(M)
         /\ EntryAt(M, i) = [pos |-> M.c.pos[i], seqs |-> M.c.seq[i], tok |-> M.d[i].tok]
         /\ M.c.seq[i] # {} /\ M.c.seq[i] \in SUBSET Seqs /\ M.c.pos[i] \in Nat
<1>1. EntryAt(M, i) \in EntriesOf(M)
  BY EntriesAre
<1>2. EntryAt(M, i).seqs # {}
  BY <1>1 DEF Store!Entry
<1>3. M.c.seq[i] \in SUBSET Seqs /\ M.c.pos[i] \in Pos \union {-1}
  BY GoodTyped DEF Sound
<1>4. M.c.pos[i] \in Nat
  BY <1>3, PosTyped DEF IsEmpty
<1> QED
  BY <1>1, <1>2, <1>3, <1>4 DEF EntryAt

\* The sequences that seq_rm means: -1 stands for all.
Meant(s) == IF s = -1 THEN Seqs ELSE {s}

LEMMA RemoveEntries ==
  ASSUME NEW M, Sound(M), EntriesOf(M) \subseteq Store!Entry,
         NEW s \in Seqs \union {-1}, NEW p0 \in Int, NEW p1 \in Int
  PROVE  LET E == EntriesOf(SeqRm(M, s, p0, p1)) IN
         /\ E = Store!Live({IF Store!In(e, p0, p1) THEN [e EXCEPT !.seqs = @ \ Meant(s)] ELSE e : e \in EntriesOf(M)})
         /\ E \subseteq Store!Entry
<1> DEFINE S == Meant(s)
           N == SeqRm(M, s, p0, p1)
           G == [e \in EntriesOf(M) |-> IF Store!In(e, p0, p1) THEN [e EXCEPT !.seqs = @ \ S] ELSE e]
<1>1. Sound(N) /\ N.d = M.d /\ Holds(N.c, AfterRm(M.c, s, p0, p1))
  BY SeqRmDone
<1>2. {IF Store!In(e, p0, p1) THEN [e EXCEPT !.seqs = @ \ S] ELSE e : e \in EntriesOf(M)}
        = Images(G, M)
  BY DEF Images
<1>3. (s = -1 <=> s < 0) /\ (s < 0 => s \notin Seqs) /\ S = IF s = -1 THEN Seqs ELSE {s}
  BY CellsAssumption DEF Meant
<1> HIDE DEF N, S
<1>4. ASSUME NEW i \in Cell, ~IsEmpty(M.c, i)
      PROVE  LET e == G[EntryAt(M, i)] IN
             /\ e.tok = EntryAt(M, i).tok
             /\ IF e.seqs # {} /\ e.pos >= 0 THEN ~IsEmpty(N.c, i) /\ EntryAt(N, i) = e
                ELSE IsEmpty(N.c, i)
  <2> DEFINE a == EntryAt(M, i)
             e == G[a]
             w == AfterRm(M.c, s, p0, p1)[i]
             q == M.c.seq[i]
             p == M.c.pos[i]
  <2> SUFFICES /\ e.tok = a.tok
               /\ IF e.seqs # {} /\ e.pos >= 0 THEN ~IsEmpty(N.c, i) /\ EntryAt(N, i) = e
                  ELSE IsEmpty(N.c, i)
    OBVIOUS
  <2>1. /\ a \in EntriesOf(M) /\ a = [pos |-> p, seqs |-> q, tok |-> M.d[i].tok]
        /\ q # {} /\ q \in SUBSET Seqs /\ p \in Nat
    BY <1>4, EntryIs
  <2>2. InRange(M.c, i, p0, p1) <=> Store!In(a, p0, p1)
    BY <1>4, RangeIs
  <2>12. e = IF Store!In(a, p0, p1) THEN [a EXCEPT !.seqs = @ \ S] ELSE a
    BY <2>1
  <2>3. e = IF InRange(M.c, i, p0, p1) THEN [pos |-> p, seqs |-> q \ S, tok |-> M.d[i].tok] ELSE a
    <3> HIDE DEF a, e, p, q
    <3>1. [a EXCEPT !.seqs = @ \ S] = [pos |-> p, seqs |-> q \ S, tok |-> M.d[i].tok]
      <4> DEFINE r == a.seqs \ S
      <4>1. r = q \ S
        BY <2>1
      <4> HIDE DEF r
      <4>2. [a EXCEPT !.seqs = r] = [pos |-> p, seqs |-> r, tok |-> M.d[i].tok]
        BY <2>1
      <4> QED
        BY <4>1, <4>2 DEF r
    <3>2. CASE InRange(M.c, i, p0, p1)
      BY <2>2, <2>12, <3>1, <3>2
    <3>3. CASE ~InRange(M.c, i, p0, p1)
      BY <2>2, <2>12, <3>1, <3>3
    <3> QED
      BY <3>2, <3>3
  <2>4. /\ IsEmpty(N.c, i) <=> w.pos = -1
        /\ EntryAt(N, i) = [pos |-> w.pos, seqs |-> w.seq, tok |-> M.d[i].tok]
    <3>1. At(N.c, i) = w
      BY <1>1 DEF Holds
    <3> QED
      BY <1>1, <3>1, EntryFrom
  <2>5. w = IF InRange(M.c, i, p0, p1) /\ s < 0 THEN Gone
            ELSE IF InRange(M.c, i, p0, p1) /\ s \in q THEN Without(M.c, i, s) ELSE At(M.c, i)
    BY DEF AfterRm
  <2>6. At(M.c, i) = [pos |-> p, seq |-> q, shift |-> M.c.shift[i]]
    BY DEF At
  <2>7. Without(M.c, i, s) = IF q = {s} THEN Gone ELSE [pos |-> p, seq |-> q \ {s}, shift |-> M.c.shift[i]]
    BY DEF Without
  <2> HIDE DEF a, e, w, q, p
  <2>8. CASE ~InRange(M.c, i, p0, p1)
    BY <2>1, <2>3, <2>4, <2>5, <2>6, <2>8
  <2>9. CASE InRange(M.c, i, p0, p1) /\ s < 0
    <3>1. q \ S = {}
      BY <1>3, <2>1, <2>9
    <3> QED
      BY <2>1, <2>3, <2>4, <2>5, <2>9, <3>1 DEF Gone
  <2>10. CASE InRange(M.c, i, p0, p1) /\ ~(s < 0) /\ s \in q
    <3>1. S = {s} /\ (q \ S = {} <=> q = {s})
      BY <1>3, <2>1, <2>10
    <3>2. CASE q = {s}
      BY <2>1, <2>3, <2>4, <2>5, <2>7, <2>10, <3>1, <3>2 DEF Gone
    <3>3. CASE q # {s}
      BY <2>1, <2>3, <2>4, <2>5, <2>7, <2>10, <3>1, <3>3
    <3> QED
      BY <3>2, <3>3
  <2>11. CASE InRange(M.c, i, p0, p1) /\ ~(s < 0) /\ s \notin q
    <3>1. q \ S = q
      BY <1>3, <2>11
    <3> QED
      BY <2>1, <2>3, <2>4, <2>5, <2>6, <2>11, <3>1
  <2> QED
    BY <2>8, <2>9, <2>10, <2>11
<1>5. ASSUME NEW i \in Cell, IsEmpty(M.c, i) PROVE IsEmpty(N.c, i)
  <2>1. Less(M.c, N.c, i)
    <3>1. s \in Seqs \/ (s = -1 /\ p0 \in Int)
      OBVIOUS
    <3> QED
      BY <3>1, SeqRmLess DEF N
  <2> QED
    BY <1>5, <2>1 DEF Less, IsEmpty
<1>6. Makes(M, N, G)
  BY <1>4, <1>5 DEF Makes
<1> DEFINE X == Images(G, M)
<1>7. EntriesOf(N) = Store!Live(X) /\ EntriesOf(N) \subseteq Store!Entry
  <2> HIDE DEF G
  <2> QED
    BY <1>1, <1>6, MadeEntries
<1> HIDE DEF X
<1> QED
  BY <1>2, <1>7 DEF N, X, S

LEMMA KeepEntries ==
  ASSUME NEW M, Sound(M), EntriesOf(M) \subseteq Store!Entry,
         NEW s \in Seqs
  PROVE  LET E == EntriesOf(SeqKeep(M, s)) IN
         /\ E = Store!Live({[e EXCEPT !.seqs = @ \intersect {s}] : e \in EntriesOf(M)})
         /\ E \subseteq Store!Entry
<1> DEFINE N == SeqKeep(M, s)
           G == [e \in EntriesOf(M) |-> [e EXCEPT !.seqs = @ \intersect {s}]]
           X == Images(G, M)
<1>1. Sound(N) /\ N.d = M.d /\ Holds(N.c, AfterKeep(M.c, s))
  BY SeqKeepDone
<1>2. {[e EXCEPT !.seqs = @ \intersect {s}] : e \in EntriesOf(M)} = X
  BY DEF Images
<1> HIDE DEF N
<1>3. ASSUME NEW i \in Cell, ~IsEmpty(M.c, i)
      PROVE  LET e == G[EntryAt(M, i)] IN
             /\ e.tok = EntryAt(M, i).tok
             /\ IF e.seqs # {} /\ e.pos >= 0 THEN ~IsEmpty(N.c, i) /\ EntryAt(N, i) = e
                ELSE IsEmpty(N.c, i)
  <2> DEFINE a == EntryAt(M, i)
             e == G[a]
             w == AfterKeep(M.c, s)[i]
             q == M.c.seq[i]
             p == M.c.pos[i]
  <2> SUFFICES /\ e.tok = a.tok
               /\ IF e.seqs # {} /\ e.pos >= 0 THEN ~IsEmpty(N.c, i) /\ EntryAt(N, i) = e
                  ELSE IsEmpty(N.c, i)
    OBVIOUS
  <2>1. /\ a \in EntriesOf(M) /\ a = [pos |-> p, seqs |-> q, tok |-> M.d[i].tok]
        /\ q # {} /\ q \in SUBSET Seqs /\ p \in Nat
    BY <1>3, EntryIs
  <2>2. e = [a EXCEPT !.seqs = @ \intersect {s}]
    BY <2>1
  <2>3. e = [pos |-> p, seqs |-> q \intersect {s}, tok |-> M.d[i].tok]
    <3> HIDE DEF a, e, p, q
    <3> QED
      BY <2>1, <2>2
  <2>4. /\ IsEmpty(N.c, i) <=> w.pos = -1
        /\ EntryAt(N, i) = [pos |-> w.pos, seqs |-> w.seq, tok |-> M.d[i].tok]
    <3>1. At(N.c, i) = w
      BY <1>1 DEF Holds
    <3> HIDE DEF w
    <3> QED
      BY <1>1, <3>1, EntryFrom
  <2>5. w = IF s \in q THEN [pos |-> p, seq |-> {s}, shift |-> M.c.shift[i]] ELSE Gone
    BY <2>1 DEF AfterKeep
  <2> HIDE DEF a, e, w, q, p
  <2>7. CASE s \in q
    <3>1. q \intersect {s} = {s}
      BY <2>7
    <3> QED
      BY <2>1, <2>3, <2>4, <2>5, <2>7, <3>1
  <2>8. CASE s \notin q
    <3>1. q \intersect {s} = {}
      BY <2>8
    <3> QED
      BY <2>1, <2>3, <2>4, <2>5, <2>8, <3>1 DEF Gone
  <2> QED
    BY <2>7, <2>8
<1>4. ASSUME NEW i \in Cell, IsEmpty(M.c, i) PROVE IsEmpty(N.c, i)
  <2>1. M.c.seq[i] = {}
    BY <1>4, GoodTyped DEF Sound
  <2>2. At(N.c, i) = At(M.c, i)
    BY <1>1, <2>1 DEF Holds, AfterKeep
  <2> QED
    BY <1>4, <2>2 DEF At, IsEmpty
<1>5. Makes(M, N, G)
  BY <1>3, <1>4 DEF Makes
<1>6. EntriesOf(N) = Store!Live(X) /\ EntriesOf(N) \subseteq Store!Entry
  <2> HIDE DEF G
  <2> QED
    BY <1>1, <1>5, MadeEntries
<1> HIDE DEF X
<1> QED
  BY <1>2, <1>6 DEF N, X

LEMMA CopyEntries ==
  ASSUME NEW M, Sound(M), EntriesOf(M) \subseteq Store!Entry,
         NEW s \in Seqs, NEW d \in Seqs, NEW p0 \in Int, NEW p1 \in Int,
         \A i \in Cell : Belongs(M.c, i, s, p0, p1) => d \notin M.c.seq[i]
  PROVE  LET E == EntriesOf(SeqCp(M, s, d, p0, p1)) IN
         /\ E = {IF s \in e.seqs /\ Store!In(e, p0, p1)
                THEN [e EXCEPT !.seqs = @ \union {d}] ELSE e : e \in EntriesOf(M)}
         /\ E \subseteq Store!Entry
<1> DEFINE N == SeqCp(M, s, d, p0, p1)
           G == [e \in EntriesOf(M) |-> IF s \in e.seqs /\ Store!In(e, p0, p1)
                THEN [e EXCEPT !.seqs = @ \union {d}] ELSE e]
           X == Images(G, M)
<1>1. Sound(N) /\ N.d = M.d /\ Holds(N.c, AfterCp(M.c, s, d, p0, p1))
  BY SeqCpDone
<1>2. {IF s \in e.seqs /\ Store!In(e, p0, p1)
                THEN [e EXCEPT !.seqs = @ \union {d}] ELSE e : e \in EntriesOf(M)} = X
  BY DEF Images
<1> HIDE DEF N
<1>3. ASSUME NEW i \in Cell, ~IsEmpty(M.c, i)
      PROVE  LET e == G[EntryAt(M, i)] IN
             /\ e.tok = EntryAt(M, i).tok /\ e.seqs # {} /\ e.pos >= 0
             /\ IF e.seqs # {} /\ e.pos >= 0 THEN ~IsEmpty(N.c, i) /\ EntryAt(N, i) = e
                ELSE IsEmpty(N.c, i)
  <2> DEFINE a == EntryAt(M, i)
             e == G[a]
             w == AfterCp(M.c, s, d, p0, p1)[i]
             q == M.c.seq[i]
             p == M.c.pos[i]
  <2> SUFFICES /\ e.tok = a.tok /\ e.seqs # {} /\ e.pos >= 0
               /\ IF e.seqs # {} /\ e.pos >= 0 THEN ~IsEmpty(N.c, i) /\ EntryAt(N, i) = e
                  ELSE IsEmpty(N.c, i)
    OBVIOUS
  <2>1. /\ a \in EntriesOf(M) /\ a = [pos |-> p, seqs |-> q, tok |-> M.d[i].tok]
        /\ q # {} /\ q \in SUBSET Seqs /\ p \in Nat
    BY <1>3, EntryIs
  <2>2. Belongs(M.c, i, s, p0, p1) <=> (s \in q /\ Store!In(a, p0, p1))
    <3>1. InRange(M.c, i, p0, p1) = Store!In(a, p0, p1)
      BY <1>3, RangeIs
    <3> QED
      BY <3>1 DEF Belongs
  <2>12. e = IF s \in a.seqs /\ Store!In(a, p0, p1) THEN [a EXCEPT !.seqs = @ \union {d}] ELSE a
    BY <2>1
  <2>3. e = IF Belongs(M.c, i, s, p0, p1) THEN [pos |-> p, seqs |-> q \union {d}, tok |-> M.d[i].tok] ELSE a
    <3> HIDE DEF a, e, p, q
    <3>1. [a EXCEPT !.seqs = @ \union {d}] = [pos |-> p, seqs |-> q \union {d}, tok |-> M.d[i].tok] /\ a.seqs = q
      <4> DEFINE r == a.seqs \union {d}
      <4>1. a.seqs = q /\ r = q \union {d}
        BY <2>1
      <4> HIDE DEF r
      <4>2. [a EXCEPT !.seqs = r] = [pos |-> p, seqs |-> r, tok |-> M.d[i].tok]
        BY <2>1
      <4> QED
        BY <4>1, <4>2 DEF r
    <3>2. CASE Belongs(M.c, i, s, p0, p1)
      BY <2>2, <2>12, <3>1, <3>2
    <3>3. CASE ~Belongs(M.c, i, s, p0, p1)
      BY <2>2, <2>12, <3>1, <3>3
    <3> QED
      BY <3>2, <3>3
  <2>4. /\ IsEmpty(N.c, i) <=> w.pos = -1
        /\ EntryAt(N, i) = [pos |-> w.pos, seqs |-> w.seq, tok |-> M.d[i].tok]
    <3>1. At(N.c, i) = w
      BY <1>1 DEF Holds
    <3> HIDE DEF w
    <3> QED
      BY <1>1, <3>1, EntryFrom
  <2>5. w = IF Belongs(M.c, i, s, p0, p1) THEN [pos |-> p, seq |-> q \union {d}, shift |-> M.c.shift[i]]
            ELSE At(M.c, i)
    BY DEF AfterCp
  <2>6. At(M.c, i) = [pos |-> p, seq |-> q, shift |-> M.c.shift[i]]
    BY DEF At
  <2> HIDE DEF a, e, w, q, p
  <2>7. q \union {d} # {} /\ p >= 0 /\ p # -1
    BY <2>1
  <2>8. CASE Belongs(M.c, i, s, p0, p1)
    BY <2>1, <2>3, <2>4, <2>5, <2>7, <2>8
  <2>9. CASE ~Belongs(M.c, i, s, p0, p1)
    BY <2>1, <2>3, <2>4, <2>5, <2>6, <2>7, <2>9
  <2> QED
    BY <2>8, <2>9
<1>4. ASSUME NEW i \in Cell, IsEmpty(M.c, i) PROVE IsEmpty(N.c, i)
  <2>1. ~Belongs(M.c, i, s, p0, p1)
    BY <1>4, RangeFull DEF Sound
  <2>2. At(N.c, i) = At(M.c, i)
    BY <1>1, <2>1 DEF Holds, AfterCp
  <2> QED
    BY <1>4, <2>2 DEF At, IsEmpty
<1>5. Makes(M, N, G)
  BY <1>3, <1>4 DEF Makes
<1>6. EntriesOf(N) = Store!Live(X) /\ EntriesOf(N) \subseteq Store!Entry
  <2> HIDE DEF G
  <2> QED
    BY <1>1, <1>5, MadeEntries
<1>7. Store!Live(X) = X
  <2>1. ASSUME NEW f \in X PROVE f.seqs # {} /\ f.pos >= 0
    <3>1. PICK e \in EntriesOf(M) : f = G[e]
      BY <2>1 DEF Images
    <3>2. PICK i \in Cell : ~IsEmpty(M.c, i) /\ e = EntryAt(M, i)
      BY <3>1, EntriesAre
    <3> HIDE DEF G, X
    <3> QED
      BY <1>3, <3>1, <3>2
  <2> HIDE DEF X
  <2> QED
    BY <2>1 DEF Store!Live
<1> HIDE DEF X
<1> QED
  BY <1>2, <1>6, <1>7 DEF N, X

LEMMA AddEntries ==
  ASSUME NEW M, Sound(M), EntriesOf(M) \subseteq Store!Entry,
         NEW s \in Seqs, NEW d \in Int, NEW p0 \in Int, NEW p1 \in Int,
         \A i \in Cell : Belongs(M.c, i, s, p0, p1) => M.c.pos[i] + d <= MaxPos
  PROVE  LET E == EntriesOf(SeqAdd(M, s, p0, p1, d)) IN
         /\ E = Store!Live({IF s \in e.seqs /\ Store!In(e, p0, p1)
                THEN [e EXCEPT !.pos = @ + d] ELSE e : e \in EntriesOf(M)})
         /\ E \subseteq Store!Entry
<1> DEFINE N == SeqAdd(M, s, p0, p1, d)
           G == [e \in EntriesOf(M) |-> IF s \in e.seqs /\ Store!In(e, p0, p1)
                THEN [e EXCEPT !.pos = @ + d] ELSE e]
           X == Images(G, M)
<1>1. Sound(N) /\ N.d = M.d /\ Holds(N.c, AfterAdd(M.c, s, p0, p1, d))
  BY SeqAddDone
<1>2. {IF s \in e.seqs /\ Store!In(e, p0, p1)
                THEN [e EXCEPT !.pos = @ + d] ELSE e : e \in EntriesOf(M)} = X
  BY DEF Images
<1> HIDE DEF N
<1>3. ASSUME NEW i \in Cell, ~IsEmpty(M.c, i)
      PROVE  LET e == G[EntryAt(M, i)] IN
             /\ e.tok = EntryAt(M, i).tok
             /\ IF e.seqs # {} /\ e.pos >= 0 THEN ~IsEmpty(N.c, i) /\ EntryAt(N, i) = e
                ELSE IsEmpty(N.c, i)
  <2> DEFINE a == EntryAt(M, i)
             e == G[a]
             w == AfterAdd(M.c, s, p0, p1, d)[i]
             q == M.c.seq[i]
             p == M.c.pos[i]
  <2> SUFFICES /\ e.tok = a.tok
               /\ IF e.seqs # {} /\ e.pos >= 0 THEN ~IsEmpty(N.c, i) /\ EntryAt(N, i) = e
                  ELSE IsEmpty(N.c, i)
    OBVIOUS
  <2>1. /\ a \in EntriesOf(M) /\ a = [pos |-> p, seqs |-> q, tok |-> M.d[i].tok]
        /\ q # {} /\ q \in SUBSET Seqs /\ p \in Nat
    BY <1>3, EntryIs
  <2>2. Belongs(M.c, i, s, p0, p1) <=> (s \in q /\ Store!In(a, p0, p1))
    <3>1. InRange(M.c, i, p0, p1) = Store!In(a, p0, p1)
      BY <1>3, RangeIs
    <3> QED
      BY <3>1 DEF Belongs
  <2>12. e = IF s \in a.seqs /\ Store!In(a, p0, p1) THEN [a EXCEPT !.pos = @ + d] ELSE a
    BY <2>1
  <2>3. e = IF Belongs(M.c, i, s, p0, p1) THEN [pos |-> p + d, seqs |-> q, tok |-> M.d[i].tok] ELSE a
    <3> HIDE DEF a, e, p, q
    <3>1. [a EXCEPT !.pos = @ + d] = [pos |-> p + d, seqs |-> q, tok |-> M.d[i].tok] /\ a.seqs = q
      BY <2>1
    <3>2. CASE Belongs(M.c, i, s, p0, p1)
      BY <2>2, <2>12, <3>1, <3>2
    <3>3. CASE ~Belongs(M.c, i, s, p0, p1)
      BY <2>2, <2>12, <3>1, <3>3
    <3> QED
      BY <3>2, <3>3
  <2>4. /\ IsEmpty(N.c, i) <=> w.pos = -1
        /\ EntryAt(N, i) = [pos |-> w.pos, seqs |-> w.seq, tok |-> M.d[i].tok]
    <3>1. At(N.c, i) = w
      BY <1>1 DEF Holds
    <3> HIDE DEF w
    <3> QED
      BY <1>1, <3>1, EntryFrom
  <2>5. w = IF Belongs(M.c, i, s, p0, p1)
            THEN IF p + d < 0 THEN Gone ELSE [pos |-> p + d, seq |-> q, shift |-> M.c.shift[i] + d]
            ELSE At(M.c, i)
    BY DEF AfterAdd
  <2>6. At(M.c, i) = [pos |-> p, seq |-> q, shift |-> M.c.shift[i]]
    BY DEF At
  <2> HIDE DEF a, e, w, q, p
  <2>7. CASE Belongs(M.c, i, s, p0, p1) /\ p + d < 0
    BY <2>1, <2>3, <2>4, <2>5, <2>7 DEF Gone
  <2>8. CASE Belongs(M.c, i, s, p0, p1) /\ ~(p + d < 0)
    <3>1. p + d >= 0 /\ p + d # -1
      BY <2>1, <2>8
    <3> QED
      BY <2>1, <2>3, <2>4, <2>5, <2>8, <3>1
  <2>9. CASE ~Belongs(M.c, i, s, p0, p1)
    BY <2>1, <2>3, <2>4, <2>5, <2>6, <2>9
  <2> QED
    BY <2>7, <2>8, <2>9
<1>4. ASSUME NEW i \in Cell, IsEmpty(M.c, i) PROVE IsEmpty(N.c, i)
  <2>1. ~Belongs(M.c, i, s, p0, p1)
    BY <1>4, RangeFull DEF Sound
  <2>2. At(N.c, i) = At(M.c, i)
    BY <1>1, <2>1 DEF Holds, AfterAdd
  <2> QED
    BY <1>4, <2>2 DEF At, IsEmpty
<1>5. Makes(M, N, G)
  BY <1>3, <1>4 DEF Makes
<1>6. EntriesOf(N) = Store!Live(X) /\ EntriesOf(N) \subseteq Store!Entry
  <2> HIDE DEF G
  <2> QED
    BY <1>1, <1>5, MadeEntries
<1> HIDE DEF X
<1> QED
  BY <1>2, <1>6 DEF N, X

LEMMA DivEntries ==
  ASSUME NEW M, Sound(M), EntriesOf(M) \subseteq Store!Entry,
         NEW s \in Seqs, NEW d \in Nat \ {0}, NEW p0 \in Int, NEW p1 \in Int
  PROVE  LET E == EntriesOf(SeqDiv(M, s, p0, p1, d)) IN
         /\ E = {IF s \in e.seqs /\ Store!In(e, p0, p1)
                THEN [e EXCEPT !.pos = @ \div d] ELSE e : e \in EntriesOf(M)}
         /\ E \subseteq Store!Entry
<1> DEFINE N == SeqDiv(M, s, p0, p1, d)
           G == [e \in EntriesOf(M) |-> IF s \in e.seqs /\ Store!In(e, p0, p1)
                THEN [e EXCEPT !.pos = @ \div d] ELSE e]
           X == Images(G, M)
<1>1. Sound(N) /\ N.d = M.d /\ Holds(N.c, AfterDiv(M.c, s, p0, p1, d))
  BY SeqDivDone
<1>2. {IF s \in e.seqs /\ Store!In(e, p0, p1)
                THEN [e EXCEPT !.pos = @ \div d] ELSE e : e \in EntriesOf(M)} = X
  BY DEF Images
<1> HIDE DEF N
<1>3. ASSUME NEW i \in Cell, ~IsEmpty(M.c, i)
      PROVE  LET e == G[EntryAt(M, i)] IN
             /\ e.tok = EntryAt(M, i).tok /\ e.seqs # {} /\ e.pos >= 0
             /\ IF e.seqs # {} /\ e.pos >= 0 THEN ~IsEmpty(N.c, i) /\ EntryAt(N, i) = e
                ELSE IsEmpty(N.c, i)
  <2> DEFINE a == EntryAt(M, i)
             e == G[a]
             w == AfterDiv(M.c, s, p0, p1, d)[i]
             q == M.c.seq[i]
             p == M.c.pos[i]
  <2> SUFFICES /\ e.tok = a.tok /\ e.seqs # {} /\ e.pos >= 0
               /\ IF e.seqs # {} /\ e.pos >= 0 THEN ~IsEmpty(N.c, i) /\ EntryAt(N, i) = e
                  ELSE IsEmpty(N.c, i)
    OBVIOUS
  <2>1. /\ a \in EntriesOf(M) /\ a = [pos |-> p, seqs |-> q, tok |-> M.d[i].tok]
        /\ q # {} /\ q \in SUBSET Seqs /\ p \in Nat
    BY <1>3, EntryIs
  <2>2. Belongs(M.c, i, s, p0, p1) <=> (s \in q /\ Store!In(a, p0, p1))
    <3>1. InRange(M.c, i, p0, p1) = Store!In(a, p0, p1)
      BY <1>3, RangeIs
    <3> QED
      BY <3>1 DEF Belongs
  <2>12. e = IF s \in a.seqs /\ Store!In(a, p0, p1) THEN [a EXCEPT !.pos = @ \div d] ELSE a
    BY <2>1
  <2>3. e = IF Belongs(M.c, i, s, p0, p1) THEN [pos |-> p \div d, seqs |-> q, tok |-> M.d[i].tok] ELSE a
    <3> HIDE DEF a, e, p, q
    <3>1. [a EXCEPT !.pos = @ \div d] = [pos |-> p \div d, seqs |-> q, tok |-> M.d[i].tok] /\ a.seqs = q
      BY <2>1
    <3>2. CASE Belongs(M.c, i, s, p0, p1)
      BY <2>2, <2>12, <3>1, <3>2
    <3>3. CASE ~Belongs(M.c, i, s, p0, p1)
      BY <2>2, <2>12, <3>1, <3>3
    <3> QED
      BY <3>2, <3>3
  <2>4. /\ IsEmpty(N.c, i) <=> w.pos = -1
        /\ EntryAt(N, i) = [pos |-> w.pos, seqs |-> w.seq, tok |-> M.d[i].tok]
    <3>1. At(N.c, i) = w
      BY <1>1 DEF Holds
    <3> HIDE DEF w
    <3> QED
      BY <1>1, <3>1, EntryFrom
  <2>5. w = IF Belongs(M.c, i, s, p0, p1)
            THEN [pos |-> p \div d, seq |-> q, shift |-> M.c.shift[i] + p - p \div d]
            ELSE At(M.c, i)
    BY DEF AfterDiv
  <2>6. At(M.c, i) = [pos |-> p, seq |-> q, shift |-> M.c.shift[i]]
    BY DEF At
  <2>7. p \div d >= 0 /\ p \div d # -1 /\ p >= 0 /\ p # -1
    <3>1. p \in Pos
      BY <1>3, GoodTyped DEF Sound, IsEmpty
    <3>2. p \div d \in Pos
      BY <3>1, Quotient
    <3> HIDE DEF p
    <3> QED
      BY <3>1, <3>2, PosTyped
  <2> HIDE DEF a, e, w, q, p
  <2>8. CASE Belongs(M.c, i, s, p0, p1)
    BY <2>1, <2>3, <2>4, <2>5, <2>7, <2>8
  <2>9. CASE ~Belongs(M.c, i, s, p0, p1)
    BY <2>1, <2>3, <2>4, <2>5, <2>6, <2>7, <2>9
  <2> QED
    BY <2>8, <2>9
<1>4. ASSUME NEW i \in Cell, IsEmpty(M.c, i) PROVE IsEmpty(N.c, i)
  <2>1. ~Belongs(M.c, i, s, p0, p1)
    BY <1>4, RangeFull DEF Sound
  <2>2. At(N.c, i) = At(M.c, i)
    BY <1>1, <2>1 DEF Holds, AfterDiv
  <2> QED
    BY <1>4, <2>2 DEF At, IsEmpty
<1>5. Makes(M, N, G)
  BY <1>3, <1>4 DEF Makes
<1>6. EntriesOf(N) = Store!Live(X) /\ EntriesOf(N) \subseteq Store!Entry
  <2> HIDE DEF G
  <2> QED
    BY <1>1, <1>5, MadeEntries
<1>7. Store!Live(X) = X
  <2>1. ASSUME NEW f \in X PROVE f.seqs # {} /\ f.pos >= 0
    <3>1. PICK e \in EntriesOf(M) : f = G[e]
      BY <2>1 DEF Images
    <3>2. PICK i \in Cell : ~IsEmpty(M.c, i) /\ e = EntryAt(M, i)
      BY <3>1, EntriesAre
    <3> HIDE DEF G, X
    <3> QED
      BY <1>3, <3>1, <3>2
  <2> HIDE DEF X
  <2> QED
    BY <2>1 DEF Store!Live
<1> HIDE DEF X
<1> QED
  BY <1>2, <1>6, <1>7 DEF N, X

-----------------------------------------------------------------------------
(* The user's operations are those of KVStore.                             *)

LEMMA ClearEntries ==
  ASSUME NEW M, Sound(M)
  PROVE  EntriesOf([M EXCEPT !.c = NoCells, !.h = 0]) = {}
<1> DEFINE N == [M EXCEPT !.c = NoCells, !.h = 0]
<1>1. N.c = NoCells
  <2>1. \A C, h : [M EXCEPT !.c = C, !.h = h] = [c |-> C, h |-> h, d |-> M.d]
    BY SoundWith
  <2>2. N = [c |-> NoCells, h |-> 0, d |-> M.d]
    BY <2>1
  <2> QED
    BY <2>2
<1> HIDE DEF N
<1>2. \A i \in Cell : IsEmpty(N.c, i)
  BY <1>1 DEF IsEmpty, NoCells
<1>3. \A e : e \notin EntriesOf(N)
  BY <1>2, EntriesAre
<1> QED
  BY <1>3 DEF N

LEMMA UserStores ==
  ASSUME Sound(Cache), Entries \subseteq Store!Entry, "defrag" \notin MayFail, UserNext
  PROVE  (Store!Next \/ Entries' = Entries) /\ Entries' \subseteq Store!Entry
<1>0. /\ \A r \in Ranges : r[1] \in Int /\ r[2] \in Int
      /\ \A d \in Shifts : d \in Int
      /\ Entries = EntriesOf(Cache) /\ EntriesOf(Cache) \subseteq Store!Entry
  BY CacheAssumption, EntriesNow
<1>1. CASE Clear
  <2>1. Entries' = {}
    BY <1>1, ClearEntries, EntriesNext DEF Clear
  <2> QED
    BY <2>1 DEF Store!Next, Store!Clear
<1>2. CASE DefragNow
  <2>1. PICK u \in Update(Cache, TRUE) : u.did /\ Becomes(u.m)
    BY <1>2 DEF DefragNow
  <2>2. EntriesOf(u.m) = EntriesOf(Cache)
    BY UpdateDone
  <2>3. Entries' = EntriesOf(u.m)
    BY <2>1, EntriesNext
  <2> QED
    BY <1>0, <2>2, <2>3
<1>3. ASSUME NEW s \in Seqs, Keep(s)
      PROVE  (Store!Next \/ Entries' = Entries) /\ Entries' \subseteq Store!Entry
  <2>1. Entries' = EntriesOf(SeqKeep(Cache, s))
    BY <1>3, EntriesNext DEF Keep
  <2>2. /\ Entries' = Store!Live({[e EXCEPT !.seqs = @ \intersect {s}] : e \in Entries})
        /\ Entries' \subseteq Store!Entry
    BY <1>0, <2>1, KeepEntries
  <2>3. Store!Keep(s)
    BY <2>2 DEF Store!Keep
  <2> QED
    BY <2>2, <2>3 DEF Store!Next
<1>4. ASSUME NEW r \in Ranges, NEW s \in Seqs \union {-1}, RemoveTokens(s, r[1], r[2])
      PROVE  (Store!Next \/ Entries' = Entries) /\ Entries' \subseteq Store!Entry
  <2> DEFINE p0 == r[1]
             p1 == r[2]
  <2>0. Meant(s) \in SUBSET Seqs /\ p0 \in Int /\ p1 \in Int
    BY <1>0 DEF Meant
  <2>1. Entries' = EntriesOf(SeqRm(Cache, s, p0, p1))
    BY <1>4, EntriesNext DEF RemoveTokens
  <2> HIDE DEF p0, p1
  <2>2. LET E == EntriesOf(SeqRm(Cache, s, p0, p1)) IN
        /\ E = Store!Live({IF Store!In(e, p0, p1) THEN [e EXCEPT !.seqs = @ \ Meant(s)] ELSE e : e \in EntriesOf(Cache)})
        /\ E \subseteq Store!Entry
    BY <1>0, <2>0, RemoveEntries
  <2>3. Store!Remove(Meant(s), p0, p1)
    BY <1>0, <2>1, <2>2 DEF Store!Remove
  <2>4. Store!Next
    BY <2>0, <2>3 DEF Store!Next, p0, p1
  <2> QED
    BY <2>1, <2>2, <2>4
<1>5. ASSUME NEW r \in Ranges, NEW s \in Seqs, NEW d \in Seqs, Copy(s, d, r[1], r[2])
      PROVE  (Store!Next \/ Entries' = Entries) /\ Entries' \subseteq Store!Entry
  <2> DEFINE p0 == r[1]
             p1 == r[2]
  <2>0. p0 \in Int /\ p1 \in Int
    BY <1>0
  <2>1. \A i \in Cell : Belongs(Cache.c, i, s, p0, p1) => d \notin Cache.c.seq[i]
    BY <1>5, CacheIs DEF Copy
  <2>2. Entries' = EntriesOf(SeqCp(Cache, s, d, p0, p1))
    BY <1>5, EntriesNext DEF Copy
  <2> HIDE DEF p0, p1
  <2>3. LET E == EntriesOf(SeqCp(Cache, s, d, p0, p1)) IN
        /\ E = {IF s \in e.seqs /\ Store!In(e, p0, p1)
                THEN [e EXCEPT !.seqs = @ \union {d}] ELSE e : e \in EntriesOf(Cache)}
        /\ E \subseteq Store!Entry
    BY <1>0, <2>0, <2>1, CopyEntries
  <2>4. Store!Copy(s, d, p0, p1)
    BY <1>0, <2>2, <2>3 DEF Store!Copy
  <2>5. Store!Next
    BY <2>4 DEF Store!Next, p0, p1
  <2> QED
    BY <2>2, <2>3, <2>5
<1>6. ASSUME NEW r \in Ranges, NEW s \in Seqs, NEW d \in Shifts, Add(s, r[1], r[2], d)
      PROVE  (Store!Next \/ Entries' = Entries) /\ Entries' \subseteq Store!Entry
  <2> DEFINE p0 == r[1]
             p1 == r[2]
  <2>0. p0 \in Int /\ p1 \in Int /\ d \in Int
    BY <1>0
  <2>1. \A i \in Cell : Belongs(Cache.c, i, s, p0, p1) => Cache.c.pos[i] + d <= MaxPos
    BY <1>6, CacheIs DEF Add
  <2>2. Entries' = EntriesOf(SeqAdd(Cache, s, p0, p1, d))
    BY <1>6, EntriesNext DEF Add
  <2> HIDE DEF p0, p1
  <2>3. LET E == EntriesOf(SeqAdd(Cache, s, p0, p1, d)) IN
        /\ E = Store!Live({IF s \in e.seqs /\ Store!In(e, p0, p1)
                           THEN [e EXCEPT !.pos = @ + d] ELSE e : e \in EntriesOf(Cache)})
        /\ E \subseteq Store!Entry
    BY <1>0, <2>0, <2>1, AddEntries
  <2>4. Store!Add(s, p0, p1, d)
    BY <1>0, <2>2, <2>3 DEF Store!Add
  <2>5. Store!Next
    BY <2>4 DEF Store!Next, p0, p1
  <2> QED
    BY <2>2, <2>3, <2>5
<1>7. ASSUME NEW r \in Ranges, NEW s \in Seqs, Div(s, r[1], r[2], 2)
      PROVE  (Store!Next \/ Entries' = Entries) /\ Entries' \subseteq Store!Entry
  <2> DEFINE p0 == r[1]
             p1 == r[2]
             d == 2
  <2>0. p0 \in Int /\ p1 \in Int /\ d \in Nat \ {0}
    BY <1>0
  <2>2. Entries' = EntriesOf(SeqDiv(Cache, s, p0, p1, d))
    BY <1>7, EntriesNext DEF Div
  <2> HIDE DEF p0, p1, d
  <2>3. LET E == EntriesOf(SeqDiv(Cache, s, p0, p1, d)) IN
        /\ E = {IF s \in e.seqs /\ Store!In(e, p0, p1)
                THEN [e EXCEPT !.pos = @ \div d] ELSE e : e \in EntriesOf(Cache)}
        /\ E \subseteq Store!Entry
    BY <1>0, <2>0, DivEntries
  <2>4. Store!Div(s, p0, p1, d)
    BY <1>0, <2>2, <2>3 DEF Store!Div
  <2>5. Store!Next
    BY <2>4 DEF Store!Next, p0, p1, d
  <2> QED
    BY <2>2, <2>3, <2>5
<1> QED
  BY <1>1, <1>2, <1>3, <1>4, <1>5, <1>6, <1>7 DEF UserNext

-----------------------------------------------------------------------------
(* A decode implements KVStore's, too.                                     *)

\* What the ubatches of a decode may rely on until they are computed: their
\* slots are free, they come after the entries of their sequences, and those
\* of a later ubatch after those of an earlier one.
Later(E, ubs) ==
    \A j \in 1 .. Len(ubs) : \A k \in 1 .. Len(ubs[j]) : \A e \in E :
      ubs[j][k].seqs[1] \in e.seqs => e.pos < ubs[j][k].pos
InProgress(M, c) ==
    /\ SlotsFree(M.c, c.ubs, c.heads, Len(c.ubs))
    /\ Later(EntriesOf(M), c.ubs) /\ Ordered(c.ubs)

\* A token in the cache is counted, so it is not above the greatest position of
\* a sequence that it is in.
LEMMA BelowMax ==
  ASSUME NEW C, Good(C), NEW i \in Cell, NEW s \in C.seq[i]
  PROVE  s \in Seqs /\ C.pos[i] \in Pos /\ C.pos[i] <= SeqPosMax(C, s)
<1> DEFINE p == C.pos[i]
           H == Holding(C, s, p)
<1>1. s \in Seqs /\ p \in Pos
  <2>1. C.seq[i] \in SUBSET Seqs /\ p \in Pos \union {-1} /\ (p = -1 => C.seq[i] = {})
    BY GoodTyped
  <2> QED
    BY <2>1
<1>2. i \in H /\ IsFiniteSet(H)
  <2>1. H \subseteq Cell /\ IsFiniteSet(Cell)
    BY FS_Interval, PosTyped DEF Holding, Cell
  <2> QED
    BY <2>1, FS_Subset DEF Holding
<1>3. Cardinality(H) \in Nat /\ Cardinality(H) # 0
  BY <1>2, FS_CardinalityType, FS_EmptySet
<1>4. C.seq_pos[s][p] = Cardinality(H)
  BY <1>1 DEF Good, CountsOK
<1> HIDE DEF H
<1>5. p \in Present(C, s)
  BY <1>1, <1>3, <1>4 DEF Present
<1> QED
  BY <1>1, <1>5, SeqPosTyped

LEMMA SplitLater ==
  ASSUME NEW M, Sound(M), NEW input \in Inputs, NEW batch \in Batches(cells, input),
         \A i \in DOMAIN batch : batch[i].pos <= MaxPos, BatchOK(M.c, batch)
  PROVE  Later(EntriesOf(M), SplitSimple(batch))
<1> DEFINE ubs == SplitSimple(batch)
<1>1. /\ \A j \in 1 .. Len(ubs) : \A k \in 1 .. Len(ubs[j]) :
           \E i \in DOMAIN batch : ubs[j][k] = batch[i]
      /\ BatchTyped(batch) /\ DOMAIN batch = 1 .. Len(batch)
  BY BatchSplit, BatchesTyped
<1> HIDE DEF ubs
<1>2. SUFFICES ASSUME NEW j \in 1 .. Len(ubs), NEW k \in 1 .. Len(ubs[j]), NEW e \in EntriesOf(M),
                      ubs[j][k].seqs[1] \in e.seqs
               PROVE  e.pos < ubs[j][k].pos
  BY DEF Later, ubs
<1>3. PICK n \in DOMAIN batch : ubs[j][k] = batch[n]
  BY <1>1
<1> DEFINE t == batch[n]
           s == t.seqs[1]
           Of == {i \in DOMAIN batch : s \in Range(batch[i].seqs)}
           P == {batch[i].pos : i \in Of}
<1>4. \A i \in DOMAIN batch : batch[i] \in Tokened
  BY <1>1 DEF BatchTyped
<1>5. s \in Range(t.seqs)
  <2>1. t.seqs \in Seq(Seqs) /\ t.seqs # <<>>
    BY <1>4 DEF Tokened
  <2>2. 1 \in DOMAIN t.seqs
    BY <2>1
  <2> QED
    BY <2>2 DEF Range
<1>6. P \in SUBSET Nat /\ t.pos \in P
  <2>1. \A i \in DOMAIN batch : batch[i].pos \in Nat
    BY <1>4, PosTyped DEF Tokened
  <2> QED
    BY <1>5, <2>1
<1>7. PICK c \in Cell : ~IsEmpty(M.c, c) /\ e = EntryAt(M, c)
  BY EntriesAre
<1>8. s \in M.c.seq[c] /\ e.pos = M.c.pos[c]
  BY <1>2, <1>3, <1>7 DEF EntryAt
<1>9. s \in Seqs /\ M.c.pos[c] \in Pos /\ M.c.pos[c] <= SeqPosMax(M.c, s)
  BY <1>8, BelowMax DEF Sound
<1>10. (P # {} /\ SeqPosMax(M.c, s) >= 0) => Min(P) = SeqPosMax(M.c, s) + 1
  BY <1>9 DEF BatchOK
<1> HIDE DEF P, s
<1>11. Min(P) \in Nat /\ Min(P) <= t.pos /\ t.pos \in Nat
  BY <1>6, MinNat
<1>12. SeqPosMax(M.c, s) \in Int /\ M.c.pos[c] \in Nat
  <2>1. SeqPosMax(M.c, s) \in Pos \union {-1}
    BY SeqPosTyped
  <2>2. (\A x \in Pos \union {-1} : x \in Int) /\ \A x \in Pos : x \in Nat
    BY PosTyped
  <2> QED
    BY <1>9, <2>1, <2>2
<1> QED
  BY <1>3, <1>6, <1>8, <1>9, <1>10, <1>11, <1>12

\* What is stored in a free slot is all there, and nothing else changes.
LEMMA RowsFree ==
  ASSUME NEW M, Sound(M), NEW h \in Nat, NEW ub \in Ubatches, h + Len(ub) <= NCells, NEW new,
         \A i \in Cell : InSlot(h, ub, i) => new[i] \in Row /\ IsEmpty(M.c, i)
  PROVE  LET N == WithRows(Apply(M, h, ub), h, ub, new) IN
         /\ Sound(N)
         /\ \A i \in Cell : InSlot(h, ub, i) =>
              /\ i - h + 1 \in 1 .. Len(ub) /\ ~IsEmpty(N.c, i)
              /\ At(N.c, i) = Stored(ub[i - h + 1]) /\ N.d[i] = new[i]
         /\ \A i \in Cell : ~InSlot(h, ub, i) => At(N.c, i) = At(M.c, i) /\ N.d[i] = M.d[i]
<1> DEFINE A == Apply(M, h, ub)
           N == WithRows(A, h, ub, new)
<1>1. UbatchOK(ub)
  BY UbatchIs
<1>2. \A i \in Cell : /\ At(A.c, i) = IF InSlot(h, ub, i) THEN Stored(ub[i - h + 1]) ELSE At(M.c, i)
                      /\ InSlot(h, ub, i) => i - h + 1 \in 1 .. Len(ub) /\ ~IsEmpty(A.c, i)
  BY <1>1, ApplyFree
<1>3. Sound(A)
  BY <1>1, ApplyDone
<1>4. /\ Sound(N)
      /\ \A i \in Cell : InSlot(h, ub, i) => N.d[i] = new[i]
      /\ \A i \in Cell : ~InSlot(h, ub, i) => N.d[i] = M.d[i]
  <2>1. \A i \in Cell : InSlot(h, ub, i) => new[i] \in Row
    OBVIOUS
  <2>2. /\ Sound(N)
        /\ \A i \in Cell : InSlot(h, ub, i) => N.d[i] = new[i]
        /\ \A i \in Cell : ~InSlot(h, ub, i) => N.d[i] = M.d[i]
        /\ \A i \in Cell : ~InSlot(h, ub, i) => Less(M.c, N.c, i)
        /\ \A i \in Cell : InSlot(h, ub, i) /\ ~IsEmpty(N.c, i) =>
             /\ i - h + 1 \in 1 .. Len(ub) /\ N.c.pos[i] = ub[i - h + 1].pos /\ N.c.shift[i] = 0
             /\ N.c.seq[i] \subseteq Range(ub[i - h + 1].seqs) /\ N.c.seq[i] # {}
    BY <2>1, WithRowsDone
  <2> QED
    BY <2>2, Zenon
<1> HIDE DEF A
<1>5. N.c = A.c
  <2>1. \A d : [A EXCEPT !.d = d].c = A.c
    BY <1>3, SoundWith
  <2> QED
    BY <2>1 DEF WithRows
<1> HIDE DEF N
<1> QED
  BY <1>2, <1>4, <1>5 DEF IsEmpty, N, A

\* The entry of a token.
EntryOf(t) == [pos |-> t.pos, seqs |-> Range(t.seqs), tok |-> t.tok]

LEMMA ComputeEntries ==
  ASSUME NEW M, Sound(M), NEW h \in Nat, NEW ub \in Ubatches, h + Len(ub) <= NCells,
         \A i \in Cell : InSlot(h, ub, i) => IsEmpty(M.c, i)
  PROVE  LET N == WithRows(Apply(M, h, ub), h, ub, Computed(h, ub)) IN
         /\ EntriesOf(M) \subseteq EntriesOf(N)
         /\ \A e \in EntriesOf(N) \ EntriesOf(M) : \E k \in 1 .. Len(ub) : e = EntryOf(ub[k])
         /\ \A i \in Cell : ~InSlot(h, ub, i) => IsEmpty(N.c, i) = IsEmpty(M.c, i)
<1> DEFINE new == Computed(h, ub)
           N == WithRows(Apply(M, h, ub), h, ub, new)
<1>1. ASSUME NEW i \in Cell, InSlot(h, ub, i) PROVE new[i] \in Row /\ new[i].tok = ub[i - h + 1].tok
  <2> DEFINE k == i - h + 1
  <2>1. Len(ub) \in Nat /\ UbatchOK(ub)
    BY UbatchIs DEF UbatchOK
  <2>2. k \in 1 .. Len(ub)
    BY <1>1, <2>1, PosTyped DEF InSlot
  <2>3. new[i] = [tok |-> ub[k].tok, rope |-> ub[k].pos]
    BY DEF Computed
  <2> HIDE DEF k, new
  <2>4. ub[k].tok \in Tokens /\ ub[k].pos \in Pos
    BY <2>1, <2>2 DEF UbatchOK, TokenOK
  <2>5. ub[k].pos \in Int
    <3>1. \A x \in Pos : x \in Int
      BY PosTyped
    <3> QED
      BY <2>4, <3>1
  <2> QED
    BY <2>3, <2>4, <2>5 DEF Row, k
<1> HIDE DEF new
<1>2. /\ \A i \in Cell : InSlot(h, ub, i) =>
           /\ i - h + 1 \in 1 .. Len(ub) /\ ~IsEmpty(N.c, i)
           /\ At(N.c, i) = Stored(ub[i - h + 1]) /\ N.d[i] = new[i]
      /\ \A i \in Cell : ~InSlot(h, ub, i) => At(N.c, i) = At(M.c, i) /\ N.d[i] = M.d[i]
  <2>1. \A i \in Cell : InSlot(h, ub, i) => new[i] \in Row /\ IsEmpty(M.c, i)
    BY <1>1
  <2> QED
    BY <2>1, RowsFree
<1> HIDE DEF N
<1>3. \A i \in Cell : ~InSlot(h, ub, i) =>
        IsEmpty(N.c, i) = IsEmpty(M.c, i) /\ EntryAt(N, i) = EntryAt(M, i)
  BY <1>2 DEF At, IsEmpty, EntryAt
<1>4. \A i \in Cell : InSlot(h, ub, i) =>
        i - h + 1 \in 1 .. Len(ub) /\ EntryAt(N, i) = EntryOf(ub[i - h + 1])
  BY <1>1, <1>2 DEF At, Stored, EntryAt, EntryOf
<1>5. ASSUME NEW e \in EntriesOf(M) PROVE e \in EntriesOf(N)
  <2>1. PICK i \in Cell : ~IsEmpty(M.c, i) /\ e = EntryAt(M, i)
    BY EntriesAre
  <2>2. ~IsEmpty(N.c, i) /\ e = EntryAt(N, i)
    BY <1>3, <2>1
  <2> QED
    BY <2>2, EntriesAre
<1>6. ASSUME NEW e \in EntriesOf(N) \ EntriesOf(M) PROVE \E k \in 1 .. Len(ub) : e = EntryOf(ub[k])
  <2>1. PICK i \in Cell : ~IsEmpty(N.c, i) /\ e = EntryAt(N, i)
    BY EntriesAre
  <2>2. CASE ~InSlot(h, ub, i)
    BY <1>3, <1>6, <2>1, <2>2, EntriesAre
  <2>3. CASE InSlot(h, ub, i)
    BY <1>4, <2>1, <2>3
  <2> QED
    BY <2>2, <2>3
<1> QED
  BY <1>3, <1>5, <1>6 DEF N, new

\* A ubatch that failed leaves what was there: what it stored is removed, and
\* what its sequences had before is not.
LEMMA FailsEntries ==
  ASSUME NEW M, Sound(M), NEW h \in Nat, NEW ub \in Ubatches, h + Len(ub) <= NCells,
         \A i \in Cell : InSlot(h, ub, i) => IsEmpty(M.c, i), Single(ub),
         \A k \in 1 .. Len(ub), e \in EntriesOf(M) : ub[k].seqs[1] \in e.seqs => e.pos < ub[k].pos
  PROVE  EntriesOf(RemoveFailed(WithRows(Apply(M, h, ub), h, ub, [i \in Cell |-> Junk]), ub))
           = EntriesOf(M)
<1> DEFINE new == [i \in Cell |-> Junk]
           B == WithRows(Apply(M, h, ub), h, ub, new)
           N == RemoveFailed(B, ub)
<1>1. \A i \in Cell : new[i] \in Row
  BY DEF Junk, Row
<1>2. \A i \in Cell : InSlot(h, ub, i) => IsEmpty(N.c, i)
  BY ComputeFailsDone
<1> HIDE DEF new
<1>3. /\ Sound(B)
      /\ \A i \in Cell : ~InSlot(h, ub, i) => At(B.c, i) = At(M.c, i) /\ B.d[i] = M.d[i]
  BY <1>1, RowsFree
<1> HIDE DEF B
<1>4. /\ N.d = B.d /\ \A i \in Cell : Less(B.c, N.c, i)
      /\ \A i \in Cell : Spared(B.c, ub, i) => At(N.c, i) = At(B.c, i)
  BY <1>3, RemoveFailedDone
<1> HIDE DEF N
<1>5. ASSUME NEW i \in Cell, ~InSlot(h, ub, i), ~IsEmpty(M.c, i)
      PROVE  At(N.c, i) = At(M.c, i)
  <2>1. EntryAt(M, i) \in EntriesOf(M)
    BY <1>5, EntriesAre
  <2>2. \A k \in 1 .. Len(ub) : ub[k].seqs[1] \in M.c.seq[i] => M.c.pos[i] < ub[k].pos
    BY <2>1 DEF EntryAt
  <2>3. \A s \in M.c.seq[i] : \A p \in FirstIn(ub, s) : M.c.pos[i] < p
    <3> SUFFICES ASSUME NEW s \in M.c.seq[i], NEW p \in FirstIn(ub, s) PROVE M.c.pos[i] < p
      OBVIOUS
    <3>1. PICK t \in Range(ub) : t.seqs[1] = s /\ p = t.pos
      BY DEF FirstIn
    <3>2. PICK k \in DOMAIN ub : t = ub[k]
      BY DEF Range
    <3>3. k \in 1 .. Len(ub)
      BY UbatchIs
    <3> QED
      BY <2>2, <3>1, <3>2, <3>3
  <2>4. M.c.pos[i] = B.c.pos[i] /\ M.c.seq[i] = B.c.seq[i]
    BY <1>3, <1>5 DEF At
  <2>5. Spared(B.c, ub, i)
    BY <2>3, <2>4 DEF Spared
  <2> QED
    BY <1>3, <1>4, <1>5, <2>5
<1>6. ASSUME NEW i \in Cell, ~InSlot(h, ub, i), IsEmpty(M.c, i)
      PROVE  IsEmpty(N.c, i)
  <2>1. B.c.pos[i] = -1 /\ Less(B.c, N.c, i)
    BY <1>3, <1>4, <1>6 DEF At, IsEmpty
  <2> QED
    BY <2>1 DEF Less, IsEmpty
<1>7. \A i \in Cell : /\ IsEmpty(N.c, i) = IsEmpty(M.c, i)
                      /\ ~IsEmpty(M.c, i) => EntryAt(N, i) = EntryAt(M, i)
  <2> SUFFICES ASSUME NEW i \in Cell
               PROVE  /\ IsEmpty(N.c, i) = IsEmpty(M.c, i)
                      /\ ~IsEmpty(M.c, i) => EntryAt(N, i) = EntryAt(M, i)
    OBVIOUS
  <2>1. CASE InSlot(h, ub, i)
    BY <1>2, <2>1 DEF N, B, new, IsEmpty
  <2>2. CASE ~InSlot(h, ub, i) /\ IsEmpty(M.c, i)
    BY <1>6, <2>2 DEF IsEmpty
  <2>3. CASE ~InSlot(h, ub, i) /\ ~IsEmpty(M.c, i)
    <3>1. At(N.c, i) = At(M.c, i) /\ N.d[i] = M.d[i]
      BY <1>3, <1>4, <1>5, <2>3
    <3> QED
      BY <2>3, <3>1 DEF At, IsEmpty, EntryAt
  <2> QED
    BY <2>1, <2>2, <2>3
<1>8. \A e : e \in EntriesOf(N) <=> e \in EntriesOf(M)
  BY <1>7, EntriesAre
<1> QED
  BY <1>8 DEF N, B, new

LEMMA ProgressIdle ==
  ASSUME NEW M
  PROVE  InProgress(M, Idle)
<1>1. Idle.ubs = <<>> /\ Len(<<>>) = 0 /\ 1 .. 0 = {}
  BY DEF Idle
<1> QED
  BY <1>1 DEF InProgress, SlotsFree, Later, Ordered

LEMMA ProgressNow ==
  ASSUME NEW c, Pending(c), c # Idle, NEW M, InProgress(M, c)
  PROVE  LET ub == Head(c.ubs)
             h == Head(c.heads) IN
         /\ \A i \in Cell : InSlot(h, ub, i) => IsEmpty(M.c, i)
         /\ \A k \in 1 .. Len(ub), e \in EntriesOf(M) : ub[k].seqs[1] \in e.seqs => e.pos < ub[k].pos
<1> DEFINE u == c.ubs
           g == c.heads
<1>1. Head(u) = u[1] /\ Head(g) = g[1] /\ 1 \in 1 .. Len(u)
  BY RestIs
<1>2. /\ \A j \in 1 .. Len(u) : \A i \in Cell : InSlot(g[j], u[j], i) => IsEmpty(M.c, i)
      /\ \A j \in 1 .. Len(u) : \A k \in 1 .. Len(u[j]) : \A e \in EntriesOf(M) :
           u[j][k].seqs[1] \in e.seqs => e.pos < u[j][k].pos
  BY DEF InProgress, SlotsFree, Later
<1> HIDE DEF u, g
<1> QED
  BY <1>1, <1>2 DEF u, g

\* The first ubatch has been computed: N has its tokens in its slot.
LEMMA ProgressRest ==
  ASSUME NEW c, Pending(c), c # Idle, NEW M, InProgress(M, c), NEW N,
         \A i \in Cell : ~InSlot(Head(c.heads), Head(c.ubs), i) => IsEmpty(N.c, i) = IsEmpty(M.c, i),
         \A e \in EntriesOf(N) \ EntriesOf(M) : \E k \in 1 .. Len(Head(c.ubs)) : e = EntryOf(Head(c.ubs)[k]),
         Single(Head(c.ubs))
  PROVE  InProgress(N, [ubs |-> Tail(c.ubs), heads |-> Tail(c.heads)])
<1> DEFINE u == c.ubs
           g == c.heads
           v == Tail(u)
           f == Tail(g)
<1>1. /\ Len(u) \in Nat /\ 1 \in 1 .. Len(u) /\ Head(u) = u[1] /\ Head(g) = g[1]
      /\ Len(v) = Len(u) - 1
      /\ \A k \in 1 .. Len(u) - 1 : v[k] = u[k + 1] /\ f[k] = g[k + 1] /\ k + 1 \in 1 .. Len(u)
  BY RestIs
<1>2. SlotsFree(M.c, u, g, Len(u)) /\ Later(EntriesOf(M), u) /\ Ordered(u)
  BY DEF InProgress
<1>3. /\ \A i \in Cell : ~InSlot(g[1], u[1], i) => IsEmpty(N.c, i) = IsEmpty(M.c, i)
      /\ \A e \in EntriesOf(N) \ EntriesOf(M) : \E k \in 1 .. Len(u[1]) : e = EntryOf(u[1][k])
      /\ Single(u[1])
  BY <1>1
<1> HIDE DEF u, g, v, f
<1>4. \A j \in 1 .. Len(v) : v[j] = u[j + 1] /\ f[j] = g[j + 1] /\ j + 1 \in 1 .. Len(u) /\ 1 < j + 1
  <2> SUFFICES ASSUME NEW j \in 1 .. Len(v)
               PROVE  v[j] = u[j + 1] /\ f[j] = g[j + 1] /\ j + 1 \in 1 .. Len(u) /\ 1 < j + 1
    OBVIOUS
  <2>1. j \in 1 .. Len(u) - 1 /\ 1 < j + 1
    BY <1>1
  <2> QED
    BY <1>1, <2>1
<1>5. SlotsFree(N.c, v, f, Len(v))
  <2>1. ASSUME NEW j \in 1 .. Len(v), NEW i \in Cell, InSlot(f[j], v[j], i) PROVE IsEmpty(N.c, i)
    <3>1. InSlot(g[j + 1], u[j + 1], i) /\ j + 1 \in 1 .. Len(u) /\ 1 < j + 1
      BY <1>4, <2>1
    <3>2. IsEmpty(M.c, i) /\ ~InSlot(g[1], u[1], i)
      BY <1>1, <1>2, <3>1 DEF SlotsFree
    <3> QED
      BY <1>3, <3>2
  <2>2. ASSUME NEW j \in 1 .. Len(v), NEW l \in 1 .. Len(v), j < l, NEW i \in Cell,
               InSlot(f[j], v[j], i), InSlot(f[l], v[l], i)
        PROVE  FALSE
    <3>1. /\ InSlot(g[j + 1], u[j + 1], i) /\ j + 1 \in 1 .. Len(u)
          /\ InSlot(g[l + 1], u[l + 1], i) /\ l + 1 \in 1 .. Len(u)
      BY <1>4, <2>2
    <3>2. j + 1 < l + 1
      BY <2>2
    <3> QED
      BY <1>2, <3>1, <3>2 DEF SlotsFree
  <2> QED
    BY <2>1, <2>2 DEF SlotsFree
<1>6. Later(EntriesOf(N), v)
  <2> SUFFICES ASSUME NEW j \in 1 .. Len(v), NEW k \in 1 .. Len(v[j]), NEW e \in EntriesOf(N),
                      v[j][k].seqs[1] \in e.seqs
               PROVE  e.pos < v[j][k].pos
    BY DEF Later
  <2>1. v[j] = u[j + 1] /\ j + 1 \in 1 .. Len(u) /\ 1 < j + 1
    BY <1>4
  <2>2. CASE e \in EntriesOf(M)
    BY <1>2, <2>1, <2>2 DEF Later
  <2>3. CASE e \notin EntriesOf(M)
    <3>1. PICK m \in 1 .. Len(u[1]) : e = EntryOf(u[1][m])
      BY <1>3, <2>3
    <3>2. e.seqs = {u[1][m].seqs[1]} /\ e.pos = u[1][m].pos
      BY <1>3, <3>1 DEF EntryOf, Single
    <3>3. u[1][m].seqs[1] = u[j + 1][k].seqs[1]
      BY <2>1, <3>2
    <3> QED
      BY <1>1, <1>2, <2>1, <3>2, <3>3 DEF Ordered
  <2> QED
    BY <2>2, <2>3
<1>7. Ordered(v)
  <2> SUFFICES ASSUME NEW j \in 1 .. Len(v), NEW l \in 1 .. Len(v), j < l,
                      NEW k \in 1 .. Len(v[j]), NEW m \in 1 .. Len(v[l]),
                      v[j][k].seqs[1] = v[l][m].seqs[1]
               PROVE  v[j][k].pos < v[l][m].pos
    BY DEF Ordered
  <2> DEFINE a == j + 1
             b == l + 1
  <2>1. v[j] = u[a] /\ a \in 1 .. Len(u) /\ v[l] = u[b] /\ b \in 1 .. Len(u) /\ a < b
    BY <1>4
  <2> HIDE DEF a, b
  <2>2. k \in 1 .. Len(u[a]) /\ m \in 1 .. Len(u[b]) /\ u[a][k].seqs[1] = u[b][m].seqs[1]
    BY <2>1
  <2>3. u[a][k].pos < u[b][m].pos
    BY <1>2, <2>1, <2>2 DEF Ordered
  <2> QED
    BY <2>1, <2>3
<1> QED
  BY <1>5, <1>6, <1>7 DEF InProgress, u, g, v, f

\* The caches and users for which the cache is the store its header describes.
\* With a window, tokens that are out of it are overwritten and purged; a
\* defragmentation that fails has moved cells and not their data; a token of two
\* sequences that failed stays in the second one.
Clean == SwaType = "none" /\ "defrag" \notin MayFail /\ OneSeq

LEMMA PreparedStores ==
  ASSUME Clean, Sound(Cache), NEW input \in Inputs, NEW batch \in Batches(cells, input),
         \A i \in DOMAIN batch : batch[i].pos <= MaxPos, DecodePrepared(batch)
  PROVE  Entries' = Entries /\ InProgress(Cache', ctx') /\ (ctx' # Idle => ret' = NoResult)
<1> DEFINE ubs == SplitSimple(batch)
           A == {M \in Caches : Sound(M) /\ EntriesOf(M) = EntriesOf(Cache)}
<1>1. UbatchesOK(ubs) /\ Ordered(ubs)
  BY BatchSplit DEF Clean
<1>2. Later(EntriesOf(Cache), ubs)
  <2>1. BatchOK(Cache.c, batch)
    BY CacheIs DEF DecodePrepared
  <2> QED
    BY <2>1, SplitLater
<1>u. ubs = SplitSimple(batch)
  OBVIOUS
<1> HIDE DEF ubs
<1>3. Cache \in A
  BY DEF Sound
<1>4. ASSUME NEW M \in A, NEW o \in BOOLEAN, NEW u \in Update(M, o) PROVE u.m \in A
  <2>1. Sound(u.m) /\ EntriesOf(u.m) = EntriesOf(M)
    BY UpdateDone DEF Clean
  <2> QED
    BY <2>1 DEF Sound
<1>5. ASSUME NEW M \in A
      PROVE  LET r == InitBatch(M, ubs) IN
             r.m \in A /\ (r.heads # <<>> => SlotsFree(r.m.c, ubs, r.heads, Len(ubs)))
  <2> DEFINE r == InitBatch(M, ubs)
  <2>1. /\ r.m.d = M.d /\ \A i \in Cell : At(r.m.c, i) = At(M.c, i)
        /\ r.heads # <<>> => SlotsFree(r.m.c, ubs, r.heads, Len(ubs))
    BY <1>1, InitBatchFree DEF Clean
  <2>2. Sound(r.m)
    BY <1>1, InitBatchDone DEF LeftOf
  <2> HIDE DEF r
  <2>3. EntriesOf(r.m) = EntriesOf(M)
    BY <2>1, SameEntries
  <2> QED
    BY <2>1, <2>2, <2>3 DEF Sound, r
<1>6. ASSUME NEW M \in A, Becomes(M) PROVE Entries' = Entries /\ Cache'.c = M.c
  <2>1. Entries' = EntriesOf(M) /\ Entries = EntriesOf(Cache) /\ EntriesOf(M) = EntriesOf(Cache)
    BY <1>6, EntriesNext, EntriesNow
  <2>2. Cache' = Forgets(M)
    BY <1>6, BecomesDone
  <2> QED
    BY <2>1, <2>2 DEF Forgets
<1> HIDE DEF A
<1>7. PICK M \in A : \/ Becomes(M) /\ Returns(1, batch)
                     \/ \E K \in A : LET r == InitBatch(K, ubs) IN
                          M = r.m /\ r.heads # <<>> /\ Found(r.m, ubs, r.heads)
  <2>1. A \in SUBSET A
    OBVIOUS
  <2> QED
    BY <1>3, <1>4, <1>5, <1>u, <2>1, PreparedIs
<1>8. CASE Becomes(M) /\ Returns(1, batch)
  <2>1. ctx' = Idle
    BY <1>8 DEF Returns
  <2> QED
    BY <1>6, <1>8, <2>1, ProgressIdle
<1>9. ASSUME NEW K \in A, M = InitBatch(K, ubs).m, InitBatch(K, ubs).heads # <<>>,
             Found(M, ubs, InitBatch(K, ubs).heads)
      PROVE  Entries' = Entries /\ InProgress(Cache', ctx') /\ (ctx' # Idle => ret' = NoResult)
  <2> DEFINE g == InitBatch(K, ubs).heads
  <2>1. SlotsFree(M.c, ubs, g, Len(ubs)) /\ Found(M, ubs, g)
    BY <1>5, <1>9
  <2> HIDE DEF g
  <2>2. Becomes(M) /\ ctx' = [ubs |-> ubs, heads |-> g] /\ ret' = NoResult
    BY <2>1 DEF Found
  <2>3. Entries' = Entries /\ Cache'.c = M.c
    BY <1>6, <2>2
  <2>4. EntriesOf(Cache') = EntriesOf(Cache)
    <3>1. Entries' = EntriesOf(Cache') /\ Entries = EntriesOf(Cache)
      BY EntriesNow DEF Entries, EntriesOf, EntryAt, Full, Cache
    <3> QED
      BY <2>3, <3>1
  <2>5. InProgress(Cache', [ubs |-> ubs, heads |-> g])
    BY <1>1, <1>2, <2>1, <2>3, <2>4 DEF InProgress
  <2> QED
    BY <2>2, <2>3, <2>5
<1> QED
  BY <1>7, <1>8, <1>9

LEMMA ComputeStores ==
  ASSUME Clean, Sound(Cache), Pending(ctx), InProgress(Cache, ctx), Entries \subseteq Store!Entry, Compute
  PROVE  Store!Append /\ Entries' \subseteq Store!Entry /\ InProgress(Cache', ctx')
<1> DEFINE ub == Head(ctx.ubs)
           h == Head(ctx.heads)
           c == [ubs |-> Tail(ctx.ubs), heads |-> Tail(ctx.heads)]
           N == WithRows(Apply(Cache, h, ub), h, ub, Computed(h, ub))
<1>1. ctx # Idle /\ ctx' = c /\ Becomes(N)
  <2>1. /\ ctx # Idle /\ ctx' = c
        /\ Becomes([Apply(Cache, h, ub) EXCEPT !.d =
                      [i \in Cell |-> IF i \in h .. h + Len(ub) - 1
                                      THEN [tok |-> ub[i - h + 1].tok, rope |-> ub[i - h + 1].pos]
                                      ELSE Apply(Cache, h, ub).d[i]]])
    BY DEF Compute
  <2>2. [i \in Cell |-> IF i \in h .. h + Len(ub) - 1
                        THEN [tok |-> ub[i - h + 1].tok, rope |-> ub[i - h + 1].pos]
                        ELSE Apply(Cache, h, ub).d[i]]
        = [i \in Cell |-> IF i \in h .. h + Len(ub) - 1 THEN Computed(h, ub)[i]
                          ELSE Apply(Cache, h, ub).d[i]]
    BY DEF Computed
  <2> QED
    BY <2>1, <2>2 DEF WithRows
<1>2. ub \in Ubatches /\ h \in 0 .. NCells /\ h + Len(ub) <= NCells /\ Single(ub)
  BY <1>1, PendingRest DEF Clean
<1>3. /\ \A i \in Cell : InSlot(h, ub, i) => IsEmpty(Cache.c, i)
      /\ \A k \in 1 .. Len(ub), e \in EntriesOf(Cache) : ub[k].seqs[1] \in e.seqs => e.pos < ub[k].pos
  BY <1>1, ProgressNow
<1>4. /\ EntriesOf(Cache) \subseteq EntriesOf(N)
      /\ \A e \in EntriesOf(N) \ EntriesOf(Cache) : \E k \in 1 .. Len(ub) : e = EntryOf(ub[k])
      /\ \A i \in Cell : ~InSlot(h, ub, i) => IsEmpty(N.c, i) = IsEmpty(Cache.c, i)
  <2>1. h \in Nat
    BY <1>2, PosTyped
  <2> QED
    BY <1>2, <1>3, <2>1, ComputeEntries
<1>5. InProgress(N, c)
  <2> HIDE DEF N
  <2> QED
    BY <1>1, <1>2, <1>4, ProgressRest
<1> HIDE DEF N, ub, h, c
<1>6. InProgress(Cache', ctx')
  <2>1. Cache' = Forgets(N)
    BY <1>1, BecomesDone
  <2>2. Cache'.c = N.c /\ EntriesOf(Cache') = EntriesOf(N)
    BY <2>1, ForgetsEntries DEF Forgets
  <2> QED
    BY <1>1, <1>5, <2>2 DEF InProgress
<1>7. Entries' = EntriesOf(N) /\ Entries = EntriesOf(Cache)
  BY <1>1, EntriesNext, EntriesNow
<1>8. ASSUME NEW e \in Entries' \ Entries
      PROVE  /\ e \in Store!Entry
             /\ \A f \in Entries : e.seqs \intersect f.seqs # {} => f.pos < e.pos
  <2>1. PICK k \in 1 .. Len(ub) : e = EntryOf(ub[k])
    BY <1>4, <1>7
  <2>2. e.seqs = {ub[k].seqs[1]} /\ e.pos = ub[k].pos /\ e.tok = ub[k].tok
    BY <1>2, <2>1 DEF EntryOf, Single
  <2>3. ub[k].tok \in Tokens /\ ub[k].pos \in Pos /\ ub[k].seqs[1] \in Seqs
    <3>1. TokenOK(ub[k])
      BY <1>2, UbatchIs DEF UbatchOK
    <3> DEFINE q == ub[k].seqs
    <3>2. q \in Seq(Seqs) /\ q # <<>>
      BY <3>1 DEF TokenOK
    <3> HIDE DEF q
    <3>3. q[1] \in Seqs
      BY <3>2
    <3> QED
      BY <3>1, <3>3 DEF TokenOK, q
  <2>4. e = [pos |-> ub[k].pos, seqs |-> {ub[k].seqs[1]}, tok |-> ub[k].tok]
    BY <2>1, <2>2 DEF EntryOf
  <2>5. e \in Store!Entry
    BY <2>3, <2>4 DEF Store!Entry, Pos
  <2>6. \A f \in Entries : e.seqs \intersect f.seqs # {} => f.pos < e.pos
    BY <1>3, <1>7, <2>2
  <2> QED
    BY <2>5, <2>6
<1>9. Entries' \subseteq Store!Entry
  BY <1>8
<1>10. Store!Append
  BY <1>4, <1>7, <1>8, <1>9 DEF Store!Append
<1> QED
  BY <1>6, <1>9, <1>10

LEMMA FailsStores ==
  ASSUME Clean, Sound(Cache), Pending(ctx), InProgress(Cache, ctx), ComputeFails
  PROVE  Entries' = Entries /\ ctx' = Idle
<1> DEFINE ub == Head(ctx.ubs)
           h == Head(ctx.heads)
           N == RemoveFailed(WithRows(Apply(Cache, h, ub), h, ub, [i \in Cell |-> Junk]), ub)
<1>1. ctx # Idle /\ ctx' = Idle /\ Becomes(N)
  <2>1. /\ ctx # Idle /\ ctx' = Idle
        /\ Becomes(RemoveFailed([Apply(Cache, h, ub) EXCEPT !.d =
                                   [i \in Cell |-> IF i \in h .. h + Len(ub) - 1 THEN Junk
                                                   ELSE Apply(Cache, h, ub).d[i]]], ub))
    BY DEF ComputeFails, Returns
  <2>2. [i \in Cell |-> IF i \in h .. h + Len(ub) - 1 THEN Junk ELSE Apply(Cache, h, ub).d[i]]
        = [i \in Cell |-> IF i \in h .. h + Len(ub) - 1 THEN [j \in Cell |-> Junk][i]
                          ELSE Apply(Cache, h, ub).d[i]]
    OBVIOUS
  <2> QED
    BY <2>1, <2>2 DEF WithRows
<1>2. ub \in Ubatches /\ h \in 0 .. NCells /\ h + Len(ub) <= NCells /\ Single(ub)
  BY <1>1, PendingRest DEF Clean
<1>3. /\ \A i \in Cell : InSlot(h, ub, i) => IsEmpty(Cache.c, i)
      /\ \A k \in 1 .. Len(ub), e \in EntriesOf(Cache) : ub[k].seqs[1] \in e.seqs => e.pos < ub[k].pos
  BY <1>1, ProgressNow
<1>4. EntriesOf(N) = EntriesOf(Cache)
  <2>1. h \in Nat
    BY <1>2, PosTyped
  <2> HIDE DEF ub, h
  <2> QED
    BY <1>2, <1>3, <2>1, FailsEntries
<1> HIDE DEF N
<1> QED
  BY <1>1, <1>4, EntriesNext, EntriesNow

\* What the cache must be for its next steps to be those of the store.
StoreInv ==
    /\ CacheInv /\ (ctx # Idle => ret = NoResult)
    /\ Entries \subseteq Store!Entry /\ InProgress(Cache, ctx)

LEMMA StoreInvInit == InitCache => StoreInv /\ Store!Init
<1> SUFFICES ASSUME InitCache PROVE StoreInv /\ Store!Init
  OBVIOUS
<1>1. CacheInv /\ ctx = Idle
  BY CacheInvInit DEF InitCache
<1>2. InProgress(Cache, ctx)
  BY <1>1, ProgressIdle
<1>3. Entries = {}
  BY DEF InitCache, InitCells, NoCells, Entries, Full, IsEmpty
<1> QED
  BY <1>1, <1>2, <1>3 DEF StoreInv, Store!Init

LEMMA UserReady ==
  ASSUME UserNext
  PROVE  ctx = Idle /\ ret = NoResult /\ ctx' = ctx /\ ret' = ret
  BY DEF UserNext, Clear, DefragNow, Keep, RemoveTokens, Copy, Add, Div, User, Ready

LEMMA StoreInvStep ==
  ASSUME Clean, StoreInv, [NextCache]_cacheVars
  PROVE  StoreInv' /\ (Store!Next \/ Entries' = Entries) /\ (ret'.code # 0 => Entries' = Entries)
<1>0. CacheInv' /\ Sound(Cache) /\ Pending(ctx)
  BY CacheInvStep DEF StoreInv, CacheInv
<1>1. SUFFICES /\ (ctx' # Idle => ret' = NoResult)
               /\ Entries' \subseteq Store!Entry /\ InProgress(Cache', ctx')
               /\ (Store!Next \/ Entries' = Entries) /\ (ret'.code # 0 => Entries' = Entries)
  BY <1>0 DEF StoreInv
<1>2. CASE UserNext
  <2>1. ctx' = Idle /\ ret' = NoResult
    BY <1>2, UserReady
  <2>2. (Store!Next \/ Entries' = Entries) /\ Entries' \subseteq Store!Entry
    BY <1>0, <1>2, UserStores DEF StoreInv, Clean
  <2>3. NoResult.code = 0
    BY DEF NoResult
  <2> QED
    BY <2>1, <2>2, <2>3, ProgressIdle
<1>3. CASE Decode
  <2>1. PICK input \in Inputs : \E batch \in Batches(cells, input) :
          /\ \A i \in DOMAIN batch : batch[i].pos <= MaxPos
          /\ DecodeRefused(batch) \/ DecodePrepared(batch)
    BY <1>3 DEF Decode
  <2>2. PICK batch \in Batches(cells, input) :
          /\ \A i \in DOMAIN batch : batch[i].pos <= MaxPos
          /\ DecodeRefused(batch) \/ DecodePrepared(batch)
    BY <2>1
  <2>3. CASE DecodeRefused(batch)
    <3>1. ctx' = Idle /\ Entries' = Entries
      BY <2>3 DEF DecodeRefused, Returns, Entries, Full
    <3> QED
      BY <3>1, ProgressIdle DEF StoreInv
  <2>4. CASE DecodePrepared(batch)
    <3>1. Entries' = Entries /\ InProgress(Cache', ctx') /\ (ctx' # Idle => ret' = NoResult)
      BY <1>0, <2>2, <2>4, PreparedStores
    <3> QED
      BY <3>1 DEF StoreInv
  <2> QED
    BY <2>2, <2>3, <2>4
<1>4. CASE Compute
  <2>1. Store!Append /\ Entries' \subseteq Store!Entry /\ InProgress(Cache', ctx')
    BY <1>0, <1>4, ComputeStores DEF StoreInv
  <2>2. ret' = NoResult /\ NoResult.code = 0
    BY <1>4 DEF Compute, StoreInv, NoResult
  <2> QED
    BY <2>1, <2>2 DEF Store!Next
<1>5. CASE ComputeFails
  <2>1. Entries' = Entries /\ ctx' = Idle
    BY <1>0, <1>5, FailsStores DEF StoreInv
  <2> QED
    BY <2>1, ProgressIdle DEF StoreInv
<1>6. CASE ReadResult \/ UNCHANGED cacheVars
  <2>1. /\ Cache' = Cache /\ ctx' = ctx /\ Entries' = Entries
        /\ ret' = ret \/ ret' = NoResult
    BY <1>6 DEF ReadResult, cacheVars, Cache, Entries, Full
  <2> QED
    BY <2>1 DEF StoreInv
<1> QED
  BY <1>2, <1>3, <1>4, <1>5, <1>6 DEF NextCache

\* To its user the cache is the set of tokens that KVStore describes, whatever
\* the number of cells, sequences and positions: each call has the effect that
\* llama.h gives it; an update, a defragmentation, the trial of slots and a
\* decode that fails have none; and what a decode computes is stored after the
\* tokens its sequences have, none of which it overwrites.
THEOREM CacheIsStore == Clean => (SpecCache => IsStore)
<1> SUFFICES ASSUME Clean PROVE SpecCache => IsStore
  OBVIOUS
<1>1. InitCache => StoreInv /\ Store!Init
  BY StoreInvInit
<1>2. StoreInv /\ [NextCache]_cacheVars => StoreInv' /\ [Store!Next]_Entries
  BY StoreInvStep
<1> QED
  BY <1>1, <1>2, PTL DEF SpecCache, IsStore, Store!Spec

\* Without a window, and where each token is of one sequence (of a shared one the
\* code removes the first sequence only) and callers count their positions up, as
\* Batches has it, a decode that returns an error (a refused batch, no slot, a
\* ubatch that could not be computed) leaves the tokens in the cache as they were,
\* but for the ubatches that were computed before.
THEOREM FailuresAreClean == Clean => (SpecCache => FailureIsClean)
<1> SUFFICES ASSUME Clean PROVE SpecCache => FailureIsClean
  OBVIOUS
<1>1. InitCache => StoreInv
  BY StoreInvInit
<1>2. StoreInv /\ [NextCache]_cacheVars => StoreInv' /\ [ret'.code # 0 => Entries' = Entries]_cacheVars
  BY StoreInvStep
<1> QED
  BY <1>1, <1>2, PTL DEF SpecCache, FailureIsClean

-----------------------------------------------------------------------------
(* A decode that finds no slot.                                            *)

\* A decode that returns 1 for a batch of one ubatch found no slot after an update
\* that defragments, and left the cache as that update did.
LEMMA PreparedRoom ==
  ASSUME MovesSuffice, CacheInv, NEW input \in Inputs, NEW batch \in Batches(cells, input),
         \A i \in DOMAIN batch : batch[i].pos <= MaxPos, DecodePrepared(batch)
  PROVE  \/ ret' = NoResult
         \/ ctx' = Idle /\ (ret'.n <= NUbatch => cells'.has_shift \/ Cardinality(cells'.used) + ret'.n > NCells)
<1> DEFINE ubs == SplitSimple(batch)
           n == Len(batch)
           Retried(v) == \E second \in {InitBatch(v.m, ubs)} :
                           \/ second.heads # <<>> /\ Found(second.m, ubs, second.heads)
                           \/ second.heads = <<>> /\ Becomes(second.m) /\ Returns(1, batch)
           Once(first) ==
             \/ first.heads # <<>> /\ Found(first.m, ubs, first.heads)
             \/ /\ first.heads = <<>>
                /\ \E v \in Update(first.m, TRUE) :
                     \/ ~v.did /\ Becomes(v.m) /\ Returns(1, batch)
                     \/ v.did /\ Retried(v)
           asked == "defrag" \in UserOps
           NoneFor(M) == \/ M.c.has_shift \/ Cardinality(M.c.used) + n > NCells
           Goal == \/ ret' = NoResult
                   \/ ctx' = Idle /\ (ret'.n <= NUbatch =>
                        cells'.has_shift \/ Cardinality(cells'.used) + ret'.n > NCells)
<1>1. BatchTyped(batch) /\ UbatchesOK(ubs) /\ n \in Nat
  <2>1. BatchTyped(batch)
    BY BatchesTyped
  <2>2. UbatchesOK(ubs)
    BY BatchSplit
  <2> QED
    BY <2>1, <2>2, CacheAssumption DEF BatchTyped
<1>2. n <= NUbatch => Len(ubs) = 1 /\ Len(ubs[1]) = n /\ UbatchOK(ubs[1])
  <2> SUFFICES ASSUME n <= NUbatch PROVE Len(ubs) = 1 /\ Len(ubs[1]) = n /\ UbatchOK(ubs[1])
    OBVIOUS
  <2>1. Len(ubs) = 1 /\ Len(ubs[1]) = n
    BY <1>1, SplitOne
  <2>2. UbatchOK(ubs[1])
    BY <1>1, <2>1 DEF UbatchesOK
  <2> QED
    BY <2>1, <2>2
<1>3. \E due \in {FALSE, asked} :
        \E u \in Update(Cache, due) : \E first \in {InitBatch(u.m, ubs)} : Once(first)
  BY DEF DecodePrepared
<1> HIDE DEF ubs, n
<1>4. ASSUME NEW M, Becomes(M), Returns(1, batch), n <= NUbatch => NoneFor(M) PROVE Goal
  <2>1. ctx' = Idle /\ ret'.n = n /\ cells' = M.c
    BY <1>4 DEF Becomes, Returns, n
  <2> QED
    BY <1>4, <2>1
<1>5. ASSUME NEW M, NEW h, Found(M, ubs, h) PROVE Goal
  BY <1>5 DEF Found
<1> HIDE DEF Goal
\* The state after the update, in which there is no slot.
<1>6. ASSUME NEW M, Sound(M), NEW v \in Update(M, TRUE), n <= NUbatch => FindSlot(v.m, n) = -1
      PROVE  n <= NUbatch => NoneFor(v.m)
  BY <1>1, <1>6, NoRoom
<1>7. ASSUME NEW M, Sound(M), InitBatch(M, ubs).heads = <<>>
      PROVE  n <= NUbatch => InitBatch(M, ubs).m = M /\ FindSlot(M, n) = -1
  BY <1>2, <1>7, InitNone
<1> HIDE DEF NoneFor
<1>8. ASSUME NEW M, Sound(M), Once(InitBatch(M, ubs)) PROVE Goal
  <2> DEFINE first == InitBatch(M, ubs)
  <2>1. Sound(first.m)
    BY <1>1, <1>8, InitBatchKeeps
  <2>2. CASE first.heads # <<>> /\ Found(first.m, ubs, first.heads)
    BY <1>5, <2>2
  <2>3. ASSUME first.heads = <<>>, NEW v \in Update(first.m, TRUE), ~v.did, Becomes(v.m), Returns(1, batch)
        PROVE  Goal
    <3>1. n <= NUbatch => first.m = M /\ FindSlot(M, n) = -1
      BY <1>7, <1>8, <2>3
    <3>2. v.m = first.m
      <4> HIDE DEF first
      <4>1. ~first.m.c.has_shift /\ DefragPrepare(first.m.c) = <<>> => v.m = first.m
        BY <2>3 DEF Update
      <4>2. v.did = (first.m.c.has_shift \/ DefragPrepare(first.m.c) # <<>>)
        BY <2>3 DEF Update
      <4> QED
        BY <2>3, <4>1, <4>2
    <3> HIDE DEF first
    <3>3. n <= NUbatch => FindSlot(v.m, n) = -1
      BY <3>1, <3>2
    <3>4. n <= NUbatch => NoneFor(v.m)
      BY <1>6, <2>1, <3>3
    <3> QED
      BY <1>4, <2>3, <3>4
  <2>4. ASSUME NEW v \in Update(first.m, TRUE), Retried(v) PROVE Goal
    <3> DEFINE second == InitBatch(v.m, ubs)
    <3>1. Sound(v.m)
      <4> HIDE DEF first
      <4> QED
        BY <2>1, UpdateDone
    <3>2. CASE second.heads # <<>> /\ Found(second.m, ubs, second.heads)
      BY <1>5, <3>2
    <3>3. CASE second.heads = <<>> /\ Becomes(second.m) /\ Returns(1, batch)
      <4>1. n <= NUbatch => second.m = v.m /\ FindSlot(v.m, n) = -1
        BY <1>7, <3>1, <3>3
      <4> HIDE DEF first, second
      <4>2. n <= NUbatch => NoneFor(v.m)
        BY <1>6, <2>1, <4>1
      <4>3. n <= NUbatch => NoneFor(second.m)
        BY <4>1, <4>2
      <4> QED
        BY <1>4, <3>3, <4>3
    <3> QED
      BY <2>4, <3>2, <3>3
  <2>5. \/ first.heads # <<>> /\ Found(first.m, ubs, first.heads)
        \/ /\ first.heads = <<>>
           /\ \E v \in Update(first.m, TRUE) :
                (~v.did /\ Becomes(v.m) /\ Returns(1, batch)) \/ Retried(v)
    BY <1>8
  <2> HIDE DEF first, Retried
  <2> QED
    BY <2>2, <2>3, <2>4, <2>5
<1> HIDE DEF Once
<1>9. PICK due \in {FALSE, asked} :
        \E u \in Update(Cache, due) : \E first \in {InitBatch(u.m, ubs)} : Once(first)
  BY <1>3
<1>10. PICK u \in Update(Cache, due) : \E first \in {InitBatch(u.m, ubs)} : Once(first)
  BY <1>9
<1>11. Sound(u.m)
  <2>1. due \in BOOLEAN
    <3>1. asked \in BOOLEAN
      OBVIOUS
    <3> HIDE DEF asked
    <3> QED
      BY <3>1
  <2> QED
    BY <2>1, UpdateDone DEF CacheInv
<1>12. Goal
  BY <1>8, <1>10, <1>11
<1> QED
  BY <1>12 DEF Goal

\* The result of a decode is read before the next call.
RoomInv == CacheInv /\ SlotIfItFits /\ (ret # NoResult => ctx = Idle)

LEMMA RoomInvStep ==
  ASSUME MovesSuffice, RoomInv, [NextCache]_cacheVars
  PROVE  RoomInv'
<1>0. CacheInv'
  BY CacheInvStep DEF RoomInv
<1>n. NoResult.code = 0
  BY DEF NoResult
<1>1. ASSUME ret' = NoResult PROVE RoomInv'
  BY <1>0, <1>1, <1>n DEF RoomInv, SlotIfItFits
<1>2. ASSUME ctx' = Idle, ret'.code # 1 PROVE RoomInv'
  BY <1>0, <1>2 DEF RoomInv, SlotIfItFits
<1>3. CASE UserNext
  <2>1. ret' = NoResult
    BY <1>3, UserReady
  <2> QED
    BY <1>1, <2>1
<1>4. CASE Decode
  <2>1. PICK input \in Inputs : \E batch \in Batches(cells, input) :
          /\ \A i \in DOMAIN batch : batch[i].pos <= MaxPos
          /\ DecodeRefused(batch) \/ DecodePrepared(batch)
    BY <1>4 DEF Decode
  <2>2. PICK batch \in Batches(cells, input) :
          /\ \A i \in DOMAIN batch : batch[i].pos <= MaxPos
          /\ DecodeRefused(batch) \/ DecodePrepared(batch)
    BY <2>1
  <2>3. CASE DecodeRefused(batch)
    BY <1>2, <2>3 DEF DecodeRefused, Returns
  <2>4. CASE DecodePrepared(batch)
    <3>1. \/ ret' = NoResult
          \/ ctx' = Idle /\ (ret'.n <= NUbatch =>
               cells'.has_shift \/ Cardinality(cells'.used) + ret'.n > NCells)
      BY <2>2, <2>4, PreparedRoom DEF RoomInv
    <3>2. CASE ctx' = Idle /\ (ret'.n <= NUbatch =>
               cells'.has_shift \/ Cardinality(cells'.used) + ret'.n > NCells)
      BY <1>0, <3>2 DEF RoomInv, SlotIfItFits
    <3> QED
      BY <1>1, <3>1, <3>2
  <2> QED
    BY <2>2, <2>3, <2>4
<1>5. CASE Compute
  <2>1. ctx # Idle /\ ret' = ret
    BY <1>5 DEF Compute
  <2> QED
    BY <1>1, <2>1 DEF RoomInv
<1>6. CASE ComputeFails
  BY <1>2, <1>6 DEF ComputeFails, Returns
<1>7. CASE ReadResult
  BY <1>1, <1>7 DEF ReadResult
<1>8. CASE UNCHANGED cacheVars
  BY <1>0, <1>8 DEF RoomInv, SlotIfItFits, cacheVars
<1> QED
  BY <1>3, <1>4, <1>5, <1>6, <1>7, <1>8 DEF NextCache

\* "Could not find a KV slot" is returned for a batch of one ubatch only if the
\* cache has fewer free cells than the batch has tokens, whatever the calls before
\* have done to it and whatever failed: the defragmentation before the second
\* attempt leaves no hole, unless it waits for a shift that failed.
THEOREM RoomIsFound == MovesSuffice => (SpecCache => []SlotIfItFits)
<1> SUFFICES ASSUME MovesSuffice PROVE SpecCache => []SlotIfItFits
  OBVIOUS
<1>1. InitCache => RoomInv
  <2> SUFFICES ASSUME InitCache PROVE RoomInv
    OBVIOUS
  <2>1. ret = NoResult /\ NoResult.code = 0
    BY DEF InitCache, NoResult
  <2> QED
    BY <2>1, CacheInvInit DEF RoomInv, SlotIfItFits
<1>2. RoomInv /\ [NextCache]_cacheVars => RoomInv'
  BY RoomInvStep
<1>3. RoomInv => SlotIfItFits
  BY DEF RoomInv
<1> QED
  BY <1>1, <1>2, <1>3, PTL DEF SpecCache

-----------------------------------------------------------------------------
(* A window, and batches of one ubatch.                                    *)

OneUbatch == NBatch <= NUbatch

\* The last position of sequence s that the decode in progress overwrites.
Behind(s) == Overwritten(Cache, ctx.heads[1], Len(ctx.ubs[1]), s)

\* What a decode in progress overwrites is behind the window, and what it adds
\* comes after all there is.
WindowInv ==
    /\ CacheInv
    /\ ctx # Idle =>
         /\ Len(ctx.ubs) = 1
         /\ \A s \in Seqs :
              /\ Behind(s) = -1 \/ IsMaskedSwa(Behind(s), SeqPosMax(cells, s) + 1)
              /\ \A p \in PosOf(ctx.ubs[1], s) : SeqPosMax(cells, s) < p

\* A sequence has no hole, now or when the decode in progress is over.
UnbrokenInv ==
    \A s \in Seqs :
      Unbroken(IF ctx = Idle THEN Present(cells, s)
               ELSE Above(cells, s, Behind(s)) \union PosOf(ctx.ubs[1], s))

\* A decode of one ubatch either finds no slot, and every sequence is as it was,
\* or has found one.
LEMMA PreparedWindow ==
  ASSUME CacheInv, OneUbatch, NEW input \in Inputs, NEW batch \in Batches(cells, input),
         \A i \in DOMAIN batch : batch[i].pos <= MaxPos, DecodePrepared(batch)
  PROVE  \/ ctx' = Idle /\ \A s \in Seqs : Present(cells', s) = Present(cells, s)
         \/ /\ ctx' # Idle /\ Len(ctx'.ubs) = 1
            /\ \A s \in Seqs :
                 /\ Behind(s)' \in Pos \union {-1}
                 /\ Behind(s)' = -1 \/ IsMaskedSwa(Behind(s)', SeqPosMax(cells', s) + 1)
                 /\ SeqPosMax(cells', s) = SeqPosMax(cells, s)
                 /\ Above(cells', s, Behind(s)') = Above(cells, s, Behind(s)')
                 /\ PosOf(ctx'.ubs[1], s) = PosOf(batch, s)
<1> DEFINE ubs == SplitSimple(batch)
           ub == ubs[1]
           A == {M \in Caches : Sound(M) /\ \A s \in Seqs : Present(M.c, s) = Present(cells, s)}
<1>1. BatchTyped(batch) /\ DOMAIN batch = 1 .. Len(batch)
  BY BatchesTyped
<1>2. Len(batch) \in Nat /\ Len(batch) <= NUbatch
  BY <1>1, CacheAssumption DEF BatchTyped, OneUbatch
<1>3. Len(ubs) = 1 /\ Len(ub) = Len(batch)
  BY <1>1, <1>2, SplitOne
<1>4. /\ ubs \in Seq(Ubatches) /\ UbatchesOK(ubs)
      /\ \A j \in 1 .. Len(ubs) : \A k \in 1 .. Len(ubs[j]) :
           ubs[j][k] = batch[(j - 1) * NUbatch + k]
  BY <1>1, SplitTyped
<1>u. ubs = SplitSimple(batch)
  OBVIOUS
<1> HIDE DEF ubs
<1>5. ub \in Ubatches /\ UbatchOK(ub) /\ DOMAIN ub = 1 .. Len(ub)
  <2>1. 1 \in 1 .. Len(ubs)
    BY <1>3
  <2>2. ub \in Ubatches
    BY <1>4, <2>1
  <2> QED
    BY <2>2, UbatchIs
<1>6. ASSUME NEW s \in Seqs PROVE PosOf(ub, s) = PosOf(batch, s)
  <2>1. \A k \in 1 .. Len(ub) : ub[k] = batch[k]
    <3>1. (1 - 1) * NUbatch = 0
      BY CacheAssumption
    <3>2. \A k \in 1 .. Len(ub) : ub[k] = batch[(1 - 1) * NUbatch + k]
      BY <1>3, <1>4
    <3>3. \A k \in 1 .. Len(ub) : 0 + k = k
      OBVIOUS
    <3> QED
      BY <3>1, <3>2, <3>3
  <2>2. DOMAIN ub = DOMAIN batch /\ \A k \in DOMAIN ub : ub[k] = batch[k]
    BY <1>1, <1>3, <1>5, <2>1
  <2> HIDE DEF ub
  <2> QED
    BY <2>2 DEF PosOf
<1> HIDE DEF ub
<1>7. Cache \in A
  BY CacheIs DEF CacheInv, Sound
<1>8. ASSUME NEW M \in A, NEW o \in BOOLEAN, NEW u \in Update(M, o) PROVE u.m \in A
  <2>1. Sound(u.m)
    BY UpdateDone
  <2>2. \A s \in Seqs : Present(u.m.c, s) = Present(M.c, s)
    BY UpdatePresent
  <2> QED
    BY <2>1, <2>2 DEF Sound
<1>9. ASSUME NEW M \in A, InitBatch(M, ubs).heads = <<>> PROVE InitBatch(M, ubs).m \in A
  <2>1. InitBatch(M, ubs).m = M
    BY <1>3, <1>5, <1>9, InitNone DEF ub
  <2> QED
    BY <2>1
<1>10. \/ \E M \in A : Becomes(M) /\ Returns(1, batch)
       \/ \E K \in A : LET r == InitBatch(K, ubs) IN
            r.heads # <<>> /\ Found(r.m, ubs, r.heads)
  <2>1. A \in SUBSET A
    OBVIOUS
  <2> HIDE DEF A
  <2> QED
    BY <1>7, <1>8, <1>9, <1>u, <2>1, PreparedBy
<1>11. ASSUME NEW M \in A, Becomes(M), Returns(1, batch)
       PROVE  ctx' = Idle /\ \A s \in Seqs : Present(cells', s) = Present(cells, s)
  BY <1>11 DEF Becomes, Returns
<1>12. ASSUME NEW K \in A, InitBatch(K, ubs).heads # <<>>,
              Found(InitBatch(K, ubs).m, ubs, InitBatch(K, ubs).heads)
       PROVE  /\ ctx' # Idle /\ Len(ctx'.ubs) = 1
              /\ \A s \in Seqs :
                   /\ Behind(s)' \in Pos \union {-1}
                   /\ Behind(s)' = -1 \/ IsMaskedSwa(Behind(s)', SeqPosMax(cells', s) + 1)
                   /\ SeqPosMax(cells', s) = SeqPosMax(cells, s)
                   /\ Above(cells', s, Behind(s)') = Above(cells, s, Behind(s)')
                   /\ PosOf(ctx'.ubs[1], s) = PosOf(batch, s)
  <2> DEFINE r == InitBatch(K, ubs)
             f == r.heads[1]
             M == r.m
             g == r.heads
  <2>1. r.heads = <<f>> /\ TriedOne(K, M, ub, f)
    BY <1>3, <1>5, <1>12, InitOne DEF ub
  <2>2. Becomes(M) /\ ctx' = [ubs |-> ubs, heads |-> g]
    BY <1>12 DEF Found
  <2>g. f = g[1]
    OBVIOUS
  <2> HIDE DEF r, f, M, g
  <2>3. cells' = M.c /\ ctx'.ubs = ubs /\ ctx'.heads[1] = f
    BY <2>2, <2>g DEF Becomes
  <2>4. ctx' # Idle
    <3>1. ubs # <<>>
      BY <1>3
    <3> QED
      BY <2>3, <3>1 DEF Idle
  <2>5. Sound(K) /\ \A s \in Seqs : Present(K.c, s) = Present(cells, s)
    OBVIOUS
  <2>6. ASSUME NEW s \in Seqs
        PROVE  /\ Behind(s)' \in Pos \union {-1}
               /\ Behind(s)' = -1 \/ IsMaskedSwa(Behind(s)', SeqPosMax(cells', s) + 1)
               /\ SeqPosMax(cells', s) = SeqPosMax(cells, s)
               /\ Above(cells', s, Behind(s)') = Above(cells, s, Behind(s)')
               /\ PosOf(ctx'.ubs[1], s) = PosOf(batch, s)
    <3> DEFINE o == Overwritten(M, f, Len(ub), s)
    <3>1. /\ o \in Pos \union {-1}
          /\ o = -1 \/ IsMaskedSwa(o, SeqPosMax(M.c, s) + 1)
          /\ SeqPosMax(M.c, s) = SeqPosMax(K.c, s)
          /\ Above(M.c, s, o) = Above(K.c, s, o)
      BY <1>5, <2>1, <2>5, TriedPresent
    <3>2. Behind(s)' = o
      <4>1. Cache'.c = M.c
        BY <2>3 DEF Cache
      <4> QED
        BY <2>3, <4>1 DEF Behind, Overwritten, ub
    <3> HIDE DEF o
    <3>3. SeqPosMax(K.c, s) = SeqPosMax(cells, s) /\ Above(K.c, s, o) = Above(cells, s, o)
      BY <2>5, MaxIs DEF Above
    <3>4. PosOf(ctx'.ubs[1], s) = PosOf(batch, s)
      BY <1>6, <2>3 DEF ub
    <3> QED
      BY <2>3, <3>1, <3>2, <3>3, <3>4
  <2> QED
    BY <1>3, <2>3, <2>4, <2>6
<1> HIDE DEF A
<1> QED
  BY <1>10, <1>11, <1>12

\* Where a sequence is overwritten is at most its last position.
LEMMA BehindIs ==
  ASSUME CacheInv, ctx # Idle, NEW s \in Seqs
  PROVE  /\ Behind(s) \in Pos \union {-1} /\ Behind(s) <= SeqPosMax(cells, s)
         /\ SeqPosMax(cells, s) \in Pos \union {-1}
         /\ ctx.ubs[1] \in Ubatches /\ PosOf(ctx.ubs[1], s) \subseteq Pos
<1> DEFINE ub == ctx.ubs[1]
           h == ctx.heads[1]
           n == Len(ub)
           o == Overwritten(Cache, h, n, s)
<1>1. ub \in Ubatches /\ h \in 0 .. NCells /\ h + n <= NCells
  <2>1. Head(ctx.ubs) = ub /\ Head(ctx.heads) = h
    BY RestIs DEF CacheInv
  <2> QED
    BY <2>1, PendingRest DEF CacheInv
<1> HIDE DEF ub, h
<1>2. n \in Nat /\ h \in Nat
  BY <1>1, UbatchIs, PosTyped
<1>3. Sound(Cache) /\ Good(cells)
  BY CacheIs DEF CacheInv, Sound
<1> HIDE DEF n
<1>4. /\ o \in Pos \union {-1}
      /\ o # -1 => \E i \in h .. h + n - 1 : s \in cells.seq[i] /\ cells.pos[i] = o
  BY <1>1, <1>2, <1>3, OverwrittenIs, CacheIs DEF n
<1>5. SeqPosMax(cells, s) \in Pos \union {-1}
  BY SeqPosTyped
<1> DEFINE m == SeqPosMax(cells, s)
<1> HIDE DEF o, m
<1>6. o # -1 => o <= m
  <2> SUFFICES ASSUME o # -1 PROVE o <= m
    OBVIOUS
  <2>1. PICK i \in h .. h + n - 1 : s \in cells.seq[i] /\ cells.pos[i] = o
    BY <1>4
  <2>2. i \in Cell
    BY <1>1, <1>2, PosTyped DEF Cell, n
  <2>3. o \in Present(cells, s)
    BY <1>3, <2>1, <2>2, PresentIs
  <2> QED
    BY <2>3, SeqPosTyped DEF m
<1>7. \A p \in Pos : p \in Nat
  BY PosTyped
<1>8. o <= m
  <2>1. m \in Int /\ -1 <= m
    BY <1>5, <1>7 DEF m
  <2> QED
    BY <1>6, <2>1
<1>9. PosOf(ub, s) \subseteq Pos
  <2>1. \A k \in DOMAIN ub : ub[k].pos \in Pos
    BY <1>1, UbatchIs DEF UbatchOK, TokenOK
  <2> QED
    BY <2>1 DEF PosOf
<1>10. Behind(s) = o
  BY DEF Behind, o, n, ub, h
<1> QED
  BY <1>1, <1>4, <1>5, <1>8, <1>9, <1>10 DEF m, ub

\* A ubatch that was computed, or that failed: what was overwritten and purged
\* is gone, and of the new positions those up to the first that was removed are there.
LEMMA ComputedWindow ==
  ASSUME WindowInv, ctx # Idle, Compute \/ ComputeFails
  PROVE  /\ ctx' = Idle
         /\ \A s \in Seqs : \E F \in SUBSET PosOf(ctx.ubs[1], s) :
              Present(cells', s) =
              {p \in Above(cells, s, Behind(s)) \union PosOf(ctx.ubs[1], s) : \A q \in F : p < q}
<1> DEFINE ub == ctx.ubs[1]
           h == ctx.heads[1]
           n == Len(ub)
           M == Apply(Cache, h, ub)
<1>1. CacheInv /\ Pending(ctx) /\ Sound(Cache) /\ Len(ctx.ubs) = 1
  BY DEF WindowInv, CacheInv
<1>2. /\ Head(ctx.ubs) = ub /\ Head(ctx.heads) = h
      /\ Tail(ctx.ubs) \in Seq(Ubatches) /\ Tail(ctx.heads) \in Seq(0 .. NCells)
      /\ Len(Tail(ctx.ubs)) = 0 /\ Len(Tail(ctx.heads)) = 0
  BY <1>1, RestIs
<1>3. ub \in Ubatches /\ h \in 0 .. NCells /\ h + n <= NCells
  BY <1>1, <1>2, PendingRest
<1>4. Tail(ctx.ubs) = <<>> /\ Tail(ctx.heads) = <<>>
  <2>1. \A S : \A q \in Seq(S) : Len(q) = 0 => q = <<>>
    OBVIOUS
  <2> QED
    BY <1>2, <2>1
<1>5. ctx' = Idle
  BY <1>4 DEF Compute, ComputeFails, Returns, Idle
<1>t. ub = ctx.ubs[1] /\ h = ctx.heads[1]
  OBVIOUS
<1> HIDE DEF ub, h
<1>6. h \in Nat /\ n \in Nat /\ UbatchOK(ub)
  BY <1>3, UbatchIs, PosTyped
<1>7. Sound(M)
  BY <1>1, <1>3, <1>6, ApplyDone
<1>8. ASSUME NEW s \in Seqs
      PROVE  Present(M.c, s) = Above(cells, s, Behind(s)) \union PosOf(ub, s)
  <2> DEFINE o == Overwritten(Cache, h, Len(ub), s)
  <2>1. Present(M.c, s) = Above(cells, s, o) \union {q \in PosOf(ub, s) : q > o}
    <3>1. LET x == Overwritten(Cache, h, Len(ub), s) IN
          Present(Apply(Cache, h, ub).c, s) = Above(Cache.c, s, x) \union {q \in PosOf(ub, s) : q > x}
      BY <1>1, <1>3, <1>6, ApplyPresent
    <3> QED
      BY <3>1, CacheIs
  <2>2. Behind(s) = o
    BY DEF Behind, ub, h
  <2>3. /\ o \in Pos \union {-1} /\ SeqPosMax(cells, s) \in Pos \union {-1}
        /\ o <= SeqPosMax(cells, s) /\ PosOf(ub, s) \subseteq Pos
    BY <1>1, <1>t, <2>2, BehindIs
  <2>4. \A q \in PosOf(ub, s) : SeqPosMax(cells, s) < q
    BY <1>t DEF WindowInv
  <2> DEFINE m == SeqPosMax(cells, s)
  <2>5. \A p \in Pos : p \in Int
    BY PosTyped
  <2>m. (m \in Pos \/ m = -1) /\ o <= m /\ (o \in Pos \/ o = -1) /\ \A q \in PosOf(ub, s) : m < q /\ q \in Pos
    BY <2>3, <2>4
  <2> HIDE DEF o, M, m
  <2>6. ASSUME NEW q \in PosOf(ub, s) PROVE q > o
    <3>1. o \in Int /\ m \in Int /\ q \in Int /\ o <= m /\ m < q
      BY <2>5, <2>m
    <3> QED
      BY <3>1
  <2> QED
    BY <2>1, <2>2, <2>6
<1>9. CASE Compute
  <2>1. PICK d : Becomes([M EXCEPT !.d = d])
    BY <1>2, <1>9 DEF Compute
  <2>2. [M EXCEPT !.d = d] = [c |-> M.c, h |-> M.h, d |-> d]
    BY <1>7, SoundWith
  <2>3. cells' = M.c
    BY <2>1, <2>2 DEF Becomes
  <2>4. ASSUME NEW s \in Seqs
        PROVE  Present(cells', s) =
               {p \in Above(cells, s, Behind(s)) \union PosOf(ub, s) : \A q \in {} : p < q}
    BY <1>8, <2>3
  <2> HIDE DEF M
  <2>5. \A s \in Seqs : {} \in SUBSET PosOf(ub, s)
    OBVIOUS
  <2> QED
    BY <1>5, <1>t, <2>4, <2>5
<1>10. CASE ComputeFails
  <2> DEFINE B == WithRows(M, h, ub, [i \in Cell |-> Junk])
  <2>1. Becomes(RemoveFailed(B, ub))
    <3>1. [i \in Cell |-> IF i \in h .. h + n - 1 THEN Junk ELSE M.d[i]]
          = [i \in Cell |-> IF i \in h .. h + n - 1 THEN [j \in Cell |-> Junk][i] ELSE M.d[i]]
      OBVIOUS
    <3>2. Becomes(RemoveFailed([M EXCEPT !.d = [i \in Cell |-> IF i \in h .. h + n - 1 THEN Junk
                                                              ELSE M.d[i]]], ub))
      BY <1>2, <1>10 DEF ComputeFails
    <3> QED
      BY <3>1, <3>2 DEF WithRows
  <2>2. Sound(B) /\ B.c = M.c
    <3>1. \A i \in Cell : [j \in Cell |-> Junk][i] \in Row
      BY DEF Junk, Row
    <3>2. Sound(B)
      BY <1>1, <1>3, <1>6, <3>1, WithRowsDone
    <3>3. PICK d : B = [M EXCEPT !.d = d]
      BY DEF WithRows
    <3>4. [M EXCEPT !.d = d] = [c |-> M.c, h |-> M.h, d |-> d]
      BY <1>7, SoundWith
    <3> QED
      BY <3>2, <3>3, <3>4
  <2> HIDE DEF B, M
  <2>3. cells' = RemoveFailed(B, ub).c
    BY <2>1 DEF Becomes
  <2>4. ASSUME NEW s \in Seqs
        PROVE  /\ FirstIn(ub, s) \in SUBSET PosOf(ub, s)
               /\ Present(cells', s) =
                    {p \in Above(cells, s, Behind(s)) \union PosOf(ub, s) : \A q \in FirstIn(ub, s) : p < q}
    <3>1. Present(RemoveFailed(B, ub).c, s) = {p \in Present(B.c, s) : \A q \in FirstIn(ub, s) : p < q}
      BY <1>3, <2>2, RemoveFailedPresent
    <3>2. FirstIn(ub, s) \subseteq PosOf(ub, s)
      BY <1>3, FirstInTyped
    <3> QED
      BY <1>8, <2>2, <2>3, <3>1, <3>2
  <2> QED
    BY <1>5, <1>t, <2>4
<1> QED
  BY <1>9, <1>10

\* The user calls between two decodes.
LEMMA UserIdle == UserNext => ctx = Idle /\ ctx' = ctx
<1> SUFFICES ASSUME UserNext PROVE ctx = Idle /\ ctx' = ctx
  OBVIOUS
<1>1. \E op : User(op)
  BY DEF UserNext, Clear, DefragNow, Keep, RemoveTokens, Copy, Add, Div
<1> QED
  BY <1>1 DEF User, Ready

\* What a sequence loses to a ubatch is out of its window.
LEMMA LostMasked ==
  ASSUME WindowInv, ctx # Idle, Compute \/ ComputeFails, NEW s \in Seqs,
         NEW p \in Present(cells, s) \ Present(cells', s)
  PROVE  IsMaskedSwa(p, SeqPosMax(cells, s) + 1)
<1> DEFINE o == Behind(s)
           m == SeqPosMax(cells, s)
           P == PosOf(ctx.ubs[1], s)
<1>1. PICK F \in SUBSET P :
        Present(cells', s) = {x \in Above(cells, s, o) \union P : \A q \in F : x < q}
  BY ComputedWindow
<1>2. /\ (o = -1 \/ IsMaskedSwa(o, m + 1)) /\ \A q \in P : m < q
  BY DEF WindowInv
<1>3. /\ o \in Pos \/ o = -1
      /\ m \in Pos \/ m = -1
      /\ P \subseteq Pos
  BY BehindIs DEF WindowInv
<1>4. p \in Pos /\ p <= m
  BY SeqPosTyped DEF Present
<1>5. \A x \in Pos : x \in Nat
  BY PosTyped
<1>6. p \in Above(cells, s, o) <=> p > o
  BY DEF Above
<1> HIDE DEF o, m, P
<1>7. o \in Int /\ m \in Int /\ p \in Nat /\ -1 <= o
  BY <1>3, <1>4, <1>5
<1>8. p <= o
  <2> SUFFICES ASSUME ~(p <= o) PROVE FALSE
    OBVIOUS
  <2>1. p \in Above(cells, s, o)
    BY <1>6, <1>7
  <2>2. PICK q \in F : ~(p < q)
    BY <1>1, <2>1
  <2>3. q \in Nat /\ m < q
    BY <1>1, <1>2, <1>3, <1>5
  <2> QED
    BY <1>4, <1>7, <2>2, <2>3
<1>9. IsMaskedSwa(o, m + 1)
  BY <1>2, <1>7, <1>8
<1> QED
  BY <1>7, <1>8, <1>9, MaskedBelow DEF m

LEMMA WindowStep ==
  ASSUME OneUbatch, WindowInv, [NextCache]_cacheVars
  PROVE  WindowInv'
<1>1. CacheInv'
  BY CacheInvStep DEF WindowInv
<1>2. CASE UserNext
  BY <1>1, <1>2, UserIdle DEF WindowInv
<1>3. CASE Decode
  <2>1. PICK input \in Inputs : \E batch \in Batches(cells, input) :
          /\ \A i \in DOMAIN batch : batch[i].pos <= MaxPos
          /\ DecodeRefused(batch) \/ DecodePrepared(batch)
    BY <1>3 DEF Decode
  <2>2. PICK batch \in Batches(cells, input) :
          /\ \A i \in DOMAIN batch : batch[i].pos <= MaxPos
          /\ DecodeRefused(batch) \/ DecodePrepared(batch)
    BY <2>1
  <2>3. CASE DecodeRefused(batch)
    BY <1>1, <2>3 DEF DecodeRefused, Returns, WindowInv
  <2>4. CASE DecodePrepared(batch)
    <3>1. \/ ctx' = Idle
          \/ /\ ctx' # Idle /\ Len(ctx'.ubs) = 1
             /\ \A s \in Seqs :
                  /\ Behind(s)' = -1 \/ IsMaskedSwa(Behind(s)', SeqPosMax(cells', s) + 1)
                  /\ SeqPosMax(cells', s) = SeqPosMax(cells, s)
                  /\ PosOf(ctx'.ubs[1], s) = PosOf(batch, s)
      BY <2>2, <2>4, PreparedWindow DEF WindowInv
    <3>2. BatchTyped(batch) /\ BatchOK(cells, batch)
      BY <2>2, <2>4, BatchesTyped DEF DecodePrepared
    <3>3. \A s \in Seqs : \A p \in PosOf(batch, s) : SeqPosMax(cells, s) < p
      BY <3>2, BatchFollows
    <3> QED
      BY <1>1, <3>1, <3>3 DEF WindowInv
  <2> QED
    BY <2>2, <2>3, <2>4
<1>4. CASE Compute \/ ComputeFails
  <2>1. ctx # Idle
    BY <1>4 DEF Compute, ComputeFails
  <2> QED
    BY <1>1, <1>4, <2>1, ComputedWindow DEF WindowInv
<1>5. CASE ReadResult \/ UNCHANGED cacheVars
  <2>1. cells' = cells /\ head' = head /\ data' = data /\ ctx' = ctx
    BY <1>5 DEF ReadResult, cacheVars
  <2>2. \A s : Behind(s)' = Behind(s)
    BY <2>1 DEF Behind, Cache
  <2> QED
    BY <1>1, <2>1, <2>2 DEF WindowInv
<1> QED
  BY <1>2, <1>3, <1>4, <1>5 DEF NextCache

LEMMA LostStep ==
  ASSUME WindowInv, [NextCache]_cacheVars, ctx # Idle
  PROVE  \A s \in Seqs : \A p \in Present(cells, s) \ Present(cells', s) :
           IsMaskedSwa(p, SeqPosMax(cells, s) + 1)
<1>1. CASE Compute \/ ComputeFails
  BY <1>1, LostMasked
<1>2. CASE ReadResult \/ UNCHANGED cacheVars
  BY <1>2 DEF ReadResult, cacheVars
<1>3. ~UserNext
  BY UserIdle
<1>4. ~Decode
  BY DEF Decode, Ready
<1> QED
  BY <1>1, <1>2, <1>3, <1>4 DEF NextCache

LEMMA WindowInit == InitCache => WindowInv
  BY CacheInvInit DEF WindowInv, InitCache

\* Where a batch is at most one ubatch, a decode takes no position from a sequence
\* that the sequence's next token, or a later one, could still attend to: whatever
\* the user removes, copies, shifts or defragments in between, and whichever
\* ubatches, shifts and defragmentations fail.
THEOREM WindowCorrect == OneUbatch => (SpecCache => OnlyMaskedLost)
<1> SUFFICES ASSUME OneUbatch PROVE SpecCache => OnlyMaskedLost
  OBVIOUS
<1>1. WindowInv /\ [NextCache]_cacheVars => WindowInv'
  BY WindowStep
<1>2. WindowInv /\ [NextCache]_cacheVars =>
        [ctx # Idle => \A s \in Seqs : \A p \in Present(cells, s) \ Present(cells', s) :
           IsMaskedSwa(p, SeqPosMax(cells, s) + 1)]_cacheVars
  BY LostStep
<1> QED
  BY <1>1, <1>2, WindowInit, PTL DEF SpecCache, OnlyMaskedLost

-----------------------------------------------------------------------------
(* Sequences without holes.                                                *)

\* The users for whom sequences can be expected to have no hole: they remove the
\* head or the tail of a sequence or all of it.
Trimming ==
    /\ UserOps \subseteq {"clear", "rm", "keep", "defrag"}
    /\ \A r \in Ranges : From(r[1]) = 0 \/ End(r[2]) > MaxPos

\* Heads, tails and whole sequences can be removed without leaving a hole.
LEMMA TrimmedStep ==
  ASSUME Trimming, Sound(Cache), UserNext, NEW t \in Seqs, Unbroken(Present(cells, t))
  PROVE  Unbroken(Present(cells', t))
<1>1. Present(cells, t) \subseteq Pos
  BY DEF Present
<1>p. \A p \in Pos : p \in Nat /\ p <= MaxPos
  BY PosTyped DEF Pos
<1>m. MaxPos \in Nat
  BY PosTyped
<1>2. CASE Clear
  <2>1. [Cache EXCEPT !.c = NoCells, !.h = 0].c = NoCells
    BY DEF Cache
  <2>2. cells' = NoCells
    BY <1>2, <2>1 DEF Clear, Becomes
  <2>3. Present(NoCells, t) = {}
    <3>1. \A p \in Pos : NoCells.seq_pos[t][p] = 0
      BY DEF NoCells
    <3> QED
      BY <3>1 DEF Present
  <2> QED
    BY <2>2, <2>3 DEF Unbroken
<1>3. CASE DefragNow
  <2>1. PICK u \in Update(Cache, TRUE) : cells' = u.m.c
    BY <1>3 DEF DefragNow, Becomes
  <2>2. Present(u.m.c, t) = Present(Cache.c, t)
    BY UpdatePresent
  <2> QED
    BY <2>1, <2>2, CacheIs
<1>4. ASSUME NEW s \in Seqs, Keep(s) PROVE Unbroken(Present(cells', t))
  <2>1. cells' = SeqKeep(Cache, s).c
    BY <1>4 DEF Keep, Becomes
  <2>2. Present(SeqKeep(Cache, s).c, t) = IF t = s THEN Present(Cache.c, t) ELSE {}
    BY KeepPresent
  <2>3. Unbroken({})
    BY DEF Unbroken
  <2> QED
    BY <2>1, <2>2, <2>3, CacheIs
<1>5. ASSUME NEW r \in Ranges, NEW s \in Seqs \union {-1}, RemoveTokens(s, r[1], r[2])
      PROVE  Unbroken(Present(cells', t))
  <2> DEFINE a == From(r[1])
             b == End(r[2])
             T == {p \in Present(cells, t) : ~(a <= p /\ p < b /\ (s = -1 \/ t = s))}
  <2>1. r[1] \in Int /\ r[2] \in Int
    BY CacheAssumption
  <2>2. s \in Seqs \/ (s = -1 /\ r[1] \in Int)
    BY <2>1
  <2>3. cells' = SeqRm(Cache, s, r[1], r[2]).c
    BY <1>5 DEF RemoveTokens, Becomes
  <2>4. Present(SeqRm(Cache, s, r[1], r[2]).c, t)
          = {p \in Present(Cache.c, t) : ~(a <= p /\ p < b /\ (s = -1 \/ t = s))}
    BY <2>2, SeqRmPresent
  <2>5. Present(cells', t) = T
    BY <2>3, <2>4, CacheIs
  <2>6. (a = 0 \/ b > MaxPos) /\ a \in Int /\ b \in Int
    BY <1>m, <2>1 DEF Trimming, From, End
  <2> HIDE DEF a, b
  <2>7. ASSUME NEW p \in T, NEW q \in T, NEW x \in Present(cells, t), p <= x, x <= q
        PROVE  x \in T
    <3>1. /\ p \in Nat /\ q \in Nat /\ x \in Nat /\ p <= MaxPos /\ q <= MaxPos
      BY <1>1, <1>p
    <3>2. /\ ~(a <= p /\ p < b /\ (s = -1 \/ t = s))
          /\ ~(a <= q /\ q < b /\ (s = -1 \/ t = s))
      OBVIOUS
    <3>3. (s = -1 \/ t = s) => ~(a <= x /\ x < b)
      BY <1>m, <2>6, <2>7, <3>1, <3>2
    <3> QED
      BY <3>3
  <2>8. T \in SUBSET Present(cells, t)
    OBVIOUS
  <2> HIDE DEF T
  <2>9. Unbroken(T)
    BY <2>7, <2>8, UnbrokenPart
  <2> QED
    BY <2>5, <2>9
<1>6. UserOps \subseteq {"clear", "rm", "keep", "defrag"}
  BY DEF Trimming
<1>7. /\ \A s, d, p0, p1 : ~Copy(s, d, p0, p1) /\ ~Add(s, p0, p1, d) /\ ~Div(s, p0, p1, d)
  BY <1>6 DEF Copy, Add, Div, User
<1> QED
  BY <1>2, <1>3, <1>4, <1>5, <1>7 DEF UserNext

\* The sequences stay without holes.
LEMMA UnbrokenStep ==
  ASSUME OneUbatch, Trimming, WindowInv, UnbrokenInv, [NextCache]_cacheVars
  PROVE  UnbrokenInv'
<1>p. \A p \in Pos : p \in Int
  BY PosTyped
<1>1. CASE UserNext
  <2>1. ctx = Idle /\ ctx' = Idle
    BY <1>1, UserIdle
  <2>2. Sound(Cache)
    BY DEF WindowInv, CacheInv
  <2>3. ASSUME NEW s \in Seqs PROVE Unbroken(Present(cells', s))
    <3>1. Unbroken(Present(cells, s))
      BY <2>1 DEF UnbrokenInv
    <3> QED
      BY <1>1, <2>2, <3>1, TrimmedStep
  <2> QED
    BY <2>1, <2>3 DEF UnbrokenInv
<1>2. CASE Decode
  <2>1. PICK input \in Inputs : \E batch \in Batches(cells, input) :
          /\ \A i \in DOMAIN batch : batch[i].pos <= MaxPos
          /\ DecodeRefused(batch) \/ DecodePrepared(batch)
    BY <1>2 DEF Decode
  <2>2. PICK batch \in Batches(cells, input) :
          /\ \A i \in DOMAIN batch : batch[i].pos <= MaxPos
          /\ DecodeRefused(batch) \/ DecodePrepared(batch)
    BY <2>1
  <2>3. ctx = Idle
    BY <1>2 DEF Decode, Ready
  <2>4. \A s \in Seqs : Unbroken(Present(cells, s))
    BY <2>3 DEF UnbrokenInv
  <2>5. CASE DecodeRefused(batch)
    BY <2>4, <2>5 DEF DecodeRefused, Returns, UnbrokenInv
  <2>6. CASE DecodePrepared(batch)
    <3>1. \/ ctx' = Idle /\ \A s \in Seqs : Present(cells', s) = Present(cells, s)
          \/ /\ ctx' # Idle
             /\ \A s \in Seqs :
                  /\ Behind(s)' \in Pos \union {-1}
                  /\ Above(cells', s, Behind(s)') = Above(cells, s, Behind(s)')
                  /\ PosOf(ctx'.ubs[1], s) = PosOf(batch, s)
      BY <2>2, <2>6, PreparedWindow DEF WindowInv
    <3>2. CASE ctx' = Idle /\ \A s \in Seqs : Present(cells', s) = Present(cells, s)
      BY <2>4, <3>2 DEF UnbrokenInv
    <3>3. CASE /\ ctx' # Idle
               /\ \A s \in Seqs :
                    /\ Behind(s)' \in Pos \union {-1}
                    /\ Above(cells', s, Behind(s)') = Above(cells, s, Behind(s)')
                    /\ PosOf(ctx'.ubs[1], s) = PosOf(batch, s)
      <4>1. BatchTyped(batch) /\ BatchOK(cells, batch)
        BY <2>2, <2>6, BatchesTyped DEF DecodePrepared
      <4>2. ASSUME NEW s \in Seqs
            PROVE  Unbroken(Above(cells', s, Behind(s)') \union PosOf(ctx'.ubs[1], s))
        <5> DEFINE o == Behind(s)'
        <5>1. o \in Int
          BY <1>p, <3>3
        <5>2. Unbroken(Present(cells, s))
          BY <2>4
        <5>3. /\ PosOf(batch, s) \subseteq Pos
              /\ \A p \in PosOf(batch, s) : SeqPosMax(cells, s) < p
              /\ Unbroken(PosOf(batch, s))
              /\ SeqPosMax(cells, s) >= 0 /\ PosOf(batch, s) # {}
                   => SeqPosMax(cells, s) + 1 \in PosOf(batch, s)
          BY <4>1, BatchFollows
        <5>4. Above(cells', s, o) = Above(cells, s, o) /\ PosOf(ctx'.ubs[1], s) = PosOf(batch, s)
          BY <3>3
        <5> HIDE DEF o
        <5>5. Unbroken(Above(cells, s, o) \union PosOf(batch, s))
          BY <5>1, <5>2, <5>3, UnbrokenJoin
        <5>6. Unbroken(Above(cells', s, o) \union PosOf(ctx'.ubs[1], s))
          BY <5>4, <5>5
        <5> QED
          BY <5>6 DEF o
      <4> QED
        BY <3>3, <4>2 DEF UnbrokenInv
    <3> QED
      BY <3>1, <3>2, <3>3
  <2> QED
    BY <2>2, <2>5, <2>6
<1>3. CASE Compute \/ ComputeFails
  <2>1. ctx # Idle
    BY <1>3 DEF Compute, ComputeFails
  <2>2. ASSUME NEW s \in Seqs PROVE Unbroken(Present(cells', s))
    <3> DEFINE P == PosOf(ctx.ubs[1], s)
               S == Above(cells, s, Behind(s)) \union P
    <3>1. PICK F \in SUBSET P : Present(cells', s) = {p \in S : \A q \in F : p < q}
      BY <1>3, <2>1, ComputedWindow
    <3>2. P \subseteq Pos
      BY <2>1, BehindIs DEF WindowInv
    <3>3. S \in SUBSET Pos
      BY <3>2 DEF Above, Present
    <3>4. Unbroken(S)
      BY <2>1 DEF UnbrokenInv
    <3>5. F \in SUBSET Pos
      BY <3>2
    <3> HIDE DEF S, P
    <3>6. Unbroken({p \in S : \A q \in F : p < q})
      BY <3>3, <3>4, <3>5, UnbrokenCut
    <3> QED
      BY <3>1, <3>6
  <2>3. ctx' = Idle
    BY <1>3, <2>1, ComputedWindow
  <2> QED
    BY <2>2, <2>3 DEF UnbrokenInv
<1>4. CASE ReadResult \/ UNCHANGED cacheVars
  <2>1. cells' = cells /\ head' = head /\ data' = data /\ ctx' = ctx
    BY <1>4 DEF ReadResult, cacheVars
  <2>2. \A s : Behind(s)' = Behind(s)
    BY <2>1 DEF Behind, Cache
  <2> QED
    BY <2>1, <2>2 DEF UnbrokenInv
<1> QED
  BY <1>1, <1>2, <1>3, <1>4 DEF NextCache

LEMMA UnbrokenInit == InitCache => UnbrokenInv
<1> SUFFICES ASSUME InitCache PROVE UnbrokenInv
  OBVIOUS
<1>1. cells = NoCells /\ ctx = Idle
  BY DEF InitCache, InitCells
<1>2. ASSUME NEW s \in Seqs PROVE Present(NoCells, s) = {}
  <2>1. \A p \in Pos : NoCells.seq_pos[s][p] = 0
    BY DEF NoCells
  <2> QED
    BY <2>1 DEF Present
<1> QED
  BY <1>1, <1>2 DEF UnbrokenInv, Unbroken

\* Between two decodes, no hole is what Consecutive says.
LEMMA UnbrokenIs == UnbrokenInv => Consecutive
<1> SUFFICES ASSUME UnbrokenInv, ctx = Idle, NEW s \in Seqs, NEW p \in Pos,
                    SeqPosMin(cells, s) <= p, p <= SeqPosMax(cells, s)
             PROVE  p \in Present(cells, s)
  BY DEF Consecutive
<1>1. p \in Nat
  BY PosTyped
<1>2. CASE Present(cells, s) = {}
  <2>1. SeqPosMax(cells, s) = -1
    BY <1>2 DEF SeqPosMax
  <2> QED
    BY <1>1, <2>1
<1>3. CASE Present(cells, s) # {}
  <2>1. SeqPosMin(cells, s) \in Present(cells, s) /\ SeqPosMax(cells, s) \in Present(cells, s)
    BY <1>3, SeqPosTyped
  <2>2. Unbroken(Present(cells, s))
    BY DEF UnbrokenInv
  <2> QED
    BY <1>1, <2>1, <2>2 DEF Unbroken
<1> QED
  BY <1>2, <1>3

\* Where a batch is at most one ubatch and the users remove heads and tails of a
\* sequence, between two decodes the positions of a sequence are consecutive:
\* whichever cells a ubatch overwrites, the positions below them are purged with
\* them, and a ubatch that fails leaves the positions before its first one.
THEOREM UnbrokenCorrect == OneUbatch /\ Trimming => (SpecCache => []Consecutive)
<1> SUFFICES ASSUME OneUbatch, Trimming PROVE SpecCache => []Consecutive
  OBVIOUS
<1>1. WindowInv /\ [NextCache]_cacheVars => WindowInv'
  BY WindowStep
<1>2. WindowInv /\ UnbrokenInv /\ [NextCache]_cacheVars => UnbrokenInv'
  BY UnbrokenStep
<1> QED
  BY <1>1, <1>2, WindowInit, UnbrokenInit, UnbrokenIs, PTL DEF SpecCache
=============================================================================
