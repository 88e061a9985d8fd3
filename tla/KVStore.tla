------------------------------ MODULE KVStore -------------------------------
(***************************************************************************)
(* What the KV cache is to its user (include/llama.h, llama_memory_* and   *)
(* llama_decode): tokens, each at a position and in some sequences.  Where *)
(* they are kept, how room is found for them, when they are moved together *)
(* and when their keys are rotated does not show.  KVCache implements it.  *)
(***************************************************************************)
EXTENDS Integers

CONSTANTS Seqs, MaxPos, Tokens,
          Ranges, Shifts        \* the ranges [p0, p1) and the shifts users name

VARIABLE entries

Entry == [pos : 0 .. MaxPos, seqs : (SUBSET Seqs) \ {{}}, tok : Tokens]

In(e, p0, p1) == p0 <= e.pos /\ (p1 < 0 \/ e.pos < p1)
Live(E) == {e \in E : e.seqs # {} /\ e.pos >= 0}

Init == entries = {}

\* A decode stores the tokens of a ubatch after those their sequences have.
Append ==
    /\ entries \subseteq entries' /\ entries' \subseteq Entry
    /\ \A e \in entries' \ entries, f \in entries :
         e.seqs \intersect f.seqs # {} => f.pos < e.pos

Clear == entries' = {}

Remove(S, p0, p1) ==
    entries' = Live({IF In(e, p0, p1) THEN [e EXCEPT !.seqs = @ \ S] ELSE e : e \in entries})

Copy(s, d, p0, p1) ==
    entries' = {IF s \in e.seqs /\ In(e, p0, p1)
                THEN [e EXCEPT !.seqs = @ \union {d}] ELSE e : e \in entries}

Keep(s) == entries' = Live({[e EXCEPT !.seqs = @ \intersect {s}] : e \in entries})

\* A position is the token's: the other sequences it is in see it move, too.
Add(s, p0, p1, d) ==
    entries' = Live({IF s \in e.seqs /\ In(e, p0, p1)
                     THEN [e EXCEPT !.pos = @ + d] ELSE e : e \in entries})

Div(s, p0, p1, d) ==
    entries' = {IF s \in e.seqs /\ In(e, p0, p1)
                THEN [e EXCEPT !.pos = @ \div d] ELSE e : e \in entries}

Next ==
    \/ Append \/ Clear
    \/ \E s \in Seqs : Keep(s)
    \/ \E r \in Ranges :
         \/ \E S \in SUBSET Seqs : Remove(S, r[1], r[2])
         \/ \E s, d \in Seqs : Copy(s, d, r[1], r[2])
         \/ \E s \in Seqs, d \in Shifts : Add(s, r[1], r[2], d)
         \/ \E s \in Seqs : Div(s, r[1], r[2], 2)

Spec == Init /\ [][Next]_entries
=============================================================================
