------------------------------- MODULE Loops --------------------------------
(***************************************************************************)
(* What a loop of KVCache establishes: Op is the body of the loop, with    *)
(* four parameters that it does not change.  The library's theorems on     *)
(* induction take the statement that is proved as a parameter, which the   *)
(* provers cannot supply; here it is a set.  The induction principle is a  *)
(* hypothesis of the lemmas, and KVCellsProofs proves it: a module that is *)
(* instantiated for each loop had better not extend the library's modules. *)
(***************************************************************************)
EXTENDS Integers, Sequences

CONSTANT Op(_, _, _, _, _, _)

\* Induction up to n.
Inductive ==
    \A n \in Nat : \A T : (0 \in T /\ \A k \in 0 .. n - 1 : k \in T => k + 1 \in T)
                        => \A k \in 0 .. n : k \in T

-----------------------------------------------------------------------------
\* KVCache's Loop for this body.
Result(x, s, a, b, c, d) ==
    LET after[k \in 0 .. Len(s)] == IF k = 0 THEN x ELSE Op(after[k - 1], s[k], a, b, c, d)
    IN after[Len(s)]

\* The states after each number of rounds.
States(f, n, x, s, a, b, c, d) ==
    f = [k \in 0 .. n |-> IF k = 0 THEN x ELSE Op(f[k - 1], s[k], a, b, c, d)]

\* A[k] is an invariant of the loop after k rounds.
Keeps(A, x, s, a, b, c, d) ==
    /\ x \in A[0]
    /\ \A k \in 1 .. Len(s) : \A y \in A[k - 1] : Op(y, s[k], a, b, c, d) \in A[k]

LEMMA Extend ==
    ASSUME NEW m \in Nat, NEW f, NEW x, NEW s, NEW a, NEW b, NEW c, NEW d,
           States(f, m, x, s, a, b, c, d)
    PROVE  \E g : States(g, m + 1, x, s, a, b, c, d)
<1> DEFINE g == [k \in 0 .. m + 1 |-> IF k = m + 1 THEN Op(f[m], s[m + 1], a, b, c, d)
                                      ELSE f[k]]
<1>1. ASSUME NEW k \in 0 .. m + 1
      PROVE  g[k] = IF k = 0 THEN x ELSE Op(g[k - 1], s[k], a, b, c, d)
  <2>1. CASE k = m + 1
    BY <2>1
  <2>2. CASE k # m + 1
    <3>1. k \in 0 .. m
      BY <2>2
    <3>2. g[k] = f[k] /\ (k # 0 => g[k - 1] = f[k - 1])
      BY <2>2, <3>1
    <3>3. f[k] = IF k = 0 THEN x ELSE Op(f[k - 1], s[k], a, b, c, d)
      BY <3>1 DEF States
    <3> QED BY <3>1, <3>2, <3>3
  <2> QED BY <2>1, <2>2
<1>2. g = [k \in 0 .. m + 1 |-> g[k]]
  OBVIOUS
<1> HIDE DEF g
<1>3. States(g, m + 1, x, s, a, b, c, d)
  BY <1>1, <1>2 DEF States
<1> QED BY <1>3

LEMMA Exists ==
    ASSUME Inductive, NEW n \in Nat, NEW x, NEW s, NEW a, NEW b, NEW c, NEW d
    PROVE  \E f : States(f, n, x, s, a, b, c, d)
<1> DEFINE T == {m \in 0 .. n : \E f : States(f, m, x, s, a, b, c, d)}
<1>1. 0 \in T
  <2>1. States([k \in 0 .. 0 |-> x], 0, x, s, a, b, c, d)
    BY DEF States
  <2> QED BY <2>1
<1>2. ASSUME NEW m \in 0 .. n - 1, m \in T PROVE m + 1 \in T
  <2>1. PICK f : States(f, m, x, s, a, b, c, d)
    BY <1>2
  <2>2. \E g : States(g, m + 1, x, s, a, b, c, d)
    BY <2>1, Extend
  <2>3. m + 1 \in 0 .. n
    OBVIOUS
  <2> QED BY <2>2, <2>3
<1>3. \A k \in 0 .. n : k \in T
  <2> HIDE DEF T
  <2> QED BY <1>1, <1>2 DEF Inductive
<1> QED BY <1>3

\* What holds before the loop and is kept by each round holds after it.
LEMMA Invariant ==
    ASSUME Inductive, NEW A, NEW x, NEW s, NEW a, NEW b, NEW c, NEW d, Len(s) \in Nat,
           Keeps(A, x, s, a, b, c, d)
    PROVE  Result(x, s, a, b, c, d) \in A[Len(s)]
<1> DEFINE n == Len(s)
           f == CHOOSE f : States(f, n, x, s, a, b, c, d)
           T == {k \in 0 .. n : f[k] \in A[k]}
<1>1. States(f, n, x, s, a, b, c, d)
  BY Exists
<1>2. Result(x, s, a, b, c, d) = f[n]
  BY DEF Result, States
<1>3. \A k \in 0 .. n : f[k] = IF k = 0 THEN x ELSE Op(f[k - 1], s[k], a, b, c, d)
  <2> HIDE DEF f
  <2> QED BY <1>1 DEF States
<1> HIDE DEF f
<1>4. 0 \in T
  BY <1>3 DEF Keeps
<1>5. ASSUME NEW k \in 0 .. n - 1, k \in T PROVE k + 1 \in T
  <2>1. f[k + 1] = Op(f[k], s[k + 1], a, b, c, d)
    BY <1>3
  <2>2. k + 1 \in 1 .. Len(s) /\ f[k] \in A[(k + 1) - 1]
    BY <1>5
  <2>3. Op(f[k], s[k + 1], a, b, c, d) \in A[k + 1]
    BY <2>2 DEF Keeps
  <2> QED BY <2>1, <2>3
<1>6. \A k \in 0 .. n : k \in T
  <2> HIDE DEF T
  <2> QED BY <1>4, <1>5 DEF Inductive
<1> QED BY <1>2, <1>6
=============================================================================
