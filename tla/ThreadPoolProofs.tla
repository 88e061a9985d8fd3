-------------------------- MODULE ThreadPoolProofs --------------------------
(***************************************************************************)
(* The barrier, for every number of threads and every width of             *)
(* n_barrier_passed: its types, its inductive invariant, and that it       *)
(* implements Rendezvous.  Then the pools whose graphs use all of their    *)
(* threads, among them the application's, which serve one graph each: for  *)
(* any number of threads, nodes, chunks and graphs every chunk is computed *)
(* once, nodes do not overlap, and no worker is left in a graph that is    *)
(* over.                                                                   *)
(***************************************************************************)
EXTENDS ThreadPool, FiniteSetTheorems, TLAPS

-----------------------------------------------------------------------------
(* The barrier.                                                            *)

IInv == BarrierTypeOK /\ BarrierInv

\* The threads of a graph: how many they are.
LEMMA TeamSize ==
    ASSUME NEW n \in Nat
    PROVE  IsFiniteSet(0 .. n - 1) /\ Cardinality(0 .. n - 1) = n
<1>1. CASE n = 0
  <2>1. 0 .. n - 1 = {}
    BY <1>1
  <2>2. QED
    BY <2>1, <1>1, FS_EmptySet
<1>2. CASE n > 0
  BY <1>2, FS_Interval
<1>3. QED
  BY <1>1, <1>2

\* A set of threads without t that has one element less than the team is the
\* rest of the team.
LEMMA AllButOne ==
    ASSUME NEW T, IsFiniteSet(T), NEW t \in T, NEW S \in SUBSET T, t \notin S
    PROVE  /\ Cardinality(S) \in 0 .. Cardinality(T) - 1
           /\ Cardinality(S) = Cardinality(T) - 1 <=> S = T \ {t}
           /\ Cardinality(S \union {t}) = Cardinality(S) + 1
<1> DEFINE Rest == T \ {t}
<1>1. IsFiniteSet(Rest) /\ Cardinality(Rest) = Cardinality(T) - 1 /\ Cardinality(T) \in Nat
  BY FS_RemoveElement, FS_CardinalityType
<1>2. IsFiniteSet(S) /\ Cardinality(S) <= Cardinality(Rest) /\ (Cardinality(S) = Cardinality(Rest) => S = Rest)
  <2>1. S \in SUBSET Rest
    OBVIOUS
  <2>2. QED
    BY <2>1, <1>1, FS_Subset, Zenon
<1>3. Cardinality(S) \in Nat
  BY <1>2, FS_CardinalityType
<1>4. Cardinality(S \union {t}) = Cardinality(S) + 1
  BY <1>2, FS_AddElement
<1>5. QED
  BY <1>1, <1>2, <1>3, <1>4

\* The parts of the invariant a proof step needs by name.
LEMMA Facts ==
    ASSUME IInv
    PROVE  /\ n_threads_cur \in Nat /\ n_threads_cur >= 1
           /\ Active \subseteq Threads
           /\ Inside \subseteq Active /\ Counted \subseteq Active
           /\ \A t \in Threads : at[t] # "out" => t \in Active
           /\ \A t \in Active : at[t] \in {"load", "add", "reset", "pass", "wait"} =>
                                  n_threads_cur # 1
<1>1. n_threads_cur \in 1 .. NMax /\ NMax \in Nat
  BY NMaxAssumption DEF IInv, BarrierTypeOK
<1>2. n_threads_cur \in Nat /\ n_threads_cur >= 1 /\ Active \subseteq Threads
  BY <1>1 DEF Active, Threads
<1>3. Inside \subseteq Active /\ Counted \subseteq Active
  BY DEF Inside, Counted
<1>4. QED
  BY <1>2, <1>3 DEF IInv, BarrierInv

\* A thread that is on its way into the barrier, or on its way out, is not
\* counted, and then no thread has completed the count.
LEMMA NoGate ==
    ASSUME IInv, NEW t \in Active, at[t] \notin {"reset", "pass"}, t \notin Inside
    PROVE  /\ \A u \in Active : at[u] \notin {"reset", "pass"}
           /\ Counted = Inside
           /\ n_barrier = Cardinality(Inside)
<1>1. ASSUME NEW u \in Active, at[u] \in {"reset", "pass"}
      PROVE  FALSE
  <2>1. Active \ {u} \subseteq Inside
    BY <1>1 DEF IInv, BarrierInv
  <2>2. QED
    BY <2>1, <1>1
<1>2. Counted = Inside
  BY <1>1 DEF Counted
<1>3. QED
  BY <1>1, <1>2 DEF IInv, BarrierInv

\* The thread that has completed the count has the rest of the team inside.
LEMMA Gate ==
    ASSUME IInv, NEW t \in Active, at[t] \in {"reset", "pass"}
    PROVE  /\ Inside = Active \ {t}
           /\ \A u \in Active \ {t} : at[u] = "wait" /\ n_passed[u] = n_barrier_passed
           /\ n_passed[t] = n_barrier_passed
<1>1. Active \ {t} \subseteq Inside
  BY DEF IInv, BarrierInv
<1>2. t \notin Inside
  BY DEF Inside
<1>3. Inside \subseteq Active
  BY DEF Inside
<1>4. QED
  BY <1>1, <1>2, <1>3 DEF Inside, IInv, BarrierInv

LEMMA InitIInv == Init => IInv
<1> SUFFICES ASSUME Init PROVE IInv
  OBVIOUS
<1>1. BarrierTypeOK
  BY NMaxAssumption, WrapAssumption DEF Init, BarrierTypeOK, Places
<1>2. Active \subseteq Threads
  BY <1>1, NMaxAssumption DEF BarrierTypeOK, Active, Threads
<1>3. Counted = {}
  BY <1>2 DEF Init, Counted, Inside
<1>4. n_barrier = Cardinality(Counted)
  BY <1>3, FS_EmptySet DEF Init
<1>5. QED
  BY <1>1, <1>2, <1>4 DEF Init, IInv, BarrierInv

-----------------------------------------------------------------------------
(* One lemma per kind of step.  Each also says what the step does to       *)
(* Inside and Leaving: the refinement needs it.                            *)

\* Steps of a thread that is not counted, before or after.
Calm(t) == Enter(t) \/ CountThreads(t) \/ LoadPassed(t) \/ Exit(t)

LEMMA CalmStep ==
    ASSUME IInv, NEW t \in Active, Calm(t), UNCHANGED n_threads_cur
    PROVE  /\ IInv'
           /\ Inside' = Inside
           /\ IF Exit(t) THEN t \in Leaving /\ Leaving' = Leaving \ {t}
              ELSE Leaving' = Leaving
<1> USE DEF Calm
<1>0. Active' = Active /\ t \in Threads /\ Active \subseteq Threads
  BY Facts DEF Active
<1>1. at[t] \notin {"reset", "pass"} /\ t \notin Inside
  BY DEF Enter, CountThreads, LoadPassed, Exit, Go, Inside
<1>2. /\ \A u \in Active : at[u] \notin {"reset", "pass"}
      /\ Counted = Inside
      /\ n_barrier = Cardinality(Inside)
  BY <1>1, NoGate
<1>3. BarrierTypeOK'
  BY <1>0 DEF IInv, BarrierTypeOK, Enter, CountThreads, LoadPassed, Exit, Go, Places, shared
<1>4. /\ at'[t] \in {"out", "count", "load", "add"}
      /\ n_barrier_passed' = n_barrier_passed /\ n_barrier' = n_barrier
      /\ at' = [at EXCEPT ![t] = at'[t]]
      /\ n_passed' = [n_passed EXCEPT ![t] = n_passed'[t]]
      /\ n_threads' = [n_threads EXCEPT ![t] = n_threads'[t]]
  BY <1>0 DEF IInv, BarrierTypeOK, Enter, CountThreads, LoadPassed, Exit, Go, shared
<1>5. Inside' = Inside
  BY <1>0, <1>1, <1>4 DEF Inside, IInv, BarrierTypeOK
<1>6. Counted' = Counted /\ \A u \in Active : at'[u] \notin {"reset", "pass"}
  BY <1>0, <1>2, <1>4, <1>5 DEF Counted, IInv, BarrierTypeOK
<1>7. /\ n_threads_cur = 1 => at'[t] \in {"out", "count"}
      /\ at'[t] \notin {"out", "count"} => n_threads'[t] = n_threads_cur
      /\ at'[t] = "add" => n_passed'[t] = n_barrier_passed
  BY <1>0, Facts DEF IInv, BarrierInv, BarrierTypeOK, Enter, CountThreads, LoadPassed, Exit, Go, shared
<1>8. BarrierInv'
  <2>1. (\A u \in Threads \ Active : at[u] = "out")'
    BY <1>0, <1>4 DEF IInv, BarrierInv, BarrierTypeOK
  <2>2. ASSUME NEW u \in Active, u # t
        PROVE  at'[u] = at[u] /\ n_threads'[u] = n_threads[u] /\ n_passed'[u] = n_passed[u]
    BY <1>0, <1>4, <2>2, Facts DEF IInv, BarrierTypeOK
  <2>3. ASSUME NEW u \in Active
        PROVE  /\ n_threads_cur = 1 => at'[u] \in {"out", "count"}
               /\ at'[u] \notin {"out", "count"} => n_threads'[u] = n_threads_cur
               /\ at'[u] = "add" => n_passed'[u] = n_barrier_passed
    BY <1>7, <2>2 DEF IInv, BarrierInv
  <2>4. (n_barrier = IF \E u \in Active : at[u] = "pass" THEN 0 ELSE Cardinality(Counted))'
    BY <1>0, <1>2, <1>4, <1>6
  <2>5. QED
    BY <1>0, <1>4, <1>6, <2>1, <2>3, <2>4 DEF BarrierInv
<1>9. IF Exit(t) THEN t \in Leaving /\ Leaving' = Leaving \ {t} ELSE Leaving' = Leaving
  <2>1. CASE Exit(t)
    BY <1>0, <1>4, <2>1 DEF Exit, Go, Leaving, IInv, BarrierTypeOK
  <2>2. CASE ~Exit(t)
    <3>1. at[t] # "wait" /\ at'[t] # "wait"
      BY <1>4, <2>2 DEF Enter, CountThreads, LoadPassed, Go
    <3>2. QED
      BY <1>0, <1>4, <2>2, <3>1 DEF Leaving, IInv, BarrierTypeOK
  <2>3. QED
    BY <2>1, <2>2
<1>10. QED
  BY <1>3, <1>5, <1>8, <1>9 DEF IInv

\* A thread is counted; the last one sees a full count.
LEMMA AddStep ==
    ASSUME IInv, NEW t \in Active, AddBarrier(t), UNCHANGED n_threads_cur
    PROVE  /\ IInv'
           /\ t \notin Inside \union Leaving
           /\ Leaving' = Leaving
           /\ IF Inside = Active \ {t} THEN Inside' = Inside
              ELSE Inside' = Inside \union {t}
<1>0. Active' = Active /\ t \in Threads /\ Active \subseteq Threads
  BY Facts DEF Active
<1>1. at[t] = "add" /\ t \notin Inside \union Leaving
  BY DEF AddBarrier, Go, Inside, Leaving
<1>2. /\ \A u \in Active : at[u] \notin {"reset", "pass"}
      /\ Counted = Inside
      /\ n_barrier = Cardinality(Inside)
  BY <1>1, NoGate
<1>3. n_threads[t] = n_threads_cur /\ n_passed[t] = n_barrier_passed /\ n_threads_cur # 1
  BY <1>1 DEF IInv, BarrierInv
<1>4. /\ n_barrier \in 0 .. n_threads_cur - 1
      /\ n_barrier = n_threads_cur - 1 <=> Inside = Active \ {t}
      /\ Cardinality(Inside \union {t}) = n_barrier + 1
  <2>1. Inside \in SUBSET Active /\ t \notin Inside
    BY <1>1, Facts
  <2>2. n_threads_cur \in Nat /\ Active = 0 .. n_threads_cur - 1
    BY Facts DEF Active
  <2>3. IsFiniteSet(Active) /\ Cardinality(Active) = n_threads_cur
    BY <2>2, TeamSize
  <2>4. Cardinality(Inside) \in 0 .. Cardinality(Active) - 1
    BY <2>1, <2>3, AllButOne
  <2>5. Cardinality(Inside) = Cardinality(Active) - 1 <=> Inside = Active \ {t}
    BY <2>1, <2>3, AllButOne
  <2>6. Cardinality(Inside \union {t}) = Cardinality(Inside) + 1
    BY <2>1, <2>3, AllButOne
  <2>7. QED
    BY <1>2, <2>3, <2>4, <2>5, <2>6
<1>5. /\ at' = [at EXCEPT ![t] = IF Inside = Active \ {t} THEN "reset" ELSE "wait"]
      /\ n_barrier' = n_barrier + 1
      /\ UNCHANGED <<n_barrier_passed, n_threads, n_passed>>
  BY <1>3, <1>4 DEF AddBarrier, Go
<1>6. BarrierTypeOK'
  <2>1. at' \in [Threads -> Places]
    BY <1>0, <1>5 DEF IInv, BarrierTypeOK, Places
  <2>2. n_barrier' \in 0 .. n_threads_cur'
    BY <1>4, <1>5, Facts
  <2>3. QED
    BY <1>5, <2>1, <2>2 DEF IInv, BarrierTypeOK
<1>7. /\ Leaving' = Leaving
      /\ IF Inside = Active \ {t} THEN Inside' = Inside ELSE Inside' = Inside \union {t}
  BY <1>0, <1>1, <1>3, <1>5 DEF Inside, Leaving, IInv, BarrierTypeOK
<1>8. Counted' = Inside \union {t}
  <2>1. {u \in Active : at'[u] = "reset"} = IF Inside = Active \ {t} THEN {t} ELSE {}
    BY <1>0, <1>2, <1>5 DEF IInv, BarrierTypeOK
  <2>2. QED
    BY <1>0, <1>7, <2>1 DEF Counted
<1>9. BarrierInv'
  <2>1. (\A u \in Threads \ Active : at[u] = "out")'
    BY <1>0, <1>5 DEF IInv, BarrierInv, BarrierTypeOK
  <2>2. ASSUME NEW u \in Active
        PROVE  /\ n_threads_cur = 1 => at'[u] \in {"out", "count"}
               /\ at'[u] \notin {"out", "count"} => n_threads'[u] = n_threads_cur
               /\ at'[u] \in {"add", "reset", "pass"} => n_passed'[u] = n_barrier_passed
    BY <1>0, <1>3, <1>5 DEF IInv, BarrierInv, BarrierTypeOK
  <2>3. ASSUME NEW u \in Active, at'[u] \in {"reset", "pass"}
        PROVE  Active \ {u} \subseteq Inside'
    BY <1>0, <1>2, <1>5, <1>7, <2>3 DEF IInv, BarrierTypeOK
  <2>4. \A u \in Active : at'[u] # "pass"
    BY <1>0, <1>2, <1>5 DEF IInv, BarrierTypeOK
  <2>5. n_barrier' = Cardinality(Counted')
    BY <1>4, <1>5, <1>8
  <2>6. QED
    BY <1>0, <1>5, <2>1, <2>2, <2>3, <2>4, <2>5 DEF BarrierInv
<1>10. QED
  BY <1>1, <1>6, <1>7, <1>9 DEF IInv

\* The last thread resets the counter while all the others spin.
LEMMA ResetStep ==
    ASSUME IInv, NEW t \in Active, ResetBarrier(t), UNCHANGED n_threads_cur
    PROVE  IInv' /\ Inside' = Inside /\ Leaving' = Leaving
<1>0. Active' = Active /\ t \in Threads /\ Active \subseteq Threads
  BY Facts DEF Active
<1>1. /\ at[t] = "reset" /\ at' = [at EXCEPT ![t] = "pass"] /\ n_barrier' = 0
      /\ UNCHANGED <<n_barrier_passed, n_threads, n_passed>>
  BY DEF ResetBarrier, Go
<1>2. /\ Inside = Active \ {t}
      /\ \A u \in Active \ {t} : at[u] = "wait" /\ n_passed[u] = n_barrier_passed
      /\ n_passed[t] = n_barrier_passed
  BY <1>1, Gate
<1>3. BarrierTypeOK'
  <2>1. at' \in [Threads -> Places]
    BY <1>0, <1>1 DEF IInv, BarrierTypeOK, Places
  <2>2. QED
    BY <1>1, <2>1, Facts DEF IInv, BarrierTypeOK
<1>4. Inside' = Inside /\ Leaving' = Leaving
  BY <1>0, <1>1 DEF Inside, Leaving, IInv, BarrierTypeOK
<1>5. BarrierInv'
  <2>1. (\A u \in Threads \ Active : at[u] = "out")'
    BY <1>0, <1>1 DEF IInv, BarrierInv, BarrierTypeOK
  <2>2. at'[t] = "pass" /\ \A u \in Active \ {t} : at'[u] = "wait"
    BY <1>0, <1>1, <1>2 DEF IInv, BarrierTypeOK
  <2>3. n_threads_cur # 1 /\ \A u \in Active : n_threads[u] = n_threads_cur
    BY <1>1, <1>2 DEF IInv, BarrierInv
  <2>4. QED
    BY <1>0, <1>1, <1>2, <1>4, <2>1, <2>2, <2>3 DEF BarrierInv
<1>6. QED
  BY <1>3, <1>4, <1>5 DEF IInv

\* It lets the others go; n_barrier_passed differs from what they wait on.
LEMMA PassStep ==
    ASSUME IInv, NEW t \in Active, AddPassed(t), UNCHANGED n_threads_cur
    PROVE  /\ IInv'
           /\ t \notin Inside \union Leaving /\ Inside = Active \ {t}
           /\ Inside' = {} /\ Leaving' = Active \ {t}
<1>0. Active' = Active /\ t \in Threads /\ Active \subseteq Threads
  BY Facts DEF Active
<1>1. /\ at[t] = "pass" /\ at' = [at EXCEPT ![t] = "out"]
      /\ n_barrier_passed' = (n_barrier_passed + 1) % Wrap
      /\ UNCHANGED <<n_barrier, n_threads, n_passed>>
  BY DEF AddPassed, Go
<1>2. /\ Inside = Active \ {t}
      /\ \A u \in Active \ {t} : at[u] = "wait" /\ n_passed[u] = n_barrier_passed
  BY <1>1, Gate
<1>3. n_barrier_passed' \in 0 .. Wrap - 1 /\ n_barrier_passed' # n_barrier_passed
  <2>1. n_barrier_passed \in 0 .. Wrap - 1
    BY DEF IInv, BarrierTypeOK
  <2>2. CASE n_barrier_passed = Wrap - 1
    BY <1>1, <2>1, <2>2, WrapAssumption
  <2>3. CASE n_barrier_passed < Wrap - 1
    <3>1. n_barrier_passed + 1 \in 0 .. Wrap - 1
      BY <2>1, <2>3, WrapAssumption
    <3>2. (n_barrier_passed + 1) % Wrap = n_barrier_passed + 1
      BY <3>1, WrapAssumption
    <3>3. QED
      BY <1>1, <3>1, <3>2, <2>1
  <2>4. QED
    BY <2>1, <2>2, <2>3, WrapAssumption
<1>4. BarrierTypeOK'
  <2>1. at' \in [Threads -> Places]
    BY <1>0, <1>1 DEF IInv, BarrierTypeOK, Places
  <2>2. QED
    BY <1>1, <1>3, <2>1 DEF IInv, BarrierTypeOK
<1>5. at'[t] = "out" /\ \A u \in Active \ {t} : at'[u] = "wait" /\ n_passed'[u] # n_barrier_passed'
  BY <1>0, <1>1, <1>2, <1>3 DEF IInv, BarrierTypeOK
<1>6. Inside' = {} /\ Leaving' = Active \ {t}
  BY <1>0, <1>5 DEF Inside, Leaving
<1>7. Counted' = {}
  BY <1>0, <1>5, <1>6 DEF Counted
<1>8. n_barrier = 0
  BY <1>1 DEF IInv, BarrierInv
<1>9. BarrierInv'
  <2>1. (\A u \in Threads \ Active : at[u] = "out")'
    BY <1>0, <1>1 DEF IInv, BarrierInv, BarrierTypeOK
  <2>2. n_threads_cur # 1 /\ \A u \in Active : n_threads[u] = n_threads_cur
    BY <1>1, <1>2 DEF IInv, BarrierInv
  <2>3. QED
    BY <1>0, <1>1, <1>5, <1>7, <1>8, <2>1, <2>2, FS_EmptySet DEF BarrierInv
<1>10. t \notin Inside \union Leaving
  BY <1>1 DEF Inside, Leaving
<1>11. QED
  BY <1>2, <1>4, <1>6, <1>9, <1>10 DEF IInv

LEMMA StepIInv == IInv /\ [Next]_barrierVars => IInv'
<1> SUFFICES ASSUME IInv, [Next]_barrierVars PROVE IInv'
  OBVIOUS
<1>1. ASSUME NEW t \in Active, Enter(t) \/ BarrierStep(t), UNCHANGED n_threads_cur
      PROVE  IInv'
  BY <1>1, CalmStep, AddStep, ResetStep, PassStep DEF BarrierStep, Calm
<1>2. CASE UNCHANGED barrierVars
  BY <1>2 DEF barrierVars, shared, local, IInv, BarrierTypeOK, BarrierInv, Inside,
              Counted, Active
<1>3. QED
  BY <1>1, <1>2 DEF Next

-----------------------------------------------------------------------------
\* In every build, whatever the number of threads: the barrier's variables
\* have their types, and n_barrier never exceeds the number of threads.
THEOREM BarrierTypeCorrect == Spec => []BarrierTypeOK
<1>1. IInv => BarrierTypeOK
  BY DEF IInv
<1>2. QED
  BY InitIInv, StepIInv, <1>1, PTL DEF Spec

\* n_barrier counts the threads inside, and the thread that resets it does so
\* while all the others are inside.
THEOREM BarrierCorrect == Spec => []BarrierInv
<1>1. IInv => BarrierInv
  BY DEF IInv
<1>2. QED
  BY InitIInv, StepIInv, <1>1, PTL DEF Spec

LEMMA InitRendezvous == Init => R!Init
<1> SUFFICES ASSUME Init PROVE R!Init
  OBVIOUS
<1>1. n_threads_cur \in 1 .. NMax /\ Active = 0 .. n_threads_cur - 1
  BY DEF Init, Active
<1>2. Active \subseteq Threads
  BY <1>1, NMaxAssumption DEF Active, Threads
<1>3. Inside = {} /\ Leaving = {}
  BY <1>2 DEF Init, Inside, Leaving
<1>4. QED
  BY <1>1, <1>3 DEF R!Init

\* Counting a thread is its arrival, unless it is the last one; letting the
\* others go is the release, and coming out is the leaving.
LEMMA StepRendezvous ==
    IInv /\ [Next]_barrierVars => [R!Next]_<<Active, Inside, Leaving>>
<1> SUFFICES ASSUME IInv, [Next]_barrierVars
             PROVE  [R!Next]_<<Active, Inside, Leaving>>
  OBVIOUS
<1>1. ASSUME NEW t \in Active, Calm(t), UNCHANGED n_threads_cur
      PROVE  R!Next \/ UNCHANGED <<Active, Inside, Leaving>>
  BY <1>1, CalmStep DEF R!Next, R!Leave, Active
<1>2. ASSUME NEW t \in Active, AddBarrier(t), UNCHANGED n_threads_cur
      PROVE  R!Next \/ UNCHANGED <<Active, Inside, Leaving>>
  <2>1. /\ t \notin Inside \union Leaving /\ Leaving' = Leaving /\ Active' = Active
        /\ Inside = Active \ {t} => Inside' = Inside
        /\ Inside # Active \ {t} => Inside' = Inside \union {t}
    BY <1>2, AddStep DEF Active
  <2>2. Inside # Active \ {t} => Inside \union {t} # Active
    BY <2>1
  <2>3. CASE Inside # Active \ {t}
    BY <2>1, <2>2, <2>3 DEF R!Next, R!Arrive, R!Away
  <2>4. QED
    BY <2>1, <2>3
<1>3. ASSUME NEW t \in Active, ResetBarrier(t), UNCHANGED n_threads_cur
      PROVE  UNCHANGED <<Active, Inside, Leaving>>
  BY <1>3, ResetStep DEF Active
<1>4. ASSUME NEW t \in Active, AddPassed(t), UNCHANGED n_threads_cur
      PROVE  R!Next
  <2>1. /\ t \notin Inside \union Leaving /\ Inside \union {t} = Active
        /\ Inside' = {} /\ Leaving' = Active \ {t} /\ Active' = Active
    BY <1>4, PassStep DEF Active
  <2>2. QED
    BY <2>1 DEF R!Next, R!Release, R!Away
<1>5. CASE UNCHANGED barrierVars
  BY <1>5 DEF barrierVars, shared, local, Active, Inside, Leaving
<1>6. QED
  BY <1>1, <1>2, <1>3, <1>4, <1>5 DEF Next, BarrierStep, Calm

\* ggml_barrier is a rendezvous of the graph's threads.
THEOREM BarrierImplementsRendezvous == Spec => IsRendezvous
<1>1. Spec => []IInv
  BY InitIInv, StepIInv, PTL DEF Spec
<1>2. QED
  BY <1>1, InitRendezvous, StepRendezvous, PTL DEF Spec, IsRendezvous, R!Spec, R!vars

-----------------------------------------------------------------------------
(* The pool.                                                               *)

Idle == {"loop", "pausing", "paused", "unpause", "look", "poll0", "poll", "lock", "asleep",
         "exit"}
MainPlaces == {"user", "kick", "publish", "wake", "free", "unpause", "join"}
Working == {"start", "for", "node", "chunk", "fetch", "after", "end"}
PCs == Idle \union MainPlaces \union Working \union {"fresh"}
Pool == [n_graph : Nat, chunk : Nat, stop : BOOLEAN, pause : BOOLEAN, abort : Int,
         ok : BOOLEAN, n_threads_max : Nat, cgraph : Nat]
Worker == [last_graph : Nat, node : Nat, nth : Nat, chunk : Nat, cgraph : Nat]
Cells == 0 .. NChunks + 4 * NMax

Types ==
    /\ tp \in Pool /\ ws \in [Threads -> Worker] /\ pc \in [Threads -> PCs]
    /\ graphs \in Nat
    /\ done \in [Nodes -> [Cells -> Nat]]

\* The number n_graph has, or is about to get, for the graph submitted last; 0 when
\* no graph has been submitted to the pool.
Graph == tp.n_graph + IF pc[0] \in {"kick", "publish"} THEN 1 ELSE 0
\* The main thread between graphs.
Between == {"user", "free", "unpause", "join"}

\* Where the threads of the pool may be.  A worker has seen the last graph when its
\* last_graph says so, and has been through all of the graphs before.
Shape ==
    /\ kind \in Kinds \union {"none"}
    /\ \A t \in Threads : at[t] # "out" =>
         pc[t] \in {"chunk", "end"} \/ (pc[t] = "for" /\ ws[t].node \in 1 .. NNodes - 1)
    /\ kind = "none" => pc[0] = "user" /\ \A t \in Workers : pc[t] = "exit"
    /\ kind # "none" =>
         /\ tp.n_threads_max = n_threads_cur
         /\ kind = "persistent" => tp.n_threads_max = NMax
         /\ \A t \in Threads \ Active : pc[t] = "exit"
         /\ pc[0] \in MainPlaces \union Working
         /\ pc[0] \notin Between => Graph > 0
         /\ \A t \in Workers :
              /\ pc[t] \in Idle \union Working \union {"fresh"}
              /\ ws[t].last_graph <= tp.n_graph
              /\ ws[t].last_graph \in {Graph - 1, Graph}
              /\ pc[t] \notin Idle \union {"end"} => ws[t].last_graph = Graph
         /\ \A t \in Active :
              /\ ws[t].node \in 0 .. NNodes
              /\ pc[t] \in {"node", "chunk", "fetch", "after"} => ws[t].node < NNodes
              /\ pc[t] \in Working \ {"start"} => ws[t].nth = n_threads_cur

\* A thread has left the graph, or is in the barrier at its end.
Over(t) == IF t = 0 THEN pc[t] \in Between \union {"end"}
           ELSE pc[t] \in Idle \union {"end"} /\ ws[t].last_graph = Graph

\* The stretches of a graph between two barriers: 2 k before the barrier in the middle
\* of node k, 2 k + 1 after it, End after the last one.  Before the first barrier
\* that a thread at "for" has to come to is Before.
Last == 2 * NNodes + 1
Before(k) == IF k = 0 THEN 0 ELSE IF k = NNodes THEN 2 * k - 1 ELSE 2 * k
Ahead(t) == IF Over(t) THEN Last
            ELSE IF pc[t] \in {"for", "node"} THEN Before(ws[t].node)
            ELSE IF pc[t] \in {"chunk", "fetch", "after"} THEN 2 * ws[t].node + 1
            ELSE 0
Behind(t) == IF Over(t) THEN Before(ws[t].node)
             ELSE IF pc[t] = "for" THEN 2 * ws[t].node - 1
             ELSE 2 * ws[t].node
\* Has the thread come to a barrier it may not leave yet?
Held(t) == at[t] # "out" /\ t \notin Leaving
Round(t) == IF Held(t) THEN Behind(t) ELSE Ahead(t)

\* Who is held has seen the graph: nobody is left in a barrier of an earlier one.
HeldNow == \A t \in Active : t # 0 /\ Held(t) => ws[t].last_graph = Graph

\* What the barriers are for.
SameRound == \A t \in Active : Round(t) = Round(0)

\* Who sees the abort sees it before the node it stops at.
AbortSeen ==
    /\ \A t \in Active : pc[t] \in {"node", "chunk", "fetch", "after"} => tp.abort # ws[t].node
    /\ \A t \in Active : Graph > 0 /\ Over(t) /\ ws[t].node < NNodes => tp.abort = ws[t].node
    /\ IF tp.ok THEN tp.abort = -1
       ELSE tp.abort = ws[0].node /\ tp.abort > 0 /\ (pc[0] = "for" \/ Over(0))

\* The chunk counter and the chunks the threads hold.
Holds(t, c) == pc[t] = "chunk" /\ ws[t].chunk = c
ChunksHeld ==
    /\ \A t \in Active : Held(t) /\ pc[t] = "chunk" =>
         ws[t].chunk = t /\ (t = 0 => tp.chunk = n_threads_cur)
    /\ \A k \in Nodes : Round(0) = 2 * k + 1 =>
         /\ tp.chunk >= n_threads_cur
         /\ \A t \in Active : pc[t] = "chunk" => ws[t].chunk < tp.chunk
         /\ \A t, u \in Active : t # u /\ pc[t] = "chunk" => ~Holds(u, ws[t].chunk)
         /\ \A t \in Active : pc[t] \notin {"chunk", "fetch"} =>
              \A c \in 0 .. ChunksFor(n_threads_cur) - 1 : c < n_threads_cur \/ c < tp.chunk

\* What has been computed when.
Computed(k, c) ==
    IF Round(0) = Last THEN k < ws[0].node
    ELSE IF Round(0) = 2 * k + 1
         THEN (c < n_threads_cur \/ c < tp.chunk) /\ \A t \in Active : ~Holds(t, c)
         ELSE Round(0) > 2 * k + 1
ChunksDone ==
    \A k \in Nodes, c \in 0 .. ChunksFor(n_threads_cur) - 1 :
        done[k][c] = IF Computed(k, c) THEN 1 ELSE 0

Coordinated == HeldNow /\ SameRound /\ AbortSeen /\ ChunksHeld /\ ChunksDone

PoolInv ==
    /\ IInv /\ Types /\ Shape
    /\ kind # "none" => Coordinated

-----------------------------------------------------------------------------
LEMMA Numbers ==
    /\ NMax \in Nat /\ NMax >= 1 /\ NNodes \in Nat /\ NChunks \in Nat
    /\ 0 \in Threads /\ Threads \subseteq Nat
    /\ 0 \notin Workers /\ Workers \subseteq Threads
BY NMaxAssumption, PoolAssumption DEF Threads, Workers

LEMMA Team ==
    ASSUME IInv
    PROVE  /\ n_threads_cur \in Nat /\ n_threads_cur >= 1 /\ n_threads_cur <= NMax
           /\ 0 \in Active /\ Active \subseteq Threads
           /\ \A t \in Active : t < n_threads_cur
           /\ \A t \in Threads : at[t] # "out" => t \in Active
<1>1. n_threads_cur \in 1 .. NMax
  BY DEF IInv, BarrierTypeOK
<1>2. QED
  BY <1>1, Numbers, Facts DEF Active

LEMMA ChunkCells ==
    ASSUME NEW n \in Nat, n >= 1, n <= NMax
    PROVE  /\ ChunksFor(n) \in Nat /\ ChunksFor(n) >= n
           /\ 0 .. ChunksFor(n) - 1 \subseteq Cells
BY Numbers DEF ChunksFor, Cells

\* The pools that are made.
LEMMA Creations ==
    ASSUME NewDisposable \/ NewPersistent
    PROVE  \E k \in Kinds, n \in 1 .. NMax, p \in BOOLEAN :
             Create(k, n, p) /\ k \in {"disposable", "persistent"} /\ (k = "persistent" => n = NMax)
<1>1. CASE NewDisposable
  <2>1. PICK n \in Sizes : Create("disposable", n, FALSE)
    BY <1>1 DEF NewDisposable
  <2>2. n \in 1 .. NMax
    BY PoolAssumption
  <2>3. "disposable" \in Kinds
    BY <1>1 DEF NewDisposable
  <2>4. QED
    BY <2>1, <2>2, <2>3
<1>2. CASE NewPersistent
  <2>1. PICK p \in BOOLEAN : Create("persistent", NMax, p)
    BY <1>2 DEF NewPersistent
  <2>2. NMax \in 1 .. NMax
    BY Numbers
  <2>3. "persistent" \in Kinds
    BY <1>2 DEF NewPersistent
  <2>4. QED
    BY <2>1, <2>2, <2>3
<1>3. QED
  BY <1>1, <1>2

-----------------------------------------------------------------------------
(* Types.                                                                  *)
LEMMA NoWorkTypes == NoWork \in [Nodes -> [Cells -> Nat]]
BY DEF NoWork, Cells

LEMMA GoTypes ==
    ASSUME Types, NEW t, NEW l \in PCs, To(t, l)
    PROVE  pc' \in [Threads -> PCs]
BY DEF Types, To

LEMMA WakeTypes ==
    ASSUME Types, NEW t, NEW l \in PCs, Broadcast(t, l)
    PROVE  pc' \in [Threads -> PCs]
<1>1. \A p \in PCs : Signalled(p) \in PCs
  BY DEF Signalled, PCs, Idle
<1>2. QED
  BY <1>1 DEF Types, Broadcast

LEMMA MainTypes ==
    ASSUME Types, Main PROVE Types'
<1> USE DEF Types
<1>1. ASSUME NEW k, NEW n \in 1 .. NMax, NEW p \in BOOLEAN, Create(k, n, p) PROVE Types'
  <2>1. n \in Nat
    BY Numbers
  <2>2. tp' \in Pool
    <3>1. NewPool \in Pool
      BY Numbers DEF NewPool, Pool
    <3>2. tp' = [NewPool EXCEPT !.n_threads_max = n, !.pause = p,
                                !.cgraph = IF k = "disposable" THEN graphs + 1 ELSE 0]
      BY <1>1 DEF Create
    <3>3. (IF k = "disposable" THEN graphs + 1 ELSE 0) \in Nat
      OBVIOUS
    <3>4. QED
      BY <2>1, <3>1, <3>2, <3>3 DEF Pool
  <2>3. ws' \in [Threads -> Worker]
    BY <1>1 DEF Create, NewWorker, Worker
  <2>4. pc' \in [Threads -> PCs]
    BY <1>1 DEF Create, PCs, Idle, MainPlaces
  <2>5. graphs' \in Nat /\ done' \in [Nodes -> [Cells -> Nat]]
    BY <1>1, NoWorkTypes DEF Create
  <2>6. QED
    BY <2>2, <2>3, <2>4, <2>5
<1>2. CASE NewDisposable \/ NewPersistent
  BY <1>1, <1>2, Creations
<1>3. CASE Submit
  <2>1. tp' = [tp EXCEPT !.cgraph = graphs + 1, !.chunk = 0, !.abort = -1, !.ok = TRUE]
    BY <1>3 DEF Submit
  <2>2. tp' \in Pool /\ graphs' \in Nat
    <3>1. tp \in Pool /\ graphs + 1 \in Nat /\ graphs' = graphs + 1
      BY <1>3 DEF Submit
    <3>2. QED
      BY <2>1, <3>1, -1 \in Int DEF Pool
  <2>3. pc' \in [Threads -> PCs]
    BY <1>3 DEF Submit, Step, To, PCs, MainPlaces
  <2>4. QED
    BY <1>3, <2>2, <2>3, NoWorkTypes DEF Submit
<1>4. ASSUME NEW n, Kick(n) PROVE Types'
  <2>1. pc' \in [Threads -> PCs]
    BY <1>4 DEF Kick, Step, To, PCs, MainPlaces
  <2>2. QED
    BY <1>4, <2>1 DEF Kick
<1>5. CASE Publish
  <2>1. tp' \in Pool
    BY <1>5 DEF Publish, Pool
  <2>2. pc' \in [Threads -> PCs]
    BY <1>5 DEF Publish, Step, To, PCs, MainPlaces
  <2>3. QED
    BY <1>5, <2>1, <2>2 DEF Publish, poolVars
<1>6. ASSUME NEW l \in PCs, Broadcast(0, l), NEW b \in BOOLEAN, tp' = [tp EXCEPT !.pause = b],
             UNCHANGED <<graphs, ws, done>>
      PROVE  Types'
  <2>1. tp' \in Pool
    BY <1>6 DEF Pool
  <2>2. QED
    BY <1>6, <2>1, WakeTypes
<1>7. CASE Wake \/ ClearPause \/ \E p \in BOOLEAN : SetPause(p)
  <2>1. {"start", "join", "user"} \subseteq PCs
    BY DEF PCs, MainPlaces, Working
  <2>2. QED
    BY <1>6, <1>7, <2>1 DEF Wake, ClearPause, SetPause, poolVars
<1>8. CASE SetStop
  <2>1. tp' \in Pool
    BY <1>8 DEF SetStop, Pool
  <2>2. pc' \in [Threads -> PCs]
    BY <1>8 DEF SetStop, Step, To, PCs, MainPlaces
  <2>3. QED
    BY <1>8, <2>1, <2>2 DEF SetStop
<1>9. CASE Return \/ FreePersistent \/ Join
  <2>1. pc' \in [Threads -> PCs]
    BY <1>9 DEF Return, FreePersistent, Join, Step, To, PCs, MainPlaces
  <2>2. QED
    BY <1>9, <2>1 DEF Return, FreePersistent, Join, poolVars
<1>10. QED
  BY <1>2, <1>3, <1>4, <1>5, <1>7, <1>8, <1>9 DEF Main

LEMMA WaitTypes ==
    ASSUME Types, NEW t \in Workers, Wait(t) \/ Spurious(t) \/ BackToLoop(t) PROVE Types'
<1> USE DEF Types
<1>1. UNCHANGED <<tp, graphs, done>>
  BY DEF Wait, LookAtPause, PauseUnderLock, Unpaused, LookAtStop, PollOrSleep, PollReady,
         PollActive, SleepReady, Spurious, BackToLoop, Quiet, Private, poolVars
<1>2. ws' \in [Threads -> Worker]
  <2>1. [ws EXCEPT ![t].last_graph = tp.n_graph] \in [Threads -> Worker]
    BY DEF Pool, Worker
  <2>2. ws' = ws \/ ws' = [ws EXCEPT ![t].last_graph = tp.n_graph]
    BY DEF Wait, LookAtPause, PauseUnderLock, Unpaused, LookAtStop, PollOrSleep, PollReady,
           PollActive, SleepReady, Spurious, BackToLoop, Quiet, Private
  <2>3. QED
    BY <2>1, <2>2
<1>3. pc' \in [Threads -> PCs]
  <2>1. \E l \in PCs : To(t, l)
    BY DEF Wait, LookAtPause, PauseUnderLock, Unpaused, LookAtStop, PollOrSleep, PollReady,
           PollActive, SleepReady, Spurious, BackToLoop, Step, PCs, Idle, Working, Signalled
  <2>2. QED
    BY <2>1, GoTypes
<1>4. QED
  BY <1>1, <1>2, <1>3

LEMMA ComputeTypes ==
    ASSUME IInv, Types, NEW t \in Active, Compute(t),
           pc[t] \in {"node", "chunk", "fetch", "after"} => ws[t].node \in Nodes
    PROVE  Types'
<1> USE DEF Types
<1>1. t \in Threads /\ t \in Nat /\ n_threads_cur \in Nat
  BY Team, Numbers
<1>2. graphs' = graphs
  BY DEF Compute, Start, For, Node, Chunk, Fetch, After, Barrier, Private, poolVars
<1>3. pc' \in [Threads -> PCs]
  <2>1. pc' = pc \/ \E l \in PCs : To(t, l)
    BY DEF Compute, Start, For, Node, Chunk, Fetch, After, Barrier, Step, PCs, Working
  <2>2. QED
    BY <2>1, GoTypes
<1>4. tp' \in Pool
  <2>1. [tp EXCEPT !.chunk = ws[t].nth] \in Pool /\ [tp EXCEPT !.chunk = @ + 1] \in Pool
    BY <1>1 DEF Pool, Worker
  <2>2. [tp EXCEPT !.abort = ws[t].node + 1, !.ok = FALSE] \in Pool
    <3>1. tp \in Pool /\ ws[t].node + 1 \in Int
      BY <1>1 DEF Worker
    <3>2. QED
      BY <3>1 DEF Pool
  <2>3. tp' \in {tp, [tp EXCEPT !.chunk = ws[t].nth], [tp EXCEPT !.chunk = @ + 1],
                 [tp EXCEPT !.abort = ws[t].node + 1, !.ok = FALSE]}
    BY DEF Compute, Start, For, Node, Chunk, Fetch, After, Barrier, Private
  <2>4. QED
    BY <2>1, <2>2, <2>3
<1>5. ws' \in [Threads -> Worker]
  <2>1. CASE Start(t)
    BY <1>1, <2>1 DEF Start, Worker, Pool
  <2>2. CASE Node(t)
    BY <1>1, <2>2 DEF Node, Worker
  <2>3. CASE Fetch(t)
    BY <1>1, <2>3 DEF Fetch, Worker, Pool
  <2>4. CASE After(t)
    BY <1>1, <2>4 DEF After, Worker
  <2>5. CASE For(t) \/ Chunk(t) \/ Barrier(t)
    BY <2>5 DEF For, Chunk, Barrier
  <2>6. QED
    BY <2>1, <2>2, <2>3, <2>4, <2>5 DEF Compute
<1>6. done' \in [Nodes -> [Cells -> Nat]]
  <2>1. CASE Chunk(t)
    <3>1. ws[t].node \in Nodes
      BY <2>1 DEF Chunk, At
    <3>2. done' = done \/ done' = [done EXCEPT ![ws[t].node][ws[t].chunk] = @ + 1]
      BY <2>1 DEF Chunk
    <3>3. ASSUME NEW f \in [Cells -> Nat], NEW c
          PROVE  [f EXCEPT ![c] = @ + 1] \in [Cells -> Nat]
      <4>1. ASSUME NEW d \in Cells PROVE [f EXCEPT ![c] = @ + 1][d] \in Nat
        BY <4>1
      <4>2. QED
        BY <4>1
    <3>4. QED
      BY <3>1, <3>2, <3>3
  <2>2. CASE ~Chunk(t)
    BY <2>2 DEF Compute, Start, For, Node, Fetch, After, Barrier, Private
  <2>3. QED
    BY <2>1, <2>2
<1>7. QED
  BY <1>2, <1>3, <1>4, <1>5, <1>6

-----------------------------------------------------------------------------
(* Steps outside of graphs.                                                *)
GraphPlaces == {"for", "node", "chunk", "fetch", "after"}

\* Whoever is in the graph stays where it is.
Undisturbed ==
    /\ UNCHANGED <<barrierVars, kind, done>>
    /\ tp'.chunk = tp.chunk /\ tp'.abort = tp.abort /\ tp'.ok = tp.ok /\ Graph' = Graph
    /\ \A t \in Active :
         /\ ws'[t].node = ws[t].node /\ ws'[t].nth = ws[t].nth /\ ws'[t].chunk = ws[t].chunk
         /\ Over(t)' <=> Over(t)
         /\ pc'[t] = pc[t] \/ (pc[t] \notin GraphPlaces /\ pc'[t] \notin GraphPlaces)
         /\ Held(t) => ws'[t].last_graph = ws[t].last_graph

LEMMA UndisturbedKept ==
    ASSUME IInv, Types, Coordinated, Undisturbed
    PROVE  Coordinated'
<1>0. 0 \in Active /\ Active' = Active /\ Leaving' = Leaving /\ at' = at /\ n_threads_cur' = n_threads_cur
  BY Team DEF Undisturbed, barrierVars, shared, local, Active, Leaving
<1>1. ASSUME NEW t \in Active
      PROVE  /\ Held(t)' <=> Held(t)
             /\ Round(t)' = Round(t)
             /\ \A l \in GraphPlaces : pc'[t] = l <=> pc[t] = l
  <2>1. Held(t)' <=> Held(t)
    BY <1>0 DEF Held
  <2>2. \A l \in GraphPlaces : pc'[t] = l <=> pc[t] = l
    BY DEF Undisturbed
  <2>3. /\ pc'[t] \in {"for", "node"} <=> pc[t] \in {"for", "node"}
        /\ pc'[t] \in {"chunk", "fetch", "after"} <=> pc[t] \in {"chunk", "fetch", "after"}
        /\ pc'[t] = "for" <=> pc[t] = "for"
    BY <2>2 DEF GraphPlaces
  <2>4. ws'[t].node = ws[t].node /\ (Over(t)' <=> Over(t))
    BY DEF Undisturbed
  <2>5. Ahead(t)' = Ahead(t)
    BY <2>3, <2>4 DEF Ahead
  <2>6. Behind(t)' = Behind(t)
    BY <2>3, <2>4 DEF Behind
  <2>7. QED
    BY <2>1, <2>2, <2>5, <2>6 DEF Round
<1>2. SameRound' /\ HeldNow'
  BY <1>0, <1>1 DEF SameRound, HeldNow, Coordinated, Undisturbed
<1>3. AbortSeen'
  <2>1. \A t \in Active : /\ ws'[t].node = ws[t].node /\ (Over(t)' <=> Over(t))
                          /\ pc'[t] = "for" <=> pc[t] = "for"
                          /\ pc'[t] \in {"node", "chunk", "fetch", "after"}
                               <=> pc[t] \in {"node", "chunk", "fetch", "after"}
    BY <1>1 DEF Undisturbed, GraphPlaces
  <2>2. QED
    BY <1>0, <2>1 DEF AbortSeen, Coordinated, Undisturbed
<1>4. \A t \in Active : \A c : Holds(t, c)' <=> Holds(t, c)
  BY <1>1 DEF Holds, Undisturbed, GraphPlaces
<1>5. \A t \in Active : /\ pc'[t] = "chunk" <=> pc[t] = "chunk"
                        /\ pc'[t] = "fetch" <=> pc[t] = "fetch"
                        /\ ws'[t].chunk = ws[t].chunk
  BY <1>1 DEF GraphPlaces, Undisturbed
<1>6. Round(0)' = Round(0) /\ \A t \in Active : Held(t)' <=> Held(t)
  BY <1>0, <1>1
<1>7. ChunksHeld'
  BY <1>0, <1>4, <1>5, <1>6 DEF ChunksHeld, Holds, Coordinated, Undisturbed
<1>8. ChunksDone'
  BY <1>0, <1>4, <1>6 DEF ChunksDone, Computed, Coordinated, Undisturbed
<1>9. QED
  BY <1>2, <1>3, <1>7, <1>8 DEF Coordinated

LEMMA CalmBarrier == ASSUME IInv, UNCHANGED barrierVars PROVE IInv'
BY StepIInv

LEMMA NobodyInBarrier ==
    ASSUME Shape, Types, kind = "none"
    PROVE  \A t \in Threads : at[t] = "out" /\ pc[t] = (IF t = 0 THEN "user" ELSE "exit")
BY Numbers DEF Shape, Workers

\* A graph nobody has been at yet, with the threads anywhere outside of it.
LEMMA GraphBegins ==
    ASSUME Active' \subseteq Threads, 0 \in Active', n_threads_cur' \in Nat,
           n_threads_cur' >= 1, n_threads_cur' <= NMax,
           \A t \in Active' : /\ ~Held(t)' /\ pc'[t] \notin GraphPlaces
                              /\ t # 0 => ws'[t].last_graph # Graph',
           pc'[0] = "kick", tp'.abort = -1, tp'.ok = TRUE, done' = NoWork
    PROVE  Coordinated'
<1>1. \A t \in Active' : ~Over(t)' /\ Round(t)' = 0
  <2>1. \A t \in Active' : ~Over(t)'
    BY DEF Over, Between
  <2>2. QED
    BY <2>1 DEF Round, Ahead, GraphPlaces
<1>2. \A t \in Active' : pc'[t] \notin {"node", "chunk", "fetch", "after"}
  BY DEF GraphPlaces
<1>3. Round(0)' = 0 /\ \A k \in Nodes : 0 # 2 * k + 1 /\ ~(0 > 2 * k + 1) /\ 0 # Last
  BY <1>1, Numbers DEF Nodes, Last
<1>4. HeldNow' /\ SameRound'
  BY <1>1 DEF HeldNow, SameRound
<1>5. AbortSeen'
  BY <1>1, <1>2 DEF AbortSeen
<1>6. ChunksHeld'
  BY <1>3 DEF ChunksHeld
<1>7. ChunksDone'
  <2>1. ASSUME NEW k \in Nodes, NEW c \in 0 .. ChunksFor(n_threads_cur') - 1
        PROVE  ~Computed(k, c)' /\ done'[k][c] = 0
    <3>1. c \in Cells
      BY ChunkCells
    <3>2. done'[k][c] = 0
      BY <3>1 DEF NoWork, Cells
    <3>3. QED
      BY <1>3, <3>2 DEF Computed
  <2>2. QED
    BY <2>1 DEF ChunksDone
<1>8. QED
  BY <1>4, <1>5, <1>6, <1>7 DEF Coordinated

\* A pool that no graph has been submitted to.
LEMMA NoGraphYet ==
    ASSUME Active' \subseteq Threads, 0 \in Active', n_threads_cur' \in Nat,
           n_threads_cur' >= 1, n_threads_cur' <= NMax, Graph' = 0,
           \A t \in Active' : /\ ~Held(t)' /\ ws'[t].node = 0
                              /\ t # 0 => pc'[t] \in Idle /\ ws'[t].last_graph = 0,
           pc'[0] = "user", tp'.abort = -1, tp'.ok = TRUE, done' = NoWork
    PROVE  Coordinated'
<1>1. \A t \in Active' : Over(t)' /\ Round(t)' = Last
  <2>1. \A t \in Active' : Over(t)'
    BY DEF Over, Between
  <2>2. QED
    BY <2>1 DEF Round, Ahead
<1>2. \A t \in Active' : pc'[t] \notin {"node", "chunk", "fetch", "after"}
  BY DEF Idle
<1>3. Round(0)' = Last /\ \A k \in Nodes : Last # 2 * k + 1 /\ ~(k < ws'[0].node)
  BY <1>1, Numbers DEF Nodes, Last
<1>4. HeldNow' /\ SameRound'
  BY <1>1 DEF HeldNow, SameRound
<1>5. AbortSeen'
  BY <1>2 DEF AbortSeen
<1>6. ChunksHeld'
  <2>1. \A t \in Active' : ~Held(t)'
    OBVIOUS
  <2>2. QED
    BY <1>3, <2>1 DEF ChunksHeld
<1>7. ChunksDone'
  <2>1. ASSUME NEW k \in Nodes, NEW c \in 0 .. ChunksFor(n_threads_cur') - 1
        PROVE  ~Computed(k, c)' /\ done'[k][c] = 0
    <3>1. c \in Cells
      BY ChunkCells
    <3>2. done'[k][c] = 0
      BY <3>1 DEF NoWork, Cells
    <3>3. QED
      BY <1>3, <3>2 DEF Computed
  <2>2. QED
    BY <2>1 DEF ChunksDone
<1>8. QED
  BY <1>4, <1>5, <1>6, <1>7 DEF Coordinated

LEMMA PoolMade ==
    ASSUME PoolInv, NEW k \in Kinds, k \in {"disposable", "persistent"},
           NEW n \in 1 .. NMax, k = "persistent" => n = NMax,
           NEW p \in BOOLEAN, Create(k, n, p)
    PROVE  IInv' /\ Shape' /\ Coordinated'
<1>1. /\ n \in Nat /\ n_threads_cur' = n /\ at' = at
      /\ n_barrier' = 0 /\ n_barrier_passed' = 0
      /\ n_threads' = n_threads /\ n_passed' = n_passed /\ kind' = k
  BY Numbers DEF Create, local
<1>2. \A t \in Threads : at[t] = "out"
  BY NobodyInBarrier DEF PoolInv, Create
<1>3. Active' \subseteq Threads /\ 0 \in Active'
  BY <1>1, Numbers DEF Active, Threads
<1>4. IInv'
  <2>1. BarrierTypeOK'
    BY <1>1, WrapAssumption DEF PoolInv, IInv, BarrierTypeOK
  <2>2. Counted' = {} /\ ~\E t \in Active' : at'[t] = "pass"
    BY <1>1, <1>2, <1>3 DEF Counted, Inside
  <2>3. Cardinality(Counted') = 0
    BY <2>2, FS_EmptySet
  <2>4. BarrierInv'
    BY <1>1, <1>2, <1>3, <2>2, <2>3 DEF BarrierInv
  <2>5. QED
    BY <2>1, <2>4 DEF IInv
<1>5. /\ \A t \in Threads : ws'[t] = NewWorker
      /\ pc'[0] = IF k = "disposable" THEN "kick" ELSE "user"
      /\ \A t \in Workers : pc'[t] = IF t < n THEN "loop" ELSE "exit"
      /\ done' = NoWork
  BY Numbers DEF Create, Workers
<1>6. tp'.n_threads_max = n /\ tp'.n_graph = 0 /\ tp'.abort = -1 /\ tp'.ok = TRUE
  <2>1. tp' = [NewPool EXCEPT !.n_threads_max = n, !.pause = p,
                              !.cgraph = IF k = "disposable" THEN graphs + 1 ELSE 0]
    BY DEF Create
  <2>2. QED
    BY <2>1 DEF NewPool
<1>7. NewWorker.last_graph = 0 /\ NewWorker.node = 0
  BY DEF NewWorker
<1>8. /\ Graph' = IF k = "disposable" THEN 1 ELSE 0
      /\ (pc[0] \notin Between)' => k = "disposable"
  <2>1. Graph' = tp'.n_graph + IF pc'[0] \in {"kick", "publish"} THEN 1 ELSE 0
    BY DEF Graph
  <2>2. QED
    BY <1>5, <1>6, <2>1 DEF Between
<1>9. Shape'
  <2>1. \A t \in Threads \ Active' : pc'[t] = "exit"
    BY <1>1, <1>3, <1>5, Numbers DEF Active, Workers
  <2>2. \A t \in Workers : pc'[t] \in Idle /\ ws'[t].last_graph = 0
    BY <1>5, <1>7, Numbers DEF Idle
  <2>3. \A t \in Active' : /\ ws'[t].node = 0 /\ pc'[t] \notin Working
    BY <1>3, <1>5, <1>7, Numbers DEF Workers, Working
  <2>4. {"kick", "user"} \subseteq MainPlaces /\ {"node", "chunk", "fetch", "after"} \subseteq Working
    BY DEF MainPlaces, Working
  <2>5. pc'[0] \in MainPlaces \union Working
    BY <1>5, <2>4
  <2>6. 0 \in {Graph' - 1, Graph'} /\ ((pc[0] \notin Between)' => Graph' > 0)
    BY <1>8
  <2>7. k # "none"
    OBVIOUS
  <2>8. QED
    BY <1>1, <1>2, <1>6, <2>1, <2>2, <2>3, <2>4, <2>5, <2>6, <2>7, Numbers DEF Shape
<1>10. \A t \in Active' : ~Held(t)'
  BY <1>1, <1>2, <1>3 DEF Held
<1>11. \A t \in Active' : /\ pc'[t] \notin GraphPlaces /\ ws'[t].node = 0
                          /\ ws'[t].last_graph = 0
                          /\ t # 0 => pc'[t] \in Idle
  BY <1>3, <1>5, <1>7, Numbers DEF Workers, GraphPlaces, Idle
<1>12. Coordinated'
  <2>1. n_threads_cur' \in Nat /\ n_threads_cur' >= 1 /\ n_threads_cur' <= NMax
    BY <1>1, Numbers
  <2>2. CASE k = "disposable"
    <3>1. pc'[0] = "kick" /\ tp'.abort = -1 /\ tp'.ok = TRUE /\ done' = NoWork
      BY <1>5, <1>6, <2>2
    <3>2. \A t \in Active' : /\ ~Held(t)' /\ pc'[t] \notin GraphPlaces
                             /\ t # 0 => ws'[t].last_graph # Graph'
      BY <1>8, <1>10, <1>11, <2>2
    <3>3. QED
      BY <1>3, <2>1, <3>1, <3>2, GraphBegins
  <2>3. CASE k = "persistent"
    <3>1. pc'[0] = "user" /\ tp'.abort = -1 /\ tp'.ok = TRUE /\ done' = NoWork /\ Graph' = 0
      BY <1>5, <1>6, <1>8, <2>3
    <3>2. \A t \in Active' : /\ ~Held(t)' /\ ws'[t].node = 0
                             /\ t # 0 => pc'[t] \in Idle /\ ws'[t].last_graph = 0
      BY <1>10, <1>11
    <3>3. QED
      BY <1>3, <2>1, <3>1, <3>2, NoGraphYet
  <2>4. QED
    BY <2>2, <2>3
<1>13. QED
  BY <1>4, <1>9, <1>12

\* A step outside of the barrier that changes the place of no thread in the graph.
LEMMA ShapeStep ==
    ASSUME PoolInv, kind # "none", UNCHANGED <<barrierVars, kind>>,
           tp'.n_threads_max = tp.n_threads_max,
           \A t \in Threads : ws'[t].node = ws[t].node /\ ws'[t].nth = ws[t].nth,
           pc'[0] \in MainPlaces \union Working,
           pc'[0] \notin Between => Graph' > 0,
           \A t \in Threads \ Active : pc'[t] = "exit",
           \A t \in Workers : /\ pc'[t] \in Idle \union Working \union {"fresh"}
                              /\ ws'[t].last_graph <= tp'.n_graph
                              /\ ws'[t].last_graph \in {Graph' - 1, Graph'}
                              /\ pc'[t] \notin Idle \union {"end"} => ws'[t].last_graph = Graph',
           \A t \in Threads : \/ pc'[t] = pc[t]
                              \/ at[t] = "out" /\ pc'[t] \notin Working \ {"start"}
    PROVE  Shape'
<1>1. Active' = Active /\ at' = at /\ n_threads_cur' = n_threads_cur
  BY DEF barrierVars, local, Active
<1>2. \A t \in Threads : at'[t] # "out" => pc'[t] = pc[t] /\ at[t] # "out"
  BY <1>1
<1>3. \A t \in Threads :
        pc'[t] = pc[t] \/ pc'[t] \notin {"for", "node", "chunk", "fetch", "after", "end"}
  BY DEF Working
<1>4. Active \subseteq Threads
  BY Team DEF PoolInv
<1>5. \A t \in Active :
        /\ ws'[t].node \in 0 .. NNodes
        /\ pc'[t] \in {"node", "chunk", "fetch", "after"} => ws'[t].node < NNodes
        /\ pc'[t] \in Working \ {"start"} => ws'[t].nth = n_threads_cur
  BY <1>3, <1>4 DEF PoolInv, Shape, Working
<1>6. \A t \in Threads : at'[t] # "out" =>
         pc'[t] \in {"chunk", "end"} \/ (pc'[t] = "for" /\ ws'[t].node \in 1 .. NNodes - 1)
  BY <1>2 DEF PoolInv, Shape
<1>7. QED
  BY <1>1, <1>5, <1>6 DEF PoolInv, Shape

LEMMA SignalledPlaces ==
    \A p : /\ Signalled(p) = p \/ (p \in {"asleep", "paused"} /\ Signalled(p) \in {"lock", "unpause"})
           /\ Signalled("exit") = "exit"
BY DEF Signalled

\* A step of the main thread between graphs.
LEMMA MainMoves ==
    ASSUME PoolInv, kind # "none", UNCHANGED <<barrierVars, kind, done, ws>>,
           pc[0] \in MainPlaces \union {"end"}, at[0] = "out",
           pc'[0] \in MainPlaces \union {"start"},
           pc'[0] \notin Between => pc[0] \notin Between,
           Over(0)' <=> Over(0),
           \A t \in Workers : pc'[t] = Signalled(pc[t]) \/ pc'[t] = pc[t],
           tp'.n_threads_max = tp.n_threads_max, tp'.chunk = tp.chunk, tp'.abort = tp.abort,
           tp'.ok = tp.ok, tp'.n_graph \in Nat, tp'.n_graph >= tp.n_graph, Graph' = Graph
    PROVE  IInv' /\ Shape' /\ Coordinated'
<1>1. IInv'
  BY CalmBarrier DEF PoolInv
<1>2. ASSUME NEW t \in Workers
      PROVE  \/ pc'[t] = pc[t]
             \/ pc[t] \in {"asleep", "paused"} /\ pc'[t] \in {"lock", "unpause"}
  BY SignalledPlaces
<1>3. Active \subseteq Threads /\ 0 \in Active /\ \A t \in Threads : t = 0 \/ t \in Workers
  BY Team DEF PoolInv, Workers
<1>4. \A t \in Workers : pc[t] = "exit" => pc'[t] = "exit"
  BY <1>2
<1>5. \A t \in Workers : (pc'[t] \in Idle <=> pc[t] \in Idle)
                         /\ (pc[t] \in {"asleep", "paused"} => at[t] = "out")
  BY <1>2 DEF Idle, PoolInv, Shape, Workers
<1>6. Shape'
  <2>1. \A t \in Threads \ Active : pc'[t] = "exit"
    BY <1>3, <1>4 DEF PoolInv, Shape
  <2>2. \A t \in Workers : /\ pc'[t] \in Idle \union Working \union {"fresh"}
                           /\ ws'[t].last_graph <= tp'.n_graph
                           /\ ws'[t].last_graph \in {Graph' - 1, Graph'}
                           /\ pc'[t] \notin Idle \union {"end"} => ws'[t].last_graph = Graph'
    <3>1. \A t \in Workers : ws[t].last_graph \in Nat /\ tp.n_graph \in Nat /\ tp'.n_graph \in Nat
      BY Numbers DEF PoolInv, Types, Worker, Pool
    <3>2. \A t \in Workers : /\ pc[t] \in Idle \union Working \union {"fresh"}
                             /\ ws[t].last_graph <= tp.n_graph
                             /\ ws[t].last_graph \in {Graph - 1, Graph}
                             /\ pc[t] \notin Idle \union {"end"} => ws[t].last_graph = Graph
      BY DEF PoolInv, Shape
    <3>3. \A t \in Workers : pc'[t] = pc[t] \/ pc'[t] \in Idle
      BY <1>2 DEF Idle
    <3>4. QED
      BY <1>5, <3>1, <3>2, <3>3
  <2>3. \A t \in Threads : \/ pc'[t] = pc[t]
                           \/ at[t] = "out" /\ pc'[t] \notin Working \ {"start"}
    <3>1. pc'[0] \notin Working \ {"start"}
      BY DEF MainPlaces, Working
    <3>2. QED
      BY <1>2, <1>3, <1>5, <3>1 DEF Working
  <2>4. pc'[0] \in MainPlaces \union Working /\ (pc'[0] \notin Between => Graph' > 0)
    BY DEF Working, PoolInv, Shape
  <2>5. QED
    BY <2>1, <2>2, <2>3, <2>4, ShapeStep
<1>7. Undisturbed
  <2>1. ASSUME NEW t \in Active
        PROVE  /\ Over(t)' <=> Over(t)
               /\ pc'[t] = pc[t] \/ (pc[t] \notin GraphPlaces /\ pc'[t] \notin GraphPlaces)
    <3>1. CASE t = 0
      BY <3>1 DEF GraphPlaces, MainPlaces
    <3>2. CASE t # 0
      <4>1. t \in Workers
        BY <1>3, <3>2
      <4>2. pc'[t] = "end" <=> pc[t] = "end"
        BY <1>2, <4>1
      <4>3. Over(t)' <=> Over(t)
        BY <1>5, <3>2, <4>1, <4>2 DEF Over
      <4>4. QED
        BY <1>2, <4>1, <4>3 DEF GraphPlaces
    <3>3. QED
      BY <3>1, <3>2
  <2>2. QED
    BY <2>1 DEF Undisturbed
<1>8. QED
  BY <1>1, <1>6, <1>7, UndisturbedKept DEF PoolInv

LEMMA StepPlaces ==
    ASSUME Types, NEW from, NEW to, Step(0, from, to)
    PROVE  /\ pc[0] = from /\ at[0] = "out" /\ pc'[0] = to
           /\ \A t \in Workers : pc'[t] = pc[t]
BY Numbers DEF Step, At, To, Types, Workers

LEMMA BroadcastPlaces ==
    ASSUME Types, NEW to, Broadcast(0, to)
    PROVE  pc'[0] = to /\ \A t \in Workers : pc'[t] = Signalled(pc[t])
BY Numbers DEF Broadcast, Workers

\* The pools whose graphs use all of their threads: those of the application, which
\* makes one for each graph, and those that outlive a graph but are never asked for
\* fewer threads than they have.
Steady == "persistent" \in Kinds => \A n \in Requests : n >= NMax

LEMMA KickSteady ==
    ASSUME Steady, PoolInv, NEW n, Kick(n) PROVE n_threads_cur' = n_threads_cur
<1>1. /\ n \in IF kind = "disposable" THEN {tp.n_threads_max} ELSE Requests
      /\ n_threads_cur' = IF n > tp.n_threads_max THEN tp.n_threads_max ELSE n
      /\ pc[0] = "kick"
  BY DEF Kick, Step, At
<1>2. kind \in Kinds /\ kind # "none" /\ tp.n_threads_max = n_threads_cur
      /\ (kind = "persistent" => tp.n_threads_max = NMax)
  BY <1>1 DEF PoolInv, Shape
<1>3. n_threads_cur \in Nat /\ kind \in {"disposable", "persistent"}
  BY <1>2, Team, PoolAssumption DEF PoolInv
<1>4. CASE kind = "disposable"
  BY <1>1, <1>2, <1>3, <1>4
<1>5. CASE kind = "persistent"
  <2>1. n >= NMax /\ n \in Nat /\ NMax \in Nat
    BY <1>1, <1>2, <1>5, PoolAssumption, Numbers DEF Steady
  <2>2. QED
    BY <1>1, <1>2, <1>5, <2>1
<1>6. QED
  BY <1>3, <1>4, <1>5

LEMMA BeforeIs ==
    ASSUME NEW k \in 0 .. NNodes
    PROVE  /\ k < NNodes => Before(k) = 2 * k
           /\ k = NNodes /\ k > 0 => Before(k) = 2 * k - 1
           /\ k = 0 => Before(k) = 0
           /\ Before(k) \in Nat /\ Before(k) < Last /\ 2 * k < Last
           /\ k < NNodes => 2 * k + 1 < Last
BY Numbers DEF Before, Last

\* Who is past the last barrier is through with the graph.
LEMMA RoundLast ==
    ASSUME Shape, kind # "none", NEW t \in Active, Round(t) = Last
    PROVE  ~Held(t) /\ Over(t)
<1>1. ws[t].node \in 0 .. NNodes /\ ws[t].node \in Nat /\ Last \in Nat
      /\ (pc[t] \in {"chunk", "fetch", "after"} => ws[t].node < NNodes)
  BY Numbers DEF Shape, Last
<1>2. Before(ws[t].node) < Last /\ 2 * ws[t].node < Last /\ 2 * ws[t].node - 1 < Last
      /\ (ws[t].node < NNodes => 2 * ws[t].node + 1 < Last) /\ 0 < Last
  BY <1>1, BeforeIs, Numbers DEF Last
<1>3. ~Held(t)
  BY <1>1, <1>2 DEF Round, Behind
<1>4. Ahead(t) = Last
  BY <1>3 DEF Round
<1>5. QED
  BY <1>1, <1>2, <1>3, <1>4 DEF Ahead

\* When a graph is submitted to a pool every thread is through with the one before.
LEMMA SubmitKept ==
    ASSUME PoolInv, Submit PROVE IInv' /\ Shape' /\ Coordinated'
<1>1. /\ UNCHANGED <<barrierVars, kind, ws>> /\ kind = "persistent" /\ done' = NoWork
      /\ Step(0, "user", "kick")
  BY DEF Submit, Outside
<1>2. IInv /\ Types /\ Shape /\ Coordinated
  BY <1>1 DEF PoolInv
<1>3. pc[0] = "user" /\ at[0] = "out" /\ pc'[0] = "kick" /\ \A t \in Workers : pc'[t] = pc[t]
  BY <1>1, <1>2, StepPlaces
<1>4. /\ tp'.n_graph = tp.n_graph /\ tp'.n_threads_max = tp.n_threads_max
      /\ tp'.abort = -1 /\ tp'.ok = TRUE /\ tp.n_graph \in Nat
  <2>1. tp \in Pool /\ tp' = [tp EXCEPT !.cgraph = graphs + 1, !.chunk = 0, !.abort = -1, !.ok = TRUE]
    BY <1>2 DEF Submit, Types
  <2>2. QED
    BY <2>1 DEF Pool
<1>5. Graph = tp.n_graph /\ Graph' = tp.n_graph + 1
  BY <1>3, <1>4 DEF Graph
<1>6. /\ n_threads_cur \in Nat /\ n_threads_cur >= 1 /\ n_threads_cur <= NMax
      /\ 0 \in Active /\ Active \subseteq Threads
      /\ Active' = Active /\ Leaving' = Leaving /\ at' = at /\ n_threads_cur' = n_threads_cur
  BY <1>1, <1>2, Team DEF barrierVars, shared, local, Active, Leaving
<1>7. \A t \in Active : t = 0 \/ t \in Workers
  BY <1>6 DEF Workers
<1>8. Round(0) = Last
  BY <1>3 DEF Round, Held, Over, Ahead, Between
<1>9. ASSUME NEW t \in Active PROVE ~Held(t) /\ Over(t)
  <2>1. Round(t) = Last /\ ws[t].node \in 0 .. NNodes
    BY <1>1, <1>2, <1>8 DEF Coordinated, SameRound, Shape
  <2>2. kind # "none"
    BY <1>1
  <2>3. QED
    BY <1>2, <2>1, <2>2, RoundLast
<1>10. \A t \in Active : t # 0 => /\ pc[t] \in Idle \union {"end"} /\ ws[t].last_graph = Graph
                                  /\ pc[t] \notin GraphPlaces
  BY <1>9 DEF Over, Idle, GraphPlaces
<1>11. Shape'
  <2>1. pc'[0] \in MainPlaces \union Working
    BY <1>3 DEF MainPlaces
  <2>2. \A t \in Threads \ Active : pc'[t] = "exit"
    BY <1>1, <1>2, <1>3, <1>6 DEF Shape, Workers
  <2>3. Graph' > 0
    BY <1>4, <1>5
  <2>4. \A t \in Workers :
              /\ pc'[t] \in Idle \union Working \union {"fresh"}
              /\ ws'[t].last_graph <= tp'.n_graph
              /\ ws'[t].last_graph \in {Graph' - 1, Graph'}
              /\ pc'[t] \notin Idle \union {"end"} => ws'[t].last_graph = Graph'
    <3>1. n_threads_cur = NMax
      BY <1>1, <1>2 DEF Shape
    <3>2. \A t \in Workers : t \in Active /\ t # 0
      BY <3>1, Numbers DEF Workers, Threads, Active
    <3>3. \A t \in Workers : ws'[t].last_graph = tp.n_graph /\ pc'[t] \in Idle \union {"end"}
      BY <1>1, <1>3, <1>5, <1>10, <3>2
    <3>4. QED
      BY <1>4, <1>5, <3>3 DEF Working
  <2>5. \A t \in Threads : \/ pc'[t] = pc[t]
                           \/ at[t] = "out" /\ pc'[t] \notin Working \ {"start"}
    BY <1>3 DEF Workers, Working
  <2>6. kind # "none" /\ UNCHANGED <<barrierVars, kind>>
        /\ \A t \in Threads : ws'[t].node = ws[t].node /\ ws'[t].nth = ws[t].nth
    BY <1>1
  <2>7. QED
    BY <1>4, <2>1, <2>2, <2>3, <2>4, <2>5, <2>6, ShapeStep
<1>12. \A t \in Active' : /\ ~Held(t)' /\ pc'[t] \notin GraphPlaces
                          /\ t # 0 => ws'[t].last_graph # Graph'
  BY <1>1, <1>3, <1>4, <1>5, <1>6, <1>7, <1>9, <1>10 DEF Held, GraphPlaces
<1>13. Coordinated'
  BY <1>1, <1>3, <1>4, <1>6, <1>12, GraphBegins
<1>14. QED
  BY <1>1, <1>2, <1>11, <1>13, CalmBarrier

LEMMA MainKept ==
    ASSUME Steady, PoolInv, Main
    PROVE  PoolInv'
<1>1. Types'
  BY MainTypes DEF PoolInv
<1>2. Types /\ Shape /\ tp \in Pool
  BY DEF PoolInv, Types
<1>3. ASSUME IInv' /\ Shape' /\ Coordinated' PROVE PoolInv'
  BY <1>1, <1>3 DEF PoolInv
<1>4. CASE NewDisposable \/ NewPersistent
  <2>1. PICK k \in Kinds, n \in 1 .. NMax, p \in BOOLEAN :
          Create(k, n, p) /\ k \in {"disposable", "persistent"} /\ (k = "persistent" => n = NMax)
    BY <1>4, Creations
  <2>2. IInv' /\ Shape' /\ Coordinated'
    BY <2>1, PoolMade
  <2>3. QED
    BY <1>3, <2>2
<1>5. ASSUME NEW n, Kick(n) PROVE PoolInv'
  <2>1. /\ Step(0, "kick", "publish") /\ tp' = tp
        /\ UNCHANGED <<kind, done, ws, shared, local>>
        /\ n \in IF kind = "disposable" THEN {tp.n_threads_max} ELSE Requests
    BY <1>5 DEF Kick
  <2>2. pc[0] = "kick" /\ at[0] = "out" /\ pc'[0] = "publish" /\ \A t \in Workers : pc'[t] = pc[t]
    BY <1>2, <2>1, StepPlaces
  <2>3. kind # "none"
    BY <1>2, <2>2 DEF Shape
  <2>4. n_threads_cur' = n_threads_cur
    BY <1>5, KickSteady
  <2>5. Graph' = Graph
    BY <2>1, <2>2 DEF Graph
  <2>6. tp.n_graph \in Nat
    BY <1>2 DEF Pool
  <2>7. IInv' /\ Shape' /\ Coordinated'
    BY <2>1, <2>2, <2>3, <2>4, <2>5, <2>6, MainMoves DEF MainPlaces, Over, Between, barrierVars
  <2>8. QED
    BY <1>3, <2>7
<1>6. CASE Publish
  <2>1. Step(0, "publish", "wake") /\ UNCHANGED <<barrierVars, kind, done, ws>>
    BY <1>6 DEF Publish, Outside, poolVars
  <2>2. pc[0] = "publish" /\ at[0] = "out" /\ pc'[0] = "wake" /\ \A t \in Workers : pc'[t] = pc[t]
    BY <1>2, <2>1, StepPlaces
  <2>3. kind # "none"
    BY <1>2, <2>2 DEF Shape
  <2>4. /\ tp'.n_graph = tp.n_graph + 1 /\ tp'.n_threads_max = tp.n_threads_max
        /\ tp'.chunk = tp.chunk /\ tp'.abort = tp.abort /\ tp'.ok = tp.ok /\ tp.n_graph \in Nat
    BY <1>2, <1>6 DEF Publish, Pool
  <2>5. Graph' = Graph
    BY <2>2, <2>4 DEF Graph
  <2>6. IInv' /\ Shape' /\ Coordinated'
    BY <2>1, <2>2, <2>3, <2>4, <2>5, MainMoves DEF MainPlaces, Over, Between
  <2>7. QED
    BY <1>3, <2>6
<1>7. ASSUME Wake \/ ClearPause \/ \E p \in BOOLEAN : SetPause(p) PROVE PoolInv'
  <2>1. /\ UNCHANGED <<barrierVars, kind, done, ws>>
        /\ \E p \in BOOLEAN : tp' = [tp EXCEPT !.pause = p]
        /\ \/ pc[0] = "wake" /\ Broadcast(0, "start")
           \/ pc[0] = "unpause" /\ Broadcast(0, "join")
           \/ pc[0] = "user" /\ Broadcast(0, "user") /\ kind = "persistent"
        /\ at[0] = "out"
    BY <1>7 DEF Wake, ClearPause, SetPause, Outside, At, poolVars
  <2>2. /\ pc[0] \in {"wake", "unpause", "user"}
        /\ pc[0] = "user" => kind = "persistent"
        /\ pc'[0] = IF pc[0] = "wake" THEN "start" ELSE IF pc[0] = "user" THEN "user" ELSE "join"
        /\ \A t \in Workers : pc'[t] = Signalled(pc[t])
    BY <1>2, <2>1, BroadcastPlaces
  <2>3. kind # "none"
    BY <1>2, <2>2 DEF Shape
  <2>4. /\ tp'.n_graph = tp.n_graph /\ tp'.n_threads_max = tp.n_threads_max
        /\ tp'.chunk = tp.chunk /\ tp'.abort = tp.abort /\ tp'.ok = tp.ok /\ tp.n_graph \in Nat
    BY <1>2, <2>1 DEF Pool
  <2>5. Graph' = Graph
    BY <2>2, <2>4 DEF Graph
  <2>6. IInv' /\ Shape' /\ Coordinated'
    BY <2>1, <2>2, <2>3, <2>4, <2>5, MainMoves DEF MainPlaces, Over, Between
  <2>7. QED
    BY <1>3, <2>6
<1>8. ASSUME Return \/ FreePersistent \/ SetStop PROVE PoolInv'
  <2>1. /\ UNCHANGED <<barrierVars, kind, done, ws>>
        /\ tp' = tp \/ tp' = [tp EXCEPT !.stop = TRUE]
        /\ \/ \E l \in {"free", "user"} : Step(0, "end", l)
           \/ Step(0, "free", "unpause")
           \/ kind = "persistent" /\ Step(0, "user", "free")
    BY <1>8 DEF Return, FreePersistent, SetStop, Outside, poolVars
  <2>2. /\ pc[0] \in {"end", "free", "user"} /\ at[0] = "out"
        /\ pc'[0] \in {"free", "unpause", "user"}
        /\ pc[0] = "user" => kind = "persistent"
        /\ \A t \in Workers : pc'[t] = pc[t]
    BY <1>2, <2>1, StepPlaces
  <2>3. kind # "none"
    BY <1>2, <2>2 DEF Shape
  <2>4. /\ tp'.n_graph = tp.n_graph /\ tp'.n_threads_max = tp.n_threads_max
        /\ tp'.chunk = tp.chunk /\ tp'.abort = tp.abort /\ tp'.ok = tp.ok /\ tp.n_graph \in Nat
    BY <1>2, <2>1 DEF Pool
  <2>5. Graph' = Graph
    BY <2>2, <2>4 DEF Graph
  <2>6. IInv' /\ Shape' /\ Coordinated'
    BY <2>1, <2>2, <2>3, <2>4, <2>5, MainMoves DEF MainPlaces, Over, Between
  <2>7. QED
    BY <1>3, <2>6
<1>9. CASE Join
  <2>1. /\ UNCHANGED barrierVars /\ kind' = "none" /\ UNCHANGED <<tp, ws>>
        /\ Step(0, "join", "user") /\ \A t \in Workers : pc[t] = "exit"
    BY <1>9 DEF Join, Outside
  <2>2. pc[0] = "join" /\ at[0] = "out" /\ pc'[0] = "user" /\ \A t \in Workers : pc'[t] = pc[t]
    BY <1>2, <2>1, StepPlaces
  <2>3. at' = at /\ \A t \in Threads : at[t] = "out"
    BY <1>2, <2>1, <2>2 DEF Shape, barrierVars, local, Workers
  <2>4. Shape'
    BY <2>1, <2>2, <2>3 DEF Shape
  <2>5. QED
    BY <1>1, <2>1, <2>4, CalmBarrier DEF PoolInv
<1>10. CASE Submit
  BY <1>3, <1>10, SubmitKept
<1>11. QED
  BY <1>4, <1>5, <1>6, <1>7, <1>8, <1>9, <1>10 DEF Main

-----------------------------------------------------------------------------
(* Steps of a worker outside of the graph.                                 *)

\* A worker waits on, or sets out for the graph it has not seen yet, or is back from it.
LEMMA WaitCases ==
    ASSUME PoolInv, NEW t \in Workers, Wait(t) \/ Spurious(t) \/ BackToLoop(t)
    PROVE  /\ kind # "none" /\ t \in Active /\ at[t] = "out"
           /\ Private
           /\ \/ pc[t] \in Idle /\ ws' = ws /\ \E l \in Idle : To(t, l)
              \/ /\ pc[t] \in Idle /\ ws[t].last_graph = Graph - 1 /\ tp.n_graph = Graph
                 /\ ws' = [ws EXCEPT ![t].last_graph = tp.n_graph]
                 /\ To(t, "fresh") \/ To(t, "start")
              \/ pc[t] = "fresh" /\ ws' = ws /\ To(t, "start")
              \/ pc[t] = "end" /\ ws' = ws /\ To(t, "loop")
<1>1. t \in Threads /\ t # 0
  BY Numbers
<1>2. Private
  BY DEF Wait, LookAtPause, PauseUnderLock, Unpaused, LookAtStop, PollOrSleep, PollReady,
         PollActive, SleepReady, Spurious, BackToLoop, Quiet
<1>3. pc[t] # "exit"
  BY DEF Wait, LookAtPause, PauseUnderLock, Unpaused, LookAtStop, PollOrSleep, PollReady,
         PollActive, SleepReady, Spurious, BackToLoop, Step, At
<1>4. kind # "none" /\ t \in Active
  BY <1>1, <1>3 DEF PoolInv, Shape
<1>5. at[t] = "out"
  BY <1>1 DEF Wait, LookAtPause, PauseUnderLock, Unpaused, LookAtStop, PollOrSleep, PollReady,
              PollActive, SleepReady, Spurious, BackToLoop, Step, At, PoolInv, Shape
<1>6. ASSUME tp.n_graph # ws[t].last_graph
      PROVE  ws[t].last_graph = Graph - 1 /\ tp.n_graph = Graph
  <2>1. /\ ws[t].last_graph \in Nat /\ tp.n_graph \in Nat /\ ws[t].last_graph <= tp.n_graph
        /\ ws[t].last_graph \in {Graph - 1, Graph} /\ Graph \in {tp.n_graph, tp.n_graph + 1}
    BY <1>1, <1>4 DEF PoolInv, Types, Worker, Pool, Shape, Graph
  <2>2. QED
    BY <1>6, <2>1
<1>7. CASE PollReady(t)
  <2>1. pc[t] = "poll" /\ \/ To(t, "lock") /\ ws' = ws
                          \/ /\ tp.n_graph # ws[t].last_graph /\ To(t, "fresh")
                             /\ ws' = [ws EXCEPT ![t].last_graph = tp.n_graph]
    BY <1>7 DEF PollReady, At
  <2>2. QED
    BY <1>2, <1>4, <1>5, <1>6, <2>1 DEF Idle
<1>8. CASE SleepReady(t)
  <2>1. pc[t] = "lock" /\ \/ ws' = ws /\ \E l \in {"loop", "asleep"} : To(t, l)
                          \/ /\ tp.n_graph # ws[t].last_graph /\ To(t, "start")
                             /\ ws' = [ws EXCEPT ![t].last_graph = tp.n_graph]
    BY <1>4, <1>8 DEF SleepReady, At
  <2>2. QED
    BY <1>2, <1>4, <1>5, <1>6, <2>1 DEF Idle
<1>9. CASE PollActive(t) \/ BackToLoop(t)
  BY <1>2, <1>4, <1>5, <1>9 DEF PollActive, BackToLoop, Quiet, Step, At
<1>10. CASE Spurious(t)
  <2>1. ws' = ws /\ pc[t] \in {"asleep", "paused"} /\ To(t, Signalled(pc[t]))
    BY <1>10 DEF Spurious, Quiet
  <2>2. Signalled(pc[t]) \in Idle /\ pc[t] \in Idle
    BY <2>1 DEF Signalled, Idle
  <2>3. QED
    BY <1>2, <1>4, <1>5, <2>1, <2>2
<1>11. CASE LookAtPause(t) \/ PauseUnderLock(t) \/ Unpaused(t) \/ LookAtStop(t) \/ PollOrSleep(t)
  <2>1. ws' = ws /\ pc[t] \in Idle /\ \E l \in Idle : To(t, l)
    BY <1>11 DEF LookAtPause, PauseUnderLock, Unpaused, LookAtStop, PollOrSleep, Quiet, Step,
                 At, Idle
  <2>2. QED
    BY <1>2, <1>4, <1>5, <2>1
<1>12. QED
  BY <1>7, <1>8, <1>9, <1>10, <1>11 DEF Wait

LEMMA WaitKept ==
    ASSUME PoolInv, NEW t \in Workers, Wait(t) \/ Spurious(t) \/ BackToLoop(t)
    PROVE  PoolInv'
<1>1. Types'
  BY WaitTypes DEF PoolInv
<1>2. t \in Threads /\ t # 0 /\ 0 \in Threads
  BY Numbers
<1>3. kind # "none" /\ t \in Active /\ at[t] = "out" /\ kind' = kind /\ done' = done
      /\ tp' = tp /\ UNCHANGED barrierVars
  BY WaitCases DEF Private, Outside, poolVars
<1>4. IInv'
  BY <1>3, CalmBarrier DEF PoolInv
<1>5. \A u \in Threads \ {t} : pc'[u] = pc[u] /\ ws'[u] = ws[u]
  BY <1>2, WaitCases DEF To, PoolInv, Types
<1>6. /\ \/ /\ pc[t] \in Idle /\ pc'[t] \in Idle /\ ws'[t].last_graph = ws[t].last_graph
         \/ /\ pc[t] \in Idle /\ ws[t].last_graph = Graph - 1 /\ ws'[t].last_graph = Graph
            /\ tp.n_graph = Graph /\ pc'[t] \in {"fresh", "start"}
         \/ pc[t] = "fresh" /\ pc'[t] = "start" /\ ws'[t].last_graph = ws[t].last_graph
         \/ pc[t] = "end" /\ pc'[t] = "loop" /\ ws'[t].last_graph = ws[t].last_graph
      /\ ws'[t].node = ws[t].node /\ ws'[t].nth = ws[t].nth /\ ws'[t].chunk = ws[t].chunk
  <2>1. ASSUME NEW l, To(t, l) PROVE pc'[t] = l
    BY <1>2, <2>1 DEF To, PoolInv, Types
  <2>2. ASSUME ws' = [ws EXCEPT ![t].last_graph = tp.n_graph]
        PROVE  /\ ws'[t].last_graph = tp.n_graph
               /\ ws'[t].node = ws[t].node /\ ws'[t].nth = ws[t].nth /\ ws'[t].chunk = ws[t].chunk
    <3>1. ws[t] \in Worker /\ ws'[t] = [ws[t] EXCEPT !.last_graph = tp.n_graph]
      BY <1>2, <2>2 DEF PoolInv, Types
    <3>2. QED
      BY <3>1 DEF Worker
  <2>3. QED
    BY <2>1, <2>2, WaitCases
<1>7. /\ ws[t].last_graph <= tp.n_graph /\ ws[t].last_graph \in {Graph - 1, Graph}
      /\ pc[t] \notin Idle \union {"end"} => ws[t].last_graph = Graph
      /\ ws[t].last_graph \in Nat /\ tp.n_graph \in Nat /\ Graph \in Nat
      /\ pc[0] \in MainPlaces \union Working /\ (pc[0] \notin Between => Graph > 0)
  BY <1>2, <1>3 DEF PoolInv, Shape, Types, Worker, Pool, Graph
<1>8. "loop" \in Idle /\ "fresh" \notin Idle /\ "start" \notin Idle /\ "end" \notin Idle
  BY DEF Idle
<1>9. Shape'
  <2>1. pc'[0] = pc[0] /\ tp' = tp /\ Graph' = Graph
    BY <1>2, <1>3, <1>5 DEF Graph
  <2>2. ASSUME NEW u \in Threads \ Active PROVE pc'[u] = "exit"
    BY <1>3, <1>5 DEF PoolInv, Shape
  <2>3. ASSUME NEW u \in Workers
        PROVE  /\ pc'[u] \in Idle \union Working \union {"fresh"}
               /\ ws'[u].last_graph <= tp'.n_graph
               /\ ws'[u].last_graph \in {Graph' - 1, Graph'}
               /\ pc'[u] \notin Idle \union {"end"} => ws'[u].last_graph = Graph'
    <3>1. CASE u = t
      <4>1. /\ ws'[t].last_graph <= tp.n_graph /\ ws'[t].last_graph \in {Graph - 1, Graph}
            /\ pc'[t] \notin Idle \union {"end"} => ws'[t].last_graph = Graph
        BY <1>6, <1>7, <1>8
      <4>2. pc'[t] \in Idle \union Working \union {"fresh"}
        BY <1>6, <1>8 DEF Working
      <4>3. QED
        BY <2>1, <3>1, <4>1, <4>2
    <3>2. CASE u # t
      BY <1>3, <1>5, <2>1, <3>2, Numbers DEF PoolInv, Shape
    <3>3. QED
      BY <3>1, <3>2
  <2>4. ASSUME NEW u \in Threads
        PROVE  \/ pc'[u] = pc[u]
               \/ at[u] = "out" /\ pc'[u] \notin Working \ {"start"}
    BY <1>3, <1>5, <1>6, <1>8 DEF Working, Idle
  <2>5. \A u \in Threads : ws'[u].node = ws[u].node /\ ws'[u].nth = ws[u].nth
    BY <1>5, <1>6
  <2>6. QED
    BY <1>3, <1>7, <2>1, <2>2, <2>3, <2>4, <2>5, ShapeStep
<1>10. Undisturbed
  <2>1. Active \subseteq Threads
    BY Team DEF PoolInv
  <2>2. Graph' = Graph
    BY <1>2, <1>3, <1>5 DEF Graph
  <2>3. \A u \in Active : u # t => (Over(u)' <=> Over(u))
    BY <1>2, <1>5, <2>1, <2>2 DEF Over
  <2>4. Over(t)' <=> Over(t)
    <3>1. /\ Over(t) <=> pc[t] \in Idle \union {"end"} /\ ws[t].last_graph = Graph
          /\ Over(t)' <=> pc'[t] \in Idle \union {"end"} /\ ws'[t].last_graph = Graph
      BY <1>2, <2>2 DEF Over
    <3>2. QED
      BY <1>6, <1>7, <1>8, <3>1
  <2>5. pc[t] \notin GraphPlaces /\ pc'[t] \notin GraphPlaces
    BY <1>6 DEF Idle, GraphPlaces
  <2>6. \A u \in Active : Held(u) => ws'[u].last_graph = ws[u].last_graph
    BY <1>3, <1>5, <2>1 DEF Held
  <2>7. QED
    BY <1>3, <1>5, <1>6, <2>1, <2>3, <2>4, <2>5, <2>6, <2>2 DEF Undisturbed
<1>11. QED
  BY <1>1, <1>3, <1>4, <1>9, <1>10, UndisturbedKept DEF PoolInv

-----------------------------------------------------------------------------
(* Steps in the graph.                                                     *)

\* A step in the graph does not submit another.
LEMMA GraphSame ==
    ASSUME Types, NEW t \in Threads, pc[t] \in Working, pc'[t] \in Working,
           \A u \in Threads \ {t} : pc'[u] = pc[u] /\ ws'[u] = ws[u],
           tp'.n_graph = tp.n_graph
    PROVE  Graph' = Graph
<1>1. pc'[0] \in {"kick", "publish"} <=> pc[0] \in {"kick", "publish"}
  BY Numbers DEF Working
<1>2. QED
  BY <1>1 DEF Graph

\* What a step of one thread outside of the barrier, or into it, leaves to the others.
LEMMA Others ==
    ASSUME PoolInv, NEW t \in Active, Outside \/ Call(t), Graph' = Graph,
           \A u \in Threads \ {t} : pc'[u] = pc[u] /\ ws'[u] = ws[u]
    PROVE  /\ IInv' /\ Active' = Active /\ n_threads_cur' = n_threads_cur
           /\ \A u \in Active \ {t} : /\ Held(u)' <=> Held(u)
                                      /\ Over(u)' <=> Over(u)
                                      /\ Round(u)' = Round(u)
           /\ \A u \in Threads \ {t} : at'[u] = at[u]
           /\ Outside => at' = at /\ (Held(t)' <=> Held(t))
           /\ Call(t) => at[t] = "out" /\ at'[t] = "count" /\ Held(t)' /\ ~Held(t)
<1>1. t \in Threads /\ Active \subseteq Threads
  BY Team DEF PoolInv
<1>2. CASE Outside
  <2>1. IInv'
    BY <1>2, CalmBarrier DEF PoolInv, Outside
  <2>2. UNCHANGED <<n_threads_cur, at, n_passed, n_barrier_passed>>
    BY <1>2 DEF Outside, barrierVars, shared, local
  <2>3. Active' = Active /\ Leaving' = Leaving
    BY <2>2 DEF Active, Leaving
  <2>4. \A u \in Active : Held(u)' <=> Held(u)
    BY <2>2, <2>3 DEF Held
  <2>5. \A u \in Active \ {t} : (Over(u)' <=> Over(u)) /\ Round(u)' = Round(u)
    BY <1>1, <2>4 DEF Over, Round, Ahead, Behind
  <2>6. ~Call(t)
    BY <1>1, <2>2 DEF Call, Enter, Go, PoolInv, IInv, BarrierTypeOK
  <2>7. QED
    BY <2>1, <2>2, <2>3, <2>4, <2>5, <2>6
<1>3. CASE Call(t)
  <2>1. /\ at[t] = "out" /\ at' = [at EXCEPT ![t] = "count"]
        /\ UNCHANGED <<n_threads_cur, n_barrier, n_barrier_passed, n_threads, n_passed>>
    BY <1>3 DEF Call, Enter, Go, shared
  <2>2. IInv' /\ Leaving' = Leaving
    <3>1. Enter(t) /\ n_threads_cur' = n_threads_cur /\ ~Exit(t)
      BY <1>3, <2>1 DEF Call, Exit, Go
    <3>2. QED
      BY <3>1, CalmStep DEF Calm, PoolInv
  <2>3. at'[t] = "count" /\ \A u \in Threads \ {t} : at'[u] = at[u]
    BY <1>1, <2>1 DEF PoolInv, IInv, BarrierTypeOK
  <2>4. Active' = Active /\ t \notin Leaving
    BY <2>1 DEF Active, Leaving
  <2>5. \A u \in Active \ {t} : Held(u)' <=> Held(u)
    BY <1>1, <2>2, <2>3 DEF Held
  <2>6. Held(t)' /\ ~Held(t)
    BY <2>1, <2>2, <2>3, <2>4 DEF Held
  <2>7. \A u \in Active \ {t} : (Over(u)' <=> Over(u)) /\ Round(u)' = Round(u)
    BY <1>1, <2>5 DEF Over, Round, Ahead, Behind
  <2>8. ~Outside
    BY <2>1, <2>3 DEF Outside, barrierVars, local
  <2>9. QED
    BY <2>1, <2>2, <2>3, <2>4, <2>5, <2>6, <2>7, <2>8
<1>4. QED
  BY <1>2, <1>3

LEMMA WorkShape ==
    ASSUME PoolInv, kind # "none", kind' = kind, NEW t \in Active, Outside \/ Call(t), Graph' = Graph,
           \A u \in Threads \ {t} : pc'[u] = pc[u] /\ ws'[u] = ws[u],
           pc[t] \in Working \ {"end"}, pc'[t] \in Working,
           tp'.n_graph = tp.n_graph, tp'.n_threads_max = tp.n_threads_max,
           ws'[t].last_graph = ws[t].last_graph, ws'[t].node \in 0 .. NNodes,
           pc'[t] \in {"node", "chunk", "fetch", "after"} => ws'[t].node < NNodes,
           pc'[t] \in Working \ {"start"} => ws'[t].nth = n_threads_cur,
           at'[t] # "out" => pc'[t] \in {"chunk", "end"}
                               \/ (pc'[t] = "for" /\ ws'[t].node \in 1 .. NNodes - 1)
    PROVE  Shape' /\ HeldNow'
<1>1. Active \subseteq Threads /\ 0 \in Threads /\ 0 \notin Workers /\ Workers \subseteq Threads
  BY Team, Numbers DEF PoolInv
<1>2. /\ Active' = Active /\ n_threads_cur' = n_threads_cur
      /\ \A u \in Threads \ {t} : at'[u] = at[u]
      /\ \A u \in Active \ {t} : Held(u)' <=> Held(u)
  BY Others
<1>3. \A u \in Threads : at'[u] # "out" =>
        pc'[u] \in {"chunk", "end"} \/ (pc'[u] = "for" /\ ws'[u].node \in 1 .. NNodes - 1)
  BY <1>2 DEF PoolInv, Shape
<1>4. \A u \in Threads \ Active : pc'[u] = "exit"
  BY <1>1 DEF PoolInv, Shape
<1>5. pc'[0] \in MainPlaces \union Working /\ (pc'[0] \notin Between => Graph' > 0)
  <2>1. Between \cap Working = {}
    BY DEF Between, Working
  <2>2. CASE t = 0
    BY <2>1, <2>2 DEF PoolInv, Shape
  <2>3. CASE t # 0
    BY <1>1, <2>3 DEF PoolInv, Shape
  <2>4. QED
    BY <2>2, <2>3
<1>6. \A u \in Workers : /\ pc'[u] \in Idle \union Working \union {"fresh"}
                         /\ ws'[u].last_graph <= tp'.n_graph
                         /\ ws'[u].last_graph \in {Graph' - 1, Graph'}
                         /\ pc'[u] \notin Idle \union {"end"} => ws'[u].last_graph = Graph'
  <2>1. Working \cap Idle = {}
    BY DEF Working, Idle
  <2>2. QED
    BY <1>1, <2>1 DEF PoolInv, Shape
<1>7. \A u \in Active : /\ ws'[u].node \in 0 .. NNodes
                        /\ pc'[u] \in {"node", "chunk", "fetch", "after"} => ws'[u].node < NNodes
                        /\ pc'[u] \in Working \ {"start"} => ws'[u].nth = n_threads_cur
  BY <1>1 DEF PoolInv, Shape
<1>8. Shape'
  BY <1>2, <1>3, <1>4, <1>5, <1>6, <1>7 DEF PoolInv, Shape
<1>9. t # 0 => ws[t].last_graph = Graph
  BY <1>1 DEF PoolInv, Shape, Working, Idle, Workers
<1>10. \A u \in Active : u # 0 /\ Held(u)' => ws'[u].last_graph = Graph
  BY <1>1, <1>2, <1>9 DEF PoolInv, Coordinated, HeldNow
<1>11. QED
  BY <1>2, <1>8, <1>10 DEF HeldNow

\* Who works is active, and what the barriers have brought about so far.
LEMMA WorkFacts ==
    ASSUME PoolInv, NEW t \in Threads, pc[t] \in Working \/ at[t] # "out"
    PROVE  /\ kind # "none" /\ t \in Active /\ Coordinated
           /\ pc[t] \in Working
           /\ ws[t] \in Worker /\ tp \in Pool
<1>1. pc[t] \in Working
  BY DEF PoolInv, Shape, Working
<1>2. pc[t] # "user" /\ pc[t] # "exit"
  BY <1>1 DEF Working
<1>3. kind # "none"
  BY <1>2, NobodyInBarrier DEF PoolInv, Shape
<1>4. QED
  BY <1>1, <1>2, <1>3 DEF PoolInv, Shape, Types

LEMMA Rounds ==
    ASSUME PoolInv, kind # "none", NEW t \in Active
    PROVE  /\ Round(t) = Round(0)
           /\ ws[t].node \in 0 .. NNodes /\ ws[t].node \in Nat
           /\ pc[t] \in {"node", "chunk", "fetch", "after"} =>
                ws[t].node < NNodes /\ ws[t].node \in Nodes
           /\ pc[t] \in GraphPlaces \union {"end"} => ws[t].nth = n_threads_cur
           /\ pc[t] = "start" => Round(t) = 0 /\ ~Held(t) /\ ~Over(t)
           /\ pc[t] = "for" /\ ~Held(t) => Round(t) = Before(ws[t].node) /\ ~Over(t)
           /\ pc[t] = "for" /\ Held(t) => /\ Round(t) = 2 * ws[t].node - 1 /\ ~Over(t)
                                          /\ ws[t].node \in 1 .. NNodes - 1
           /\ pc[t] = "node" => Round(t) = 2 * ws[t].node /\ ~Held(t) /\ ~Over(t)
           /\ pc[t] = "chunk" => /\ ~Over(t)
                                 /\ Round(t) = IF Held(t) THEN 2 * ws[t].node
                                               ELSE 2 * ws[t].node + 1
           /\ pc[t] \in {"fetch", "after"} => /\ Round(t) = 2 * ws[t].node + 1
                                              /\ ~Held(t) /\ ~Over(t)
           /\ Over(t) => Round(t) = IF Held(t) THEN Before(ws[t].node) ELSE Last
           /\ pc[t] = "end" /\ Held(t) => Over(t)
           /\ pc[0] = "end" => Over(0)
           /\ Held(t) => pc[t] \in {"for", "chunk", "end"}
<1>1. t \in Threads
  BY Team DEF PoolInv
<1>2. Round(t) = Round(0)
  BY DEF PoolInv, Coordinated, SameRound
<1>3. /\ ws[t].node \in 0 .. NNodes /\ ws[t].node \in Nat
      /\ pc[t] \in {"node", "chunk", "fetch", "after"} =>
                ws[t].node < NNodes /\ ws[t].node \in Nodes
      /\ pc[t] \in GraphPlaces \union {"end"} => ws[t].nth = n_threads_cur
  BY <1>1, Numbers DEF PoolInv, Shape, Nodes, Working, GraphPlaces
<1>4. Held(t) => pc[t] \in {"chunk", "end"} \/ (pc[t] = "for" /\ ws[t].node \in 1 .. NNodes - 1)
  BY <1>1 DEF Held, PoolInv, Shape
<1>5. ASSUME pc[t] \in GraphPlaces \union {"start"} PROVE ~Over(t)
  BY <1>5 DEF Over, Idle, Between, GraphPlaces
<1>6. (pc[t] = "end" /\ Held(t) => Over(t)) /\ (pc[0] = "end" => Over(0))
  BY DEF Over, PoolInv, Coordinated, HeldNow
<1>7. pc[t] = "node" => Before(ws[t].node) = 2 * ws[t].node
  BY <1>3, BeforeIs
<1>8. QED
  BY <1>2, <1>3, <1>4, <1>5, <1>6, <1>7 DEF Round, Ahead, Behind, GraphPlaces

\* A step in the graph that neither takes nor ends a chunk.
LEMMA ChunksCalm ==
    ASSUME PoolInv, kind # "none", NEW t \in Active, Outside \/ Call(t),
           \A u \in Threads \ {t} : pc'[u] = pc[u] /\ ws'[u] = ws[u],
           Round(t)' = Round(t), Graph' = Graph, tp'.chunk = tp.chunk, done' = done,
           pc[t] \notin {"chunk", "fetch"}, pc'[t] \notin {"chunk", "fetch"},
           Round(t) = Last => ws'[t].node = ws[t].node
    PROVE  SameRound' /\ ChunksHeld' /\ ChunksDone'
<1>1. /\ t \in Threads /\ Active \subseteq Threads /\ 0 \in Active
      /\ Active' = Active /\ n_threads_cur' = n_threads_cur
  BY Team, Others DEF PoolInv
<1>2. \A u \in Active : Round(u)' = Round(u)
  BY Others
<1>3. SameRound' /\ Round(0)' = Round(0)
  BY <1>1, <1>2 DEF SameRound, PoolInv, Coordinated
<1>4. \A u \in Active : Held(u)' /\ pc'[u] = "chunk" =>
         Held(u) /\ pc[u] = "chunk" /\ ws'[u].chunk = ws[u].chunk
  BY <1>1, Others
<1>5. \A u \in Active : pc'[u] = "chunk" => pc[u] = "chunk" /\ ws'[u].chunk = ws[u].chunk
  BY <1>1
<1>6. \A u \in Active : \A c : Holds(u, c)' <=> Holds(u, c)
  BY <1>1 DEF Holds
<1>7. \A u \in Active : pc'[u] \notin {"chunk", "fetch"} => pc[u] \notin {"chunk", "fetch"}
  BY <1>1
<1>8. ChunksHeld'
  BY <1>1, <1>3, <1>4, <1>5, <1>7 DEF ChunksHeld, Holds, PoolInv, Coordinated
<1>9. Round(0) = Last => ws'[0].node = ws[0].node
  BY <1>1, Rounds
<1>10. \A k \in Nodes, c \in 0 .. ChunksFor(n_threads_cur) - 1 : Computed(k, c)' <=> Computed(k, c)
  BY <1>1, <1>3, <1>6, <1>9 DEF Computed
<1>11. ChunksDone'
  BY <1>1, <1>10 DEF ChunksDone, PoolInv, Coordinated
<1>12. QED
  BY <1>3, <1>8, <1>11

LEMMA AbortCalm ==
    ASSUME PoolInv, kind # "none", NEW t \in Active, Outside \/ Call(t),
           \A u \in Threads \ {t} : pc'[u] = pc[u] /\ ws'[u] = ws[u],
           Graph' = Graph, tp'.abort = tp.abort, tp'.ok = tp.ok,
           pc'[t] \in {"node", "chunk", "fetch", "after"} => tp.abort # ws'[t].node,
           Over(t)' /\ ws'[t].node < NNodes => tp.abort = ws'[t].node,
           t = 0 /\ ~tp.ok => ws'[0].node = ws[0].node /\ (pc'[0] = "for" \/ Over(0)')
    PROVE  AbortSeen'
<1>1. /\ t \in Threads /\ Active \subseteq Threads /\ 0 \in Active /\ Active' = Active
      /\ \A u \in Active \ {t} : Over(u)' <=> Over(u)
  BY Team, Others DEF PoolInv
<1>2. QED
  BY <1>1 DEF AbortSeen, PoolInv, Coordinated

\* Where a step has taken its thread, and that it has taken no other anywhere.
LEMMA ToPlaces ==
    ASSUME PoolInv, NEW t \in Threads, NEW l, To(t, l)
    PROVE  pc'[t] = l /\ \A u \in Threads \ {t} : pc'[u] = pc[u]
BY DEF To, PoolInv, Types

LEMMA StartKept ==
    ASSUME PoolInv, NEW t \in Threads, Start(t) PROVE Shape' /\ Coordinated' /\ IInv'
<1>1. pc[t] = "start" /\ To(t, "for") /\ Outside /\ UNCHANGED <<kind, tp, done>>
  BY DEF Start, Step, At, Private, poolVars
<1>2. kind # "none" /\ t \in Active
  BY <1>1, WorkFacts DEF Working
<1>3. pc'[t] = "for" /\ \A u \in Threads \ {t} : pc'[u] = pc[u] /\ ws'[u] = ws[u]
  BY <1>1, ToPlaces DEF Start, PoolInv, Types
<1>4. ws'[t].node = 0 /\ ws'[t].nth = n_threads_cur /\ ws'[t].last_graph = ws[t].last_graph
  <2>1. /\ ws[t] \in Worker
        /\ ws'[t] = [ws[t] EXCEPT !.cgraph = tp.cgraph, !.nth = n_threads_cur, !.node = 0]
    BY DEF Start, PoolInv, Types
  <2>2. QED
    BY <2>1 DEF Worker
<1>0. Graph' = Graph
  BY <1>1, <1>3, GraphSame DEF PoolInv, Working
<1>5. IInv' /\ ~Held(t) /\ ~Over(t) /\ Round(t) = 0 /\ at' = at /\ at[t] = "out"
      /\ (Held(t)' <=> Held(t))
  BY <1>0, <1>1, <1>2, <1>3, Others, Rounds DEF Start, Step, At
<1>6. Shape' /\ HeldNow'
  BY <1>0, <1>1, <1>2, <1>3, <1>4, <1>5, Numbers, WorkShape DEF Working
<1>7. ~Over(t)' /\ Round(t)' = 0
  <2>1. ~Over(t)'
    BY <1>3 DEF Over, Idle, Between
  <2>2. QED
    BY <1>3, <1>4, <1>5, <2>1 DEF Round, Ahead, Before
<1>8. SameRound' /\ ChunksHeld' /\ ChunksDone'
  BY <1>0, <1>1, <1>2, <1>3, <1>5, <1>7, Numbers, ChunksCalm DEF Last
<1>9. AbortSeen'
  <2>1. t = 0 => tp.ok
    BY <1>1, <1>2, <1>5 DEF PoolInv, Coordinated, AbortSeen
  <2>2. QED
    BY <1>0, <1>1, <1>2, <1>3, <1>7, <2>1, AbortCalm
<1>10. QED
  BY <1>5, <1>6, <1>8, <1>9 DEF Coordinated

LEMMA ForKept ==
    ASSUME PoolInv, NEW t \in Threads, For(t) PROVE Shape' /\ Coordinated' /\ IInv'
<1>1. pc[t] = "for" /\ at[t] = "out" /\ UNCHANGED <<kind, tp, ws, done>>
  BY DEF For, At, poolVars
<1>2. kind # "none" /\ t \in Active
  BY <1>1, WorkFacts DEF Working
<1>3. ~Held(t) /\ ~Over(t) /\ Round(t) = Before(ws[t].node) /\ ws[t].node \in 0 .. NNodes
      /\ ws[t].nth = n_threads_cur
  BY <1>1, <1>2, Rounds DEF Held, GraphPlaces
<1>4. CASE To(t, "node") /\ Outside /\ ws[t].node < NNodes /\ tp.abort # ws[t].node
  <2>1. pc'[t] = "node" /\ \A u \in Threads \ {t} : pc'[u] = pc[u] /\ ws'[u] = ws[u]
    BY <1>1, <1>4, ToPlaces
  <2>0. Graph' = Graph
    BY <1>1, <2>1, GraphSame DEF PoolInv, Working
  <2>2. IInv' /\ at' = at /\ (Held(t)' <=> Held(t))
    BY <2>0, <1>2, <1>4, <2>1, Others
  <2>3. Shape' /\ HeldNow'
    BY <2>0, <1>1, <1>2, <1>3, <1>4, <2>1, <2>2, WorkShape DEF Working
  <2>4. ~Over(t)' /\ Round(t)' = Round(t)
    <3>1. ~Over(t)'
      BY <2>1 DEF Over, Idle, Between
    <3>2. QED
      BY <1>1, <1>3, <2>1, <2>2, <3>1 DEF Round, Ahead, Before
  <2>5. SameRound' /\ ChunksHeld' /\ ChunksDone'
    BY <2>0, <1>1, <1>2, <1>4, <2>1, <2>4, ChunksCalm
  <2>6. AbortSeen'
    <3>1. t = 0 => tp.ok
      BY <1>2, <1>3, <1>4 DEF PoolInv, Coordinated, AbortSeen
    <3>2. QED
      BY <2>0, <1>1, <1>2, <1>4, <2>1, <2>4, <3>1, AbortCalm
  <2>7. QED
    BY <2>2, <2>3, <2>5, <2>6 DEF Coordinated
<1>5. CASE To(t, "end") /\ Call(t) /\ (ws[t].node < NNodes => tp.abort = ws[t].node)
  <2>1. pc'[t] = "end" /\ \A u \in Threads \ {t} : pc'[u] = pc[u] /\ ws'[u] = ws[u]
    BY <1>1, <1>5, ToPlaces
  <2>0. Graph' = Graph
    BY <1>1, <2>1, GraphSame DEF PoolInv, Working
  <2>2. IInv' /\ Held(t)'
    BY <2>0, <1>2, <1>5, <2>1, Others
  <2>3. Shape' /\ HeldNow'
    BY <2>0, <1>1, <1>2, <1>3, <1>5, <2>1, WorkShape DEF Working
  <2>4. Over(t)' /\ Round(t)' = Round(t)
    <3>1. Over(t)'
      <4>1. t # 0 => ws[t].last_graph = Graph
        BY <1>1, <1>2, Numbers DEF PoolInv, Shape, Idle, Workers
      <4>2. QED
        BY <1>1, <2>0, <2>1, <4>1 DEF Over
    <3>2. QED
      BY <1>1, <1>3, <2>2, <3>1 DEF Round, Behind, Before
  <2>5. SameRound' /\ ChunksHeld' /\ ChunksDone'
    BY <2>0, <1>1, <1>2, <1>5, <2>1, <2>4, ChunksCalm
  <2>6. AbortSeen'
    BY <2>0, <1>1, <1>2, <1>5, <2>1, <2>4, AbortCalm
  <2>7. QED
    BY <2>2, <2>3, <2>5, <2>6 DEF Coordinated
<1>6. QED
  BY <1>4, <1>5 DEF For

LEMMA NodeKept ==
    ASSUME PoolInv, NEW t \in Threads, Node(t) PROVE Shape' /\ Coordinated' /\ IInv'
<1>1. /\ pc[t] = "node" /\ at[t] = "out" /\ To(t, "chunk") /\ Call(t)
      /\ UNCHANGED <<kind, done>>
  BY DEF Node, Step, At, poolVars
<1>2. kind # "none" /\ t \in Active /\ Coordinated
  BY <1>1, WorkFacts DEF Working
<1>3. /\ ~Held(t) /\ ~Over(t) /\ Round(t) = 2 * ws[t].node /\ ws[t].node \in Nodes
      /\ ws[t].node \in 0 .. NNodes /\ ws[t].node < NNodes /\ ws[t].nth = n_threads_cur
      /\ Round(t) = Round(0)
  BY <1>1, <1>2, Rounds DEF GraphPlaces
<1>4. pc'[t] = "chunk" /\ \A u \in Threads \ {t} : pc'[u] = pc[u] /\ ws'[u] = ws[u]
  BY <1>1, ToPlaces DEF Node, PoolInv, Types
<1>5. /\ ws'[t].chunk = t /\ ws'[t].node = ws[t].node /\ ws'[t].nth = ws[t].nth
      /\ ws'[t].last_graph = ws[t].last_graph
  <2>1. ws[t] \in Worker /\ ws'[t] = [ws[t] EXCEPT !.chunk = t]
    BY DEF Node, PoolInv, Types
  <2>2. QED
    BY <2>1 DEF Worker
<1>6. /\ tp'.chunk = IF t = 0 THEN n_threads_cur ELSE tp.chunk
      /\ tp'.abort = tp.abort /\ tp'.ok = tp.ok /\ tp'.n_graph = tp.n_graph
      /\ tp'.n_threads_max = tp.n_threads_max
  <2>1. tp \in Pool /\ tp' = IF t = 0 THEN [tp EXCEPT !.chunk = ws[t].nth] ELSE tp
    BY DEF Node, PoolInv, Types
  <2>2. QED
    BY <1>3, <2>1 DEF Pool
<1>0. Graph' = Graph
  BY <1>1, <1>4, <1>6, GraphSame DEF PoolInv, Working
<1>7. /\ IInv' /\ Held(t)' /\ Active' = Active /\ n_threads_cur' = n_threads_cur
      /\ \A u \in Active \ {t} : /\ Held(u)' <=> Held(u)
                                 /\ Round(u)' = Round(u)
  BY <1>0, <1>1, <1>2, <1>4, Others
<1>8. Shape' /\ HeldNow'
  BY <1>0, <1>1, <1>2, <1>3, <1>4, <1>5, <1>6, WorkShape DEF Working
<1>9. ~Over(t)' /\ Round(t)' = Round(t)
  <2>1. ~Over(t)'
    BY <1>4 DEF Over, Idle, Between
  <2>2. QED
    BY <1>3, <1>4, <1>5, <1>7, <2>1 DEF Round, Behind
<1>10. Active \subseteq Threads /\ 0 \in Active
  BY Team DEF PoolInv
<1>11. SameRound' /\ Round(0)' = 2 * ws[t].node
  BY <1>2, <1>3, <1>7, <1>9, <1>10 DEF SameRound, Coordinated
<1>12. \A k \in Nodes : Round(0) # 2 * k + 1 /\ Round(0)' # 2 * k + 1
  BY <1>3, <1>11, Numbers DEF Nodes
<1>13. ChunksHeld'
  <2>1. ASSUME NEW u \in Active, Held(u)', pc'[u] = "chunk"
        PROVE  ws'[u].chunk = u /\ (u = 0 => tp'.chunk = n_threads_cur)
    <3>1. CASE u = t
      BY <1>5, <1>6, <3>1
    <3>2. CASE u # t
      <4>1. Held(u) /\ pc[u] = "chunk" /\ ws'[u] = ws[u]
        BY <1>4, <1>7, <1>10, <2>1, <3>2
      <4>2. ws[u].chunk = u /\ (u = 0 => tp.chunk = n_threads_cur)
        BY <1>2, <4>1 DEF Coordinated, ChunksHeld
      <4>3. QED
        BY <1>6, <4>1, <4>2
    <3>3. QED
      BY <3>1, <3>2
  <2>2. QED
    BY <1>7, <1>12, <2>1 DEF ChunksHeld
<1>14. ChunksDone'
  <2>1. Round(0) = Round(0)' /\ Round(0) # Last
    BY <1>3, <1>11, BeforeIs
  <2>2. \A k \in Nodes, c \in 0 .. ChunksFor(n_threads_cur) - 1 : Computed(k, c)' <=> Computed(k, c)
    BY <1>12, <2>1 DEF Computed
  <2>3. QED
    BY <1>1, <1>2, <1>7, <2>2 DEF ChunksDone, Coordinated
<1>15. AbortSeen'
  <2>1. t = 0 => tp.ok
    BY <1>1, <1>2, <1>3 DEF Coordinated, AbortSeen
  <2>2. tp.abort # ws[t].node
    BY <1>1, <1>2 DEF Coordinated, AbortSeen
  <2>3. QED
    BY <1>0, <1>1, <1>2, <1>4, <1>5, <1>6, <1>9, <2>1, <2>2, AbortCalm
<1>16. QED
  BY <1>7, <1>8, <1>11, <1>13, <1>14, <1>15 DEF Coordinated

LEMMA AfterKept ==
    ASSUME PoolInv, NEW t \in Threads, After(t) PROVE Shape' /\ Coordinated' /\ IInv'
<1>1. /\ pc[t] = "after" /\ at[t] = "out" /\ To(t, "for")
      /\ IF ws[t].node + 1 < NNodes THEN Call(t) ELSE Outside
      /\ UNCHANGED <<kind, done>>
  BY DEF After, Step, At, poolVars
<1>2. kind # "none" /\ t \in Active /\ Coordinated
  BY <1>1, WorkFacts DEF Working
<1>3. /\ ~Held(t) /\ ~Over(t) /\ Round(t) = 2 * ws[t].node + 1 /\ ws[t].node \in Nodes
      /\ ws[t].node \in 0 .. NNodes /\ ws[t].node < NNodes /\ ws[t].nth = n_threads_cur
      /\ Round(t) = Round(0) /\ ws[t].node \in Nat
  BY <1>1, <1>2, Rounds DEF GraphPlaces
<1>4. pc'[t] = "for" /\ \A u \in Threads \ {t} : pc'[u] = pc[u] /\ ws'[u] = ws[u]
  BY <1>1, ToPlaces DEF After, PoolInv, Types
<1>5. /\ ws'[t].chunk = ws[t].chunk /\ ws'[t].node = ws[t].node + 1 /\ ws'[t].nth = ws[t].nth
      /\ ws'[t].last_graph = ws[t].last_graph
  <2>1. ws[t] \in Worker /\ ws'[t] = [ws[t] EXCEPT !.node = @ + 1]
    BY DEF After, PoolInv, Types
  <2>2. QED
    BY <2>1 DEF Worker
<1>6. /\ tp'.chunk = tp.chunk /\ tp'.n_graph = tp.n_graph
      /\ tp'.n_threads_max = tp.n_threads_max
      /\ \/ tp'.abort = tp.abort /\ tp'.ok = tp.ok
         \/ t = 0 /\ tp'.abort = ws[0].node + 1 /\ tp'.ok = FALSE
  <2>1. tp \in Pool /\ \/ tp' = tp
                       \/ t = 0 /\ tp' = [tp EXCEPT !.abort = ws[t].node + 1, !.ok = FALSE]
    BY DEF After, PoolInv, Types
  <2>2. QED
    BY <2>1 DEF Pool
<1>0. Graph' = Graph
  BY <1>1, <1>4, <1>6, GraphSame DEF PoolInv, Working
<1>7. /\ Outside \/ Call(t)
      /\ IInv' /\ Active' = Active /\ n_threads_cur' = n_threads_cur
      /\ Held(t)' <=> ws[t].node + 1 < NNodes
      /\ at'[t] # "out" => ws[t].node + 1 < NNodes
      /\ \A u \in Active \ {t} : /\ Held(u)' <=> Held(u)
                                 /\ Over(u)' <=> Over(u)
                                 /\ Round(u)' = Round(u)
  BY <1>0, <1>1, <1>2, <1>3, <1>4, Others
<1>8. ws[t].node + 1 \in 0 .. NNodes /\ (ws[t].node + 1 < NNodes => ws[t].node + 1 \in 1 .. NNodes - 1)
  BY <1>3, Numbers
<1>9. Shape' /\ HeldNow'
  BY <1>0, <1>1, <1>2, <1>3, <1>4, <1>5, <1>6, <1>7, <1>8, WorkShape DEF Working
<1>10. ~Over(t)' /\ Round(t)' = Round(t)
  <2>1. ~Over(t)'
    BY <1>4 DEF Over, Idle, Between
  <2>2. CASE ws[t].node + 1 < NNodes
    BY <1>3, <1>4, <1>5, <1>7, <2>1, <2>2 DEF Round, Behind
  <2>3. CASE ~(ws[t].node + 1 < NNodes)
    <3>1. ws[t].node + 1 = NNodes /\ NNodes \in Nat
      BY <1>3, <1>8, <2>3, Numbers
    <3>2. Round(t)' = Before(ws[t].node + 1)
      BY <1>4, <1>5, <1>7, <2>1, <2>3 DEF Round, Ahead, Before
    <3>3. QED
      BY <1>3, <1>8, <2>1, <3>1, <3>2, BeforeIs
  <2>4. QED
    BY <2>2, <2>3
<1>11. SameRound' /\ ChunksHeld' /\ ChunksDone'
  <2>1. Round(t) # Last
    BY <1>3, BeforeIs
  <2>2. QED
    BY <1>0, <1>1, <1>2, <1>4, <1>6, <1>7, <1>10, <2>1, ChunksCalm
<1>12. AbortSeen'
  <2>1. CASE tp'.abort = tp.abort /\ tp'.ok = tp.ok
    <3>1. t = 0 => tp.ok
      BY <1>1, <1>2, <1>3 DEF Coordinated, AbortSeen
    <3>2. QED
      BY <1>0, <1>1, <1>2, <1>4, <1>6, <1>7, <1>10, <2>1, <3>1, AbortCalm
  <2>2. CASE t = 0 /\ tp'.abort = ws[0].node + 1 /\ tp'.ok = FALSE
    <3>1. Active \subseteq Threads
      BY Team DEF PoolInv
    <3>2. ASSUME NEW u \in Active, u # t, pc[u] \in {"node", "chunk", "fetch", "after"}
          PROVE  ws[u].node # ws[0].node + 1
      <4>1. /\ Round(u) = 2 * ws[0].node + 1 /\ ws[u].node \in Nat
            /\ Round(u) = 2 * ws[u].node \/ Round(u) = 2 * ws[u].node + 1
        BY <1>2, <1>3, <2>2, <3>2, Rounds
      <4>2. QED
        BY <1>3, <2>2, <4>1
    <3>3. ASSUME NEW u \in Active, u # t, Over(u), ws[u].node < NNodes
          PROVE  FALSE
      <4>1. /\ Round(u) = 2 * ws[0].node + 1 /\ ws[u].node \in 0 .. NNodes /\ ws[u].node \in Nat
            /\ Round(u) = Before(ws[u].node) \/ Round(u) = Last
        BY <1>2, <1>3, <2>2, <3>3, Rounds
      <4>2. 2 * ws[0].node + 1 < Last /\ Before(ws[u].node) = 2 * ws[u].node
        BY <1>3, <2>2, <3>3, <4>1, BeforeIs
      <4>3. QED
        BY <1>3, <2>2, <4>1, <4>2
    <3>4. \A u \in Active : pc'[u] \in {"node", "chunk", "fetch", "after"} => tp'.abort # ws'[u].node
      BY <1>3, <1>4, <2>2, <3>1, <3>2
    <3>5. \A u \in Active : Over(u)' /\ ws'[u].node < NNodes => tp'.abort = ws'[u].node
      BY <1>4, <1>7, <1>10, <2>2, <3>1, <3>3
    <3>6. tp'.abort = ws'[0].node /\ tp'.abort > 0 /\ pc'[0] = "for"
      BY <1>3, <1>4, <1>5, <2>2
    <3>7. QED
      BY <1>7, <2>2, <3>4, <3>5, <3>6 DEF AbortSeen
  <2>3. QED
    BY <1>6, <2>1, <2>2
<1>13. QED
  BY <1>7, <1>9, <1>11, <1>12 DEF Coordinated

LEMMA ChunkKept ==
    ASSUME PoolInv, NEW t \in Threads, Chunk(t) PROVE Shape' /\ Coordinated' /\ IInv'
<1> DEFINE n == n_threads_cur
           k == ws[t].node
           c == ws[t].chunk
<1>1. /\ pc[t] = "chunk" /\ at[t] = "out" /\ Outside /\ UNCHANGED <<kind, tp, ws>>
      /\ \/ /\ c < ChunksFor(ws[t].nth) /\ done' = [done EXCEPT ![k][c] = @ + 1]
            /\ To(t, IF ws[t].nth >= ChunksFor(ws[t].nth) THEN "after" ELSE "fetch")
         \/ ~(c < ChunksFor(ws[t].nth)) /\ done' = done /\ To(t, "after")
  BY DEF Chunk, At, poolVars
<1>2. kind # "none" /\ t \in Active /\ Coordinated
  BY <1>1, WorkFacts DEF Working
<1>3. /\ ~Held(t) /\ ~Over(t) /\ Round(t) = 2 * k + 1 /\ k \in Nodes /\ k \in Nat
      /\ k \in 0 .. NNodes /\ k < NNodes /\ ws[t].nth = n /\ Round(t) = Round(0)
  BY <1>1, <1>2, Rounds DEF Held, GraphPlaces
<1>4. /\ pc'[t] \in {"after", "fetch"} /\ (pc'[t] = "after" => n >= ChunksFor(n) \/ ~(c < ChunksFor(n)))
      /\ \A u \in Threads \ {t} : pc'[u] = pc[u] /\ ws'[u] = ws[u]
  BY <1>1, <1>3, ToPlaces
<1>0. Graph' = Graph
  BY <1>1, <1>4, GraphSame DEF PoolInv, Working
<1>5. /\ IInv' /\ Active' = Active /\ n_threads_cur' = n /\ at' = at
      /\ Held(t)' <=> Held(t)
      /\ \A u \in Active \ {t} : /\ Held(u)' <=> Held(u)
                                 /\ Round(u)' = Round(u)
  BY <1>0, <1>1, <1>2, <1>4, Others
<1>6. Shape' /\ HeldNow'
  BY <1>0, <1>1, <1>2, <1>3, <1>4, <1>5, WorkShape DEF Working
<1>7. ~Over(t)' /\ Round(t)' = Round(t)
  <2>1. ~Over(t)'
    BY <1>4 DEF Over, Idle, Between
  <2>2. QED
    BY <1>1, <1>3, <1>4, <1>5, <2>1 DEF Round, Ahead
<1>8. Active \subseteq Threads /\ 0 \in Active /\ n \in Nat /\ n >= 1 /\ n <= NMax
  BY Team DEF PoolInv
<1>9. SameRound' /\ Round(0)' = 2 * k + 1 /\ Round(0) = 2 * k + 1
  BY <1>2, <1>3, <1>5, <1>7, <1>8 DEF SameRound, Coordinated
<1>10. /\ c \in Nat /\ tp.chunk \in Nat /\ ChunksFor(n) \in Nat /\ ChunksFor(n) >= n
       /\ 0 .. ChunksFor(n) - 1 \subseteq Cells
  BY <1>8, ChunkCells DEF PoolInv, Types, Worker, Pool
<1>11. /\ tp.chunk >= n
       /\ \A u \in Active : pc[u] = "chunk" => ws[u].chunk < tp.chunk
       /\ \A u, v \in Active : u # v /\ pc[u] = "chunk" => ~Holds(v, ws[u].chunk)
       /\ \A u \in Active : pc[u] \notin {"chunk", "fetch"} =>
            \A d \in 0 .. ChunksFor(n) - 1 : d < n \/ d < tp.chunk
  BY <1>2, <1>3, <1>9 DEF Coordinated, ChunksHeld
<1>12. /\ \A u \in Active : \A d : Holds(u, d)' <=> u # t /\ Holds(u, d)
       /\ \A d : Holds(t, d) <=> d = c
  BY <1>1, <1>4, <1>8 DEF Holds
<1>13. ChunksHeld'
  <2>1. \A u \in Active : Held(u)' /\ pc'[u] = "chunk" => u # t /\ Held(u) /\ pc[u] = "chunk"
    BY <1>4, <1>5, <1>8
  <2>2. \A u \in Active : pc'[u] = "chunk" => u # t /\ pc[u] = "chunk"
    BY <1>4, <1>8
  <2>3. ASSUME NEW u \in Active, pc'[u] \notin {"chunk", "fetch"},
               NEW d \in 0 .. ChunksFor(n) - 1
        PROVE  d < n \/ d < tp.chunk
    <3>1. CASE u = t
      BY <1>1, <1>2, <1>4, <1>8, <1>10, <1>11, <2>3, <3>1
    <3>2. CASE u # t
      BY <1>4, <1>8, <1>11, <2>3, <3>2
    <3>3. QED
      BY <3>1, <3>2
  <2>4. \A u, v \in Active : u # v /\ pc'[u] = "chunk" => ~Holds(v, ws[u].chunk)'
    BY <1>1, <1>11, <1>12, <2>2
  <2>5. \A u \in Active : Held(u)' /\ pc'[u] = "chunk" =>
          ws'[u].chunk = u /\ (u = 0 => tp'.chunk = n)
    BY <1>1, <1>2, <2>1 DEF Coordinated, ChunksHeld
  <2>6. QED
    BY <1>1, <1>5, <1>11, <2>2, <2>3, <2>4, <2>5 DEF ChunksHeld
<1>14. ChunksDone'
  <2>1. ASSUME NEW j \in Nodes, NEW d \in 0 .. ChunksFor(n) - 1, ~(j = k /\ d = c)
        PROVE  (Computed(j, d)' <=> Computed(j, d)) /\ done'[j][d] = done[j][d]
    <3>1. done'[j][d] = done[j][d]
      BY <1>1, <1>3, <1>10, <2>1 DEF PoolInv, Types
    <3>2. d # c => \A u \in Active : Holds(u, d)' <=> Holds(u, d)
      BY <1>12
    <3>3. j # k => Round(0) # 2 * j + 1
      BY <1>3, <1>9, Numbers DEF Nodes
    <3>4. Round(0) # Last
      BY <1>3, <1>9, BeforeIs
    <3>5. QED
      BY <1>1, <1>5, <1>9, <2>1, <3>1, <3>2, <3>3, <3>4 DEF Computed
  <2>2. ASSUME c < ChunksFor(n)
        PROVE  /\ c \in 0 .. ChunksFor(n) - 1 /\ ~Computed(k, c) /\ Computed(k, c)'
               /\ done[k][c] = 0 /\ done'[k][c] = 1
    <3>1. c \in 0 .. ChunksFor(n) - 1 /\ c < tp.chunk /\ Round(0) # Last
      BY <1>1, <1>2, <1>3, <1>9, <1>10, <1>11, <2>2, BeforeIs
    <3>2. ~Computed(k, c)
      BY <1>2, <1>9, <1>12, <3>1 DEF Computed
    <3>3. Computed(k, c)'
      <4>1. \A u \in Active : u # t => ~Holds(u, c)
        BY <1>1, <1>2, <1>11
      <4>2. \A u \in Active : ~(Holds(u, c)')
        BY <1>1, <1>12, <4>1
      <4>3. QED
        BY <1>1, <1>5, <1>9, <3>1, <4>2 DEF Computed
    <3>4. done[k][c] = 0
      BY <1>2, <1>3, <3>1, <3>2 DEF Coordinated, ChunksDone
    <3>5. done' = [done EXCEPT ![k][c] = @ + 1]
      BY <1>1, <1>3, <2>2
    <3>6. c \in Cells
      BY <1>10, <3>1
    <3>7. done'[k][c] = done[k][c] + 1
      BY <1>3, <3>5, <3>6 DEF PoolInv, Types
    <3>8. QED
      BY <3>1, <3>2, <3>3, <3>4, <3>7
  <2>3. ASSUME NEW j \in Nodes, NEW d \in 0 .. ChunksFor(n) - 1
        PROVE  done'[j][d] = IF Computed(j, d)' THEN 1 ELSE 0
    <3>1. CASE j = k /\ d = c
      <4>1. c < ChunksFor(n)
        BY <1>10, <3>1
      <4>2. QED
        BY <1>1, <2>2, <3>1, <4>1
    <3>2. CASE ~(j = k /\ d = c)
      BY <1>2, <2>1, <3>2 DEF Coordinated, ChunksDone
    <3>3. QED
      BY <3>1, <3>2
  <2>4. QED
    BY <1>5, <2>3 DEF ChunksDone
<1>15. AbortSeen'
  <2>1. (t = 0 => tp.ok) /\ tp.abort # k
    BY <1>1, <1>2, <1>3 DEF Coordinated, AbortSeen
  <2>2. QED
    BY <1>0, <1>1, <1>2, <1>4, <1>7, <2>1, AbortCalm
<1>16. QED
  BY <1>5, <1>6, <1>9, <1>13, <1>14, <1>15 DEF Coordinated

LEMMA FetchKept ==
    ASSUME PoolInv, NEW t \in Threads, Fetch(t) PROVE Shape' /\ Coordinated' /\ IInv'
<1> DEFINE n == n_threads_cur
           k == ws[t].node
           m == tp.chunk
<1>1. pc[t] = "fetch" /\ at[t] = "out" /\ To(t, "chunk") /\ Outside /\ UNCHANGED <<kind, done>>
  BY DEF Fetch, Step, At, poolVars
<1>2. kind # "none" /\ t \in Active /\ Coordinated
  BY <1>1, WorkFacts DEF Working
<1>3. /\ ~Held(t) /\ ~Over(t) /\ Round(t) = 2 * k + 1 /\ k \in Nodes /\ k \in Nat
      /\ k \in 0 .. NNodes /\ k < NNodes /\ ws[t].nth = n /\ Round(t) = Round(0)
  BY <1>1, <1>2, Rounds DEF GraphPlaces
<1>4. pc'[t] = "chunk" /\ \A u \in Threads \ {t} : pc'[u] = pc[u] /\ ws'[u] = ws[u]
  BY <1>1, ToPlaces DEF Fetch, PoolInv, Types
<1>5. /\ ws'[t].chunk = m /\ ws'[t].node = k /\ ws'[t].nth = ws[t].nth
      /\ ws'[t].last_graph = ws[t].last_graph
  <2>1. ws[t] \in Worker /\ ws'[t] = [ws[t] EXCEPT !.chunk = m]
    BY DEF Fetch, PoolInv, Types
  <2>2. QED
    BY <2>1 DEF Worker
<1>6. /\ m \in Nat /\ tp'.chunk = m + 1
      /\ tp'.abort = tp.abort /\ tp'.ok = tp.ok /\ tp'.n_graph = tp.n_graph
      /\ tp'.n_threads_max = tp.n_threads_max
  <2>1. tp \in Pool /\ tp' = [tp EXCEPT !.chunk = @ + 1]
    BY DEF Fetch, PoolInv, Types
  <2>2. QED
    BY <2>1 DEF Pool
<1>0. Graph' = Graph
  BY <1>1, <1>4, <1>6, GraphSame DEF PoolInv, Working
<1>7. /\ IInv' /\ Active' = Active /\ n_threads_cur' = n /\ at' = at
      /\ Held(t)' <=> Held(t)
      /\ \A u \in Active \ {t} : /\ Held(u)' <=> Held(u)
                                 /\ Round(u)' = Round(u)
  BY <1>0, <1>1, <1>2, <1>4, Others
<1>8. Shape' /\ HeldNow'
  BY <1>0, <1>1, <1>2, <1>3, <1>4, <1>5, <1>6, <1>7, WorkShape DEF Working
<1>9. ~Over(t)' /\ Round(t)' = Round(t)
  <2>1. ~Over(t)'
    BY <1>4 DEF Over, Idle, Between
  <2>2. QED
    BY <1>3, <1>4, <1>5, <1>7, <2>1 DEF Round, Ahead
<1>10. Active \subseteq Threads /\ 0 \in Active /\ n \in Nat
  BY Team DEF PoolInv
<1>11. SameRound' /\ Round(0)' = 2 * k + 1 /\ Round(0) = 2 * k + 1
  BY <1>2, <1>3, <1>7, <1>9, <1>10 DEF SameRound, Coordinated
<1>12. /\ m >= n
       /\ \A u \in Active : pc[u] = "chunk" => ws[u].chunk < m
       /\ \A u, v \in Active : u # v /\ pc[u] = "chunk" => ~Holds(v, ws[u].chunk)
       /\ \A u \in Active : pc[u] \notin {"chunk", "fetch"} =>
            \A d \in 0 .. ChunksFor(n) - 1 : d < n \/ d < m
  BY <1>2, <1>3, <1>11 DEF Coordinated, ChunksHeld
<1>13. ASSUME NEW u \in Active, pc'[u] = "chunk"
       PROVE  /\ ~Held(u)'
              /\ u = t \/ (pc[u] = "chunk" /\ ws'[u] = ws[u])
              /\ ws'[u].chunk \in Nat /\ ws'[u].chunk < m + 1
              /\ u # t => ws'[u].chunk < m
  <2>1. CASE u = t
    BY <1>3, <1>5, <1>6, <1>7, <2>1
  <2>2. CASE u # t
    <3>1. pc[u] = "chunk" /\ ws'[u] = ws[u] /\ ws[u].chunk \in Nat
      BY <1>4, <1>10, <1>13, <2>2 DEF PoolInv, Types, Worker
    <3>2. ~Held(u)
      <4>1. Round(u) = 2 * k + 1 /\ ws[u].node \in Nat /\ (Held(u) => Round(u) = 2 * ws[u].node)
        BY <1>2, <1>3, <3>1, Rounds
      <4>2. QED
        BY <1>3, <4>1
    <3>3. QED
      BY <1>6, <1>7, <1>12, <2>2, <3>1, <3>2
  <2>3. QED
    BY <2>1, <2>2
<1>14. /\ \A u \in Active \ {t} : \A d : Holds(u, d)' <=> Holds(u, d)
       /\ \A d : Holds(t, d)' <=> d = m
       /\ \A d : ~Holds(t, d)
  BY <1>1, <1>4, <1>5, <1>10 DEF Holds
<1>15. ChunksHeld'
  <2>1. ASSUME NEW u \in Active, NEW v \in Active, u # v, pc'[u] = "chunk"
        PROVE  ~Holds(v, ws[u].chunk)'
    <3>1. CASE u = t
      <4>1. ws'[u].chunk = m /\ (Holds(v, ws[u].chunk)' => pc'[v] = "chunk" /\ ws'[v].chunk = m)
        BY <1>5, <3>1 DEF Holds
      <4>2. QED
        BY <1>6, <1>13, <2>1, <3>1, <4>1
    <3>2. CASE u # t /\ v = t
      <4>1. ws'[u].chunk < m /\ ws'[u].chunk \in Nat /\ (Holds(v, ws[u].chunk)' => ws'[v].chunk = ws'[u].chunk)
        BY <1>13, <2>1, <3>2 DEF Holds
      <4>2. QED
        BY <1>5, <1>6, <3>2, <4>1
    <3>3. CASE u # t /\ v # t
      <4>1. pc[u] = "chunk" /\ ws'[u] = ws[u] /\ ~Holds(v, ws[u].chunk)
        BY <1>12, <1>13, <2>1, <3>3
      <4>2. pc'[v] = pc[v] /\ ws'[v] = ws[v]
        BY <1>4, <1>10, <3>3
      <4>3. QED
        BY <4>1, <4>2 DEF Holds
    <3>4. QED
      BY <3>1, <3>2, <3>3
  <2>2. \A u \in Active : pc'[u] \notin {"chunk", "fetch"} =>
          \A d \in 0 .. ChunksFor(n) - 1 : d < n \/ d < m + 1
    <3>1. \A u \in Active : pc'[u] \notin {"chunk", "fetch"} => pc[u] \notin {"chunk", "fetch"}
      BY <1>4, <1>10
    <3>2. \A d \in 0 .. ChunksFor(n) - 1 : d \in Int
      OBVIOUS
    <3>3. QED
      BY <1>6, <1>12, <3>1, <3>2
  <2>3. m + 1 >= n
    BY <1>6, <1>10, <1>12
  <2>4. QED
    BY <1>6, <1>7, <1>13, <2>1, <2>2, <2>3 DEF ChunksHeld
<1>16. ChunksDone'
  <2>1. ASSUME NEW j \in Nodes, NEW d \in 0 .. ChunksFor(n) - 1
        PROVE  Computed(j, d)' <=> Computed(j, d)
    <3>1. d \in Int /\ Round(0) # Last
      BY <1>3, <1>11, BeforeIs
    <3>2. /\ (d < n \/ d < m) /\ (\A u \in Active : ~Holds(u, d))
             <=> (d < n \/ d < m + 1) /\ (\A u \in Active : ~Holds(u, d)')
      <4>1. CASE d = m
        BY <1>2, <1>6, <1>10, <1>12, <1>14, <4>1
      <4>2. CASE d # m
        BY <1>6, <1>14, <3>1, <4>2
      <4>3. QED
        BY <4>1, <4>2
    <3>3. QED
      BY <1>6, <1>7, <1>11, <3>1, <3>2 DEF Computed
  <2>2. QED
    BY <1>1, <1>2, <1>7, <2>1 DEF ChunksDone, Coordinated
<1>17. AbortSeen'
  <2>1. (t = 0 => tp.ok) /\ tp.abort # k
    BY <1>1, <1>2, <1>3 DEF Coordinated, AbortSeen
  <2>2. QED
    BY <1>0, <1>1, <1>2, <1>4, <1>5, <1>6, <1>9, <2>1, AbortCalm
<1>18. QED
  BY <1>7, <1>8, <1>11, <1>15, <1>16, <1>17 DEF Coordinated

-----------------------------------------------------------------------------
(* Steps in the barrier.                                                   *)
BarrierOnly ==
    /\ UNCHANGED <<n_threads_cur, poolVars, tp, pc, ws, done>>
    /\ \A u \in Threads : at'[u] # "out" => at[u] # "out"

LEMMA BarrierShape ==
    ASSUME PoolInv, BarrierOnly PROVE Shape' /\ Active' = Active
<1>1. UNCHANGED <<n_threads_cur, kind, tp, pc, ws>> /\ Active' = Active
  BY DEF BarrierOnly, poolVars, Active
<1>2. Graph' = Graph
  BY <1>1 DEF Graph
<1>3. QED
  BY <1>1, <1>2 DEF PoolInv, Shape, BarrierOnly

\* Nobody is let go.
LEMMA NobodyGoes ==
    ASSUME PoolInv, kind # "none", BarrierOnly, \A u \in Active : Held(u)' <=> Held(u)
    PROVE  Coordinated'
<1>1. Active' = Active /\ 0 \in Active
  BY BarrierShape, Team DEF PoolInv
<1>2. UNCHANGED <<n_threads_cur, tp, pc, ws, done>>
  BY DEF BarrierOnly
<1>0. Graph' = Graph
  BY <1>2 DEF Graph
<1>3. \A u \in Active : (Over(u)' <=> Over(u)) /\ Round(u)' = Round(u)
  BY <1>0, <1>2 DEF Over, Round, Ahead, Behind
<1>4. HeldNow' /\ SameRound' /\ AbortSeen'
  BY <1>0, <1>1, <1>2, <1>3 DEF HeldNow, SameRound, AbortSeen, PoolInv, Coordinated
<1>5. \A u \in Active : \A c : Holds(u, c)' <=> Holds(u, c)
  BY <1>2 DEF Holds
<1>6. ChunksHeld'
  BY <1>1, <1>2, <1>3, <1>5 DEF ChunksHeld, Holds, PoolInv, Coordinated
<1>7. ChunksDone'
  BY <1>1, <1>2, <1>3, <1>5 DEF ChunksDone, Computed, PoolInv, Coordinated
<1>8. QED
  BY <1>4, <1>6, <1>7 DEF Coordinated

\* When all threads are held, they are held at the same barrier: in the middle of a
\* node, between two nodes, or at the end of the graph.
LEMMA SameBarrier ==
    ASSUME PoolInv, kind # "none", \A u \in Active : Held(u)
    PROVE  \/ \E k \in Nodes : /\ Round(0) = 2 * k
                               /\ \A u \in Active : pc[u] = "chunk" /\ Ahead(u) = 2 * k + 1
           \/ \E k \in Nodes : /\ Round(0) = 2 * k + 1 /\ k + 1 < NNodes
                               /\ \A u \in Active : pc[u] = "for" /\ Ahead(u) = 2 * k + 2
           \/ /\ Round(0) = Before(ws[0].node)
              /\ \A u \in Active : pc[u] = "end" /\ Ahead(u) = Last
<1>0. Coordinated /\ 0 \in Active
  BY Team DEF PoolInv
<1>1. Graph > 0
  <2>1. pc[0] \in {"for", "chunk", "end"}
    BY <1>0, Rounds
  <2>2. QED
    BY <2>1 DEF PoolInv, Shape, Between
<1>2. ASSUME NEW u \in Active, NEW v \in Active, pc[u] = "chunk"
      PROVE  pc[v] = "chunk" /\ ws[v].node = ws[u].node
  <2>1. Round(v) = 2 * ws[u].node /\ ws[u].node \in Nat /\ ws[u].node < NNodes
    BY <1>2, Rounds
  <2>2. ws[v].node \in 0 .. NNodes /\ pc[v] \in {"for", "chunk", "end"}
    BY Rounds
  <2>3. pc[v] # "for"
    <3>1. pc[v] = "for" => Round(v) = 2 * ws[v].node - 1
      BY Rounds
    <3>2. QED
      BY <2>1, <2>2, <3>1, Numbers
  <2>4. pc[v] # "end"
    <3>1. SUFFICES ASSUME pc[v] = "end" PROVE FALSE
      OBVIOUS
    <3>2. Round(v) = Before(ws[v].node) /\ Over(v)
      BY <3>1, Rounds
    <3>3. CASE ws[v].node < NNodes
      <4>1. ws[v].node = ws[u].node
        BY <2>1, <2>2, <3>2, <3>3, BeforeIs
      <4>2. QED
        BY <1>0, <1>1, <1>2, <3>2, <3>3, <4>1 DEF Coordinated, AbortSeen
    <3>4. CASE ws[v].node = NNodes
      BY <2>1, <2>2, <3>2, <3>4, BeforeIs, Numbers
    <3>5. QED
      BY <2>2, <3>3, <3>4, Numbers
  <2>5. Round(v) = 2 * ws[v].node
    BY <2>2, <2>3, <2>4, Rounds
  <2>6. QED
    BY <2>1, <2>2, <2>3, <2>4, <2>5
<1>3. ASSUME NEW u \in Active, NEW v \in Active, pc[u] = "for"
      PROVE  pc[v] = "for" /\ ws[v].node = ws[u].node
  <2>1. Round(v) = 2 * ws[u].node - 1 /\ ws[u].node \in 1 .. NNodes - 1
    BY <1>3, Rounds
  <2>2. ws[v].node \in 0 .. NNodes /\ pc[v] \in {"for", "chunk", "end"}
    BY Rounds
  <2>3. pc[v] # "chunk"
    BY <1>2, <1>3
  <2>4. pc[v] # "end"
    <3>1. SUFFICES ASSUME pc[v] = "end" PROVE FALSE
      OBVIOUS
    <3>2. Round(v) = Before(ws[v].node)
      BY <3>1, Rounds
    <3>3. CASE ws[v].node = NNodes
      BY <2>1, <2>2, <3>2, <3>3, BeforeIs, Numbers
    <3>4. CASE ws[v].node # NNodes
      <4>1. ws[v].node \in Nat /\ ws[v].node < NNodes
        BY <2>2, <3>4, Numbers
      <4>2. Before(ws[v].node) = 2 * ws[v].node
        BY <2>2, <4>1, BeforeIs
      <4>3. QED
        BY <2>1, <3>2, <4>1, <4>2, Numbers
    <3>5. QED
      BY <3>3, <3>4
  <2>5. Round(v) = 2 * ws[v].node - 1
    BY <2>2, <2>3, <2>4, Rounds
  <2>6. QED
    BY <2>1, <2>2, <2>3, <2>4, <2>5
<1>4. \A u \in Active : ws[u].node \in 0 .. NNodes /\ (pc[u] \in {"chunk", "for"} => ~Over(u))
  BY Rounds DEF GraphPlaces
<1>5. CASE pc[0] = "chunk"
  <2>1. ws[0].node \in Nodes /\ Round(0) = 2 * ws[0].node
    BY <1>0, <1>5, Rounds
  <2>2. \A u \in Active : pc[u] = "chunk" /\ Ahead(u) = 2 * ws[0].node + 1
    BY <1>0, <1>2, <1>4, <1>5 DEF Ahead
  <2>3. QED
    BY <2>1, <2>2
<1>6. CASE pc[0] = "for"
  <2>1. ws[0].node \in 1 .. NNodes - 1 /\ Round(0) = 2 * ws[0].node - 1
    BY <1>0, <1>6, Rounds
  <2>2. \A u \in Active : pc[u] = "for" /\ Ahead(u) = 2 * ws[0].node
    <3>1. Before(ws[0].node) = 2 * ws[0].node
      BY <2>1, Numbers DEF Before
    <3>2. \A u \in Active : pc[u] = "for" /\ ws[u].node = ws[0].node
      BY <1>0, <1>3, <1>6
    <3>3. QED
      BY <1>4, <3>1, <3>2 DEF Ahead
  <2>3. PICK k \in Nodes : ws[0].node = k + 1
    <3>1. ws[0].node - 1 \in Nodes /\ ws[0].node = (ws[0].node - 1) + 1
      BY <2>1, Numbers DEF Nodes
    <3>2. QED
      BY <3>1
  <2>4. Round(0) = 2 * k + 1 /\ k + 1 < NNodes /\ 2 * ws[0].node = 2 * k + 2
    BY <2>1, <2>3, Numbers DEF Nodes
  <2>5. QED
    BY <2>2, <2>4
<1>7. CASE pc[0] = "end"
  <2>1. \A u \in Active : pc[u] = "end"
    BY <1>0, <1>2, <1>3, <1>7, Rounds
  <2>2. \A u \in Active : Ahead(u) = Last
    BY <2>1, Rounds DEF Ahead
  <2>3. Round(0) = Before(ws[0].node)
    BY <1>0, <1>7, Rounds
  <2>4. QED
    BY <2>1, <2>2, <2>3
<1>8. QED
  BY <1>0, <1>5, <1>6, <1>7, Rounds

\* All are let go at once.
LEMMA AllGo ==
    ASSUME PoolInv, kind # "none", BarrierOnly,
           \A u \in Active : Held(u) /\ ~Held(u)'
    PROVE  Coordinated'
<1> DEFINE n == n_threads_cur
<1>1. Active' = Active /\ 0 \in Active /\ n \in Nat /\ n >= 1 /\ n <= NMax /\ Active = 0 .. n - 1
  BY BarrierShape, Team DEF PoolInv, Active
<1>2. UNCHANGED <<n_threads_cur, tp, pc, ws, done>>
  BY DEF BarrierOnly
<1>0. Graph' = Graph
  BY <1>2 DEF Graph
<1>3. \A u \in Active : (Over(u)' <=> Over(u)) /\ Round(u)' = Ahead(u)
  BY <1>0, <1>2 DEF Over, Round, Ahead
<1>4. Coordinated
  BY DEF PoolInv
<1>5. AbortSeen' /\ HeldNow'
  BY <1>0, <1>1, <1>2, <1>3, <1>4 DEF AbortSeen, HeldNow, Coordinated
<1>6. \A u \in Active : \A c : Holds(u, c)' <=> Holds(u, c)
  BY <1>2 DEF Holds
<1>7. \A k \in Nodes : k \in Nat /\ k < NNodes /\ 2 * k < Last /\ 2 * k + 1 < Last /\ 2 * k + 2 < Last
  BY Numbers DEF Nodes, Last
<1>8. \A c \in 0 .. ChunksFor(n) - 1 : c \in Nat
  BY <1>1, ChunkCells
<1>9. ASSUME \A k \in Nodes, c \in 0 .. ChunksFor(n) - 1 : Computed(k, c)' <=> Computed(k, c)
      PROVE  ChunksDone'
  BY <1>1, <1>2, <1>4, <1>9 DEF ChunksDone, Coordinated
<1>10. ASSUME \A k \in Nodes : Round(0)' # 2 * k + 1
       PROVE  ChunksHeld'
  BY <1>1, <1>10 DEF ChunksHeld
<1>11. ASSUME NEW k \in Nodes, Round(0) = 2 * k + 1, \A u \in Active : pc[u] \in {"for", "end"},
              NEW c \in 0 .. ChunksFor(n) - 1
       PROVE  (c < n \/ c < tp.chunk) /\ \A u \in Active : ~Holds(u, c)
  <2>1. c < n \/ c < tp.chunk
    BY <1>1, <1>4, <1>11 DEF Coordinated, ChunksHeld
  <2>2. QED
    BY <1>11, <2>1 DEF Holds
<1>12. ASSUME NEW k \in Nodes, Round(0) = 2 * k,
              \A u \in Active : pc[u] = "chunk" /\ Ahead(u) = 2 * k + 1
       PROVE  Coordinated'
  <2>1. SameRound' /\ Round(0)' = 2 * k + 1
    BY <1>1, <1>3, <1>12 DEF SameRound
  <2>2. tp.chunk = n /\ \A u \in Active : ws[u].chunk = u
    BY <1>1, <1>4, <1>12 DEF Coordinated, ChunksHeld
  <2>3. ChunksHeld'
    <3>1. \A u \in Active : u \in Nat /\ u < n
      BY <1>1
    <3>2. QED
      BY <1>1, <1>2, <1>6, <1>12, <2>2, <3>1 DEF ChunksHeld, Holds
  <2>4. ASSUME NEW j \in Nodes, NEW c \in 0 .. ChunksFor(n) - 1
        PROVE  Computed(j, c)' <=> Computed(j, c)
    <3>1. Computed(j, c) <=> j < k
      BY <1>7, <1>12 DEF Computed
    <3>2. CASE j = k
      <4>1. ASSUME c < n PROVE \E u \in Active : Holds(u, c)'
        <5>1. c \in Active /\ Holds(c, c)
          BY <1>1, <1>8, <1>12, <2>2, <4>1 DEF Holds
        <5>2. QED
          BY <1>6, <5>1
      <4>2. ~(Computed(j, c)')
        BY <1>1, <1>2, <1>7, <2>1, <2>2, <3>2, <4>1 DEF Computed
      <4>3. QED
        BY <1>7, <3>1, <3>2, <4>2
    <3>3. CASE j # k
      <4>1. Computed(j, c)' <=> 2 * k + 1 > 2 * j + 1
        BY <1>7, <2>1, <3>3 DEF Computed
      <4>2. QED
        BY <1>7, <3>1, <4>1
    <3>4. QED
      BY <3>2, <3>3
  <2>5. QED
    BY <1>5, <1>9, <2>1, <2>3, <2>4 DEF Coordinated
<1>13. ASSUME NEW k \in Nodes, Round(0) = 2 * k + 1, k + 1 < NNodes,
              \A u \in Active : pc[u] = "for" /\ Ahead(u) = 2 * k + 2
       PROVE  Coordinated'
  <2>1. SameRound' /\ Round(0)' = 2 * k + 2
    BY <1>1, <1>3, <1>13 DEF SameRound
  <2>2. ChunksHeld'
    BY <1>7, <1>10, <2>1
  <2>3. ASSUME NEW j \in Nodes, NEW c \in 0 .. ChunksFor(n) - 1
        PROVE  Computed(j, c)' <=> Computed(j, c)
    <3>1. Computed(j, c)' <=> 2 * k + 2 > 2 * j + 1
      BY <1>7, <2>1 DEF Computed
    <3>2. CASE j = k
      <4>1. Computed(j, c)
        BY <1>7, <1>11, <1>13, <3>2 DEF Computed
      <4>2. QED
        BY <1>7, <3>1, <3>2, <4>1
    <3>3. CASE j # k
      <4>1. Computed(j, c) <=> 2 * k + 1 > 2 * j + 1
        BY <1>7, <1>13, <3>3 DEF Computed
      <4>2. QED
        BY <1>7, <3>1, <3>3, <4>1
    <3>4. QED
      BY <3>2, <3>3
  <2>4. QED
    BY <1>5, <1>9, <2>1, <2>2, <2>3 DEF Coordinated
<1>14. ASSUME Round(0) = Before(ws[0].node), \A u \in Active : pc[u] = "end" /\ Ahead(u) = Last
       PROVE  Coordinated'
  <2>1. SameRound' /\ Round(0)' = Last
    BY <1>1, <1>3, <1>14 DEF SameRound
  <2>2. ChunksHeld'
    BY <1>7, <1>10, <2>1
  <2>3. ws[0].node \in 0 .. NNodes /\ ws[0].node \in Nat
    BY <1>1, Rounds
  <2>4. Before(ws[0].node) < Last
    BY <2>3, BeforeIs
  <2>5. ASSUME NEW j \in Nodes, NEW c \in 0 .. ChunksFor(n) - 1
        PROVE  Computed(j, c)' <=> Computed(j, c)
    <3>1. Computed(j, c)' <=> j < ws[0].node
      BY <1>2, <2>1 DEF Computed
    <3>2. Round(0) # Last
      BY <1>14, <2>3, <2>4, BeforeIs DEF Last
    <3>3. CASE ws[0].node < NNodes
      <4>1. Round(0) = 2 * ws[0].node
        BY <1>14, <2>3, <3>3, BeforeIs
      <4>2. Computed(j, c) <=> 2 * ws[0].node > 2 * j + 1
        BY <1>7, <2>3, <3>2, <4>1 DEF Computed
      <4>3. QED
        BY <1>7, <2>3, <3>1, <4>2
    <3>4. CASE ws[0].node = NNodes
      <4>1. Round(0) = 2 * NNodes - 1 /\ j < NNodes /\ NNodes \in Nat
        BY <1>7, <1>14, <2>3, <3>4, Numbers, BeforeIs
      <4>2. CASE Round(0) = 2 * j + 1
        BY <1>11, <1>14, <3>1, <3>2, <3>4, <4>1, <4>2 DEF Computed
      <4>3. CASE Round(0) # 2 * j + 1
        <5>1. Round(0) > 2 * j + 1
          <6>1. j \in Nat /\ j < NNodes /\ NNodes \in Nat
            BY <1>7, <4>1
          <6>2. 2 * NNodes - 1 # 2 * j + 1
            BY <4>1, <4>3
          <6>3. j # NNodes - 1
            BY <6>1, <6>2
          <6>4. j + 1 < NNodes
            BY <6>1, <6>3
          <6>5. QED
            BY <4>1, <6>1, <6>4
        <5>2. QED
          BY <3>1, <3>2, <3>4, <4>1, <4>3, <5>1 DEF Computed
      <4>4. QED
        BY <4>2, <4>3
    <3>5. QED
      BY <2>3, <3>3, <3>4, Numbers
  <2>6. QED
    BY <1>5, <1>9, <2>1, <2>2, <2>5 DEF Coordinated
<1>15. QED
  BY <1>12, <1>13, <1>14, SameBarrier

LEMMA BarrierKept ==
    ASSUME PoolInv, NEW t \in Threads, Barrier(t) PROVE Shape' /\ Coordinated' /\ IInv'
<1>1. BarrierStep(t) /\ UNCHANGED <<n_threads_cur, poolVars, tp, pc, ws, done>>
  BY DEF Barrier
<1>2. at[t] # "out" /\ t \in Active /\ IInv
  BY <1>1, Team DEF PoolInv, BarrierStep, CountThreads, LoadPassed, AddBarrier, ResetBarrier,
                    AddPassed, Exit, Go
<1>3. kind # "none"
  BY <1>2, WorkFacts
<1>4. \A u \in Threads \ {t} : at'[u] = at[u]
  BY <1>1 DEF BarrierStep, CountThreads, LoadPassed, AddBarrier, ResetBarrier, AddPassed, Exit,
              Go, PoolInv, IInv, BarrierTypeOK
<1>5. BarrierOnly /\ Shape' /\ Active' = Active
  BY <1>1, <1>2, <1>4, BarrierShape DEF BarrierOnly
<1>6. Active \subseteq Threads
  BY <1>2, Team
<1>7. ASSUME IInv', Leaving' = Leaving, t \notin Leaving, at'[t] # "out"
      PROVE  Coordinated'
  BY <1>2, <1>3, <1>4, <1>5, <1>6, <1>7, NobodyGoes DEF Held
<1>8. at \in [Threads -> Places]
  BY <1>2 DEF IInv, BarrierTypeOK
<1>9. CASE CountThreads(t)
  <2>1. at[t] = "count" /\ at'[t] = IF n_threads_cur = 1 THEN "out" ELSE "load"
    BY <1>8, <1>9 DEF CountThreads, Go
  <2>2. ~Exit(t)
    BY <2>1 DEF Exit, Go
  <2>3. IInv' /\ Leaving' = Leaving
    BY <1>1, <1>2, <1>9, <2>2, CalmStep DEF Calm
  <2>4. t \notin Leaving
    BY <2>1 DEF Leaving
  <2>5. CASE n_threads_cur = 1
    <3>1. Active = {t}
      BY <1>2, <2>5 DEF Active
    <3>2. \A u \in Active : Held(u) /\ ~Held(u)'
      BY <1>2, <2>1, <2>4, <2>5, <3>1 DEF Held
    <3>3. QED
      BY <1>3, <1>5, <2>3, <3>2, AllGo
  <2>6. CASE n_threads_cur # 1
    BY <1>5, <1>7, <2>1, <2>3, <2>4, <2>6
  <2>7. QED
    BY <2>5, <2>6
<1>10. CASE LoadPassed(t)
  <2>1. at[t] = "load" /\ at'[t] = "add"
    BY <1>8, <1>10 DEF LoadPassed, Go
  <2>2. ~Exit(t) /\ t \notin Leaving
    BY <2>1 DEF Exit, Go, Leaving
  <2>3. IInv' /\ Leaving' = Leaving
    BY <1>1, <1>2, <1>10, <2>2, CalmStep DEF Calm
  <2>4. QED
    BY <1>5, <1>7, <2>1, <2>2, <2>3
<1>11. CASE AddBarrier(t)
  <2>1. at'[t] \in {"reset", "wait"}
    BY <1>8, <1>11 DEF AddBarrier, Go
  <2>2. IInv' /\ Leaving' = Leaving /\ t \notin Leaving
    BY <1>1, <1>2, <1>11, AddStep
  <2>3. QED
    BY <1>5, <1>7, <2>1, <2>2
<1>12. CASE ResetBarrier(t)
  <2>1. at[t] = "reset" /\ at'[t] = "pass"
    BY <1>8, <1>12 DEF ResetBarrier, Go
  <2>2. IInv' /\ Leaving' = Leaving /\ t \notin Leaving
    BY <1>1, <1>2, <1>12, <2>1, ResetStep DEF Leaving
  <2>3. QED
    BY <1>5, <1>7, <2>1, <2>2
<1>13. CASE AddPassed(t)
  <2>1. at[t] = "pass" /\ at'[t] = "out"
    BY <1>8, <1>13 DEF AddPassed, Go
  <2>2. /\ IInv' /\ t \notin Leaving /\ Inside = Active \ {t}
        /\ Leaving' = Active \ {t}
    BY <1>1, <1>2, <1>13, PassStep
  <2>3. \A u \in Active : Held(u) /\ ~Held(u)'
    BY <1>2, <2>1, <2>2 DEF Held, Inside, Leaving
  <2>4. QED
    BY <1>3, <1>5, <2>2, <2>3, AllGo
<1>14. CASE Exit(t)
  <2>1. at'[t] = "out"
    BY <1>8, <1>14 DEF Exit, Go
  <2>2. IInv' /\ t \in Leaving /\ Leaving' = Leaving \ {t}
    BY <1>1, <1>2, <1>14, CalmStep DEF Calm
  <2>3. \A u \in Active : Held(u)' <=> Held(u)
    BY <1>4, <1>6, <2>1, <2>2 DEF Held
  <2>4. QED
    BY <1>3, <1>5, <2>2, <2>3, NobodyGoes
<1>15. QED
  BY <1>1, <1>9, <1>10, <1>11, <1>12, <1>13, <1>14 DEF BarrierStep

LEMMA ComputeKept ==
    ASSUME PoolInv, NEW t \in Threads, Compute(t) PROVE PoolInv'
<1>1. pc[t] \in Working \/ at[t] # "out"
  BY DEF Compute, Start, For, Node, Chunk, Fetch, After, Barrier, Step, At, Working, BarrierStep,
         CountThreads, LoadPassed, AddBarrier, ResetBarrier, AddPassed, Exit, Go
<1>2. kind # "none" /\ t \in Active
  BY <1>1, WorkFacts
<1>3. Types'
  <2>1. pc[t] \in {"node", "chunk", "fetch", "after"} => ws[t].node \in Nodes
    BY <1>2, Rounds
  <2>2. QED
    BY <1>2, <2>1, ComputeTypes DEF PoolInv
<1>4. Shape' /\ Coordinated' /\ IInv'
  BY StartKept, ForKept, NodeKept, ChunkKept, FetchKept, AfterKept, BarrierKept DEF Compute
<1>5. QED
  BY <1>3, <1>4 DEF PoolInv

-----------------------------------------------------------------------------
(* The theorems, for pools whose graphs use all of their threads.          *)

LEMMA PoolInit == InitPool => PoolInv
<1> SUFFICES ASSUME InitPool PROVE PoolInv
  OBVIOUS
<1>1. IInv
  BY InitIInv DEF InitPool
<1>2. Types
  <2>1. NewPool \in Pool /\ NewWorker \in Worker
    BY Numbers DEF NewPool, Pool, NewWorker, Worker
  <2>2. pc \in [Threads -> PCs]
    BY DEF InitPool, PCs, Idle, MainPlaces
  <2>3. QED
    BY <2>1, <2>2, NoWorkTypes DEF InitPool, Types
<1>3. Shape
  <2>1. \A t \in Threads : at[t] = "out"
    BY DEF InitPool, Init
  <2>2. kind = "none" /\ pc[0] = "user" /\ \A t \in Workers : pc[t] = "exit"
    BY Numbers DEF InitPool, Workers
  <2>3. QED
    BY <2>1, <2>2 DEF Shape
<1>4. QED
  BY <1>1, <1>2, <1>3 DEF InitPool, PoolInv

LEMMA PoolStep == Steady /\ PoolInv /\ [NextPool]_vars => PoolInv'
<1> SUFFICES ASSUME Steady, PoolInv, [NextPool]_vars PROVE PoolInv'
  OBVIOUS
<1>1. CASE Main
  BY <1>1, MainKept
<1>2. CASE \E t \in Threads : Compute(t)
  BY <1>2, ComputeKept
<1>3. CASE \E t \in Workers : Wait(t) \/ Spurious(t) \/ BackToLoop(t)
  BY <1>3, WaitKept
<1>4. CASE UNCHANGED vars
  <2>1. UNCHANGED <<barrierVars, kind, tp, pc, ws, graphs, done>>
    BY <1>4 DEF vars, poolVars
  <2>2. UNCHANGED <<n_threads_cur, n_barrier, n_barrier_passed, at, n_threads, n_passed>>
    BY <2>1 DEF barrierVars, shared, local
  <2>3. IInv' /\ Types'
    BY <2>1, CalmBarrier DEF PoolInv, Types
  <2>4. BarrierOnly
    BY <1>4, <2>2 DEF BarrierOnly, vars
  <2>5. Shape' /\ Active' = Active
    BY <2>4, BarrierShape
  <2>6. \A u \in Active : Held(u)' <=> Held(u)
    BY <2>2, <2>5 DEF Held, Leaving
  <2>7. QED
    BY <2>1, <2>3, <2>4, <2>5, <2>6, NobodyGoes DEF PoolInv
<1>5. QED
  BY <1>1, <1>2, <1>3, <1>4 DEF NextPool

\* In pools of both kinds, as long as no graph is given fewer threads than its pool has,
\* the places, the barriers and the shared work of a graph's threads are always
\* coordinated as ggml_graph_compute_thread and ggml_barrier mean them to be.
THEOREM PoolCorrect == Steady => (SpecPool => []PoolInv)
<1> SUFFICES ASSUME Steady PROVE SpecPool => []PoolInv
  OBVIOUS
<1>1. PoolInv /\ [NextPool]_vars => PoolInv'
  BY PoolStep
<1>2. QED
  BY PoolInit, <1>1, PTL DEF SpecPool

\* While one thread is at a chunk of a node (ggml_compute_forward_mul_mat), no other
\* takes or computes chunks of another node.
THEOREM NodesApart == Steady => (SpecPool => []OneNodeAtATime)
<1>1. PoolInv => OneNodeAtATime
  <2> SUFFICES ASSUME PoolInv, NEW t \in Threads, NEW u \in Threads, At(t, "chunk"),
                      pc[u] \in {"chunk", "fetch"}
               PROVE  ws[t].node = ws[u].node
    BY DEF OneNodeAtATime
  <2>1. kind # "none" /\ t \in Active /\ u \in Active
    BY WorkFacts DEF At, Working
  <2>2. Round(t) = 2 * ws[t].node + 1
    BY <2>1, Rounds DEF At, Held
  <2>3. Round(u) = 2 * ws[u].node \/ Round(u) = 2 * ws[u].node + 1
    BY <2>1, Rounds
  <2>4. Round(t) = Round(u) /\ ws[t].node \in Nat /\ ws[u].node \in Nat
    BY <2>1, Rounds
  <2>5. QED
    BY <2>2, <2>3, <2>4
<1>2. QED
  BY PoolCorrect, <1>1, PTL

\* When ggml_graph_compute_thread is over on the main thread, every chunk of every
\* node has been computed once, or was not touched because of an abort before it.
THEOREM ChunksOnce == Steady => (SpecPool => []EachChunkOnce)
<1>1. PoolInv => EachChunkOnce
  <2> SUFFICES ASSUME PoolInv, At(0, "end"), NEW k \in Nodes,
                      NEW c \in 0 .. ChunksFor(ws[0].nth) - 1
               PROVE  done[k][c] = IF tp.ok \/ k < tp.abort THEN 1 ELSE 0
    BY DEF EachChunkOnce
  <2>1. kind # "none" /\ 0 \in Active /\ Coordinated
    BY Numbers, WorkFacts DEF At, Working
  <2>2. /\ Over(0) /\ ~Held(0) /\ Round(0) = Last /\ ws[0].nth = n_threads_cur
        /\ ws[0].node \in 0 .. NNodes /\ Graph > 0
    BY <2>1, Rounds DEF At, Held, PoolInv, Shape, Between
  <2>3. done[k][c] = IF k < ws[0].node THEN 1 ELSE 0
    BY <2>1, <2>2 DEF Coordinated, ChunksDone, Computed
  <2>4. CASE tp.ok
    <3>1. ws[0].node < NNodes => tp.abort = ws[0].node
      BY <2>1, <2>2 DEF Coordinated, AbortSeen
    <3>2. tp.abort = -1
      BY <2>1, <2>4 DEF Coordinated, AbortSeen
    <3>3. ws[0].node = NNodes
      BY <2>2, <3>1, <3>2, Numbers
    <3>4. done[k][c] = 1
      BY <2>3, <3>3, Numbers DEF Nodes
    <3>5. QED
      BY <2>4, <3>4
  <2>5. CASE ~tp.ok
    <3>1. tp.abort = ws[0].node
      BY <2>1, <2>5 DEF Coordinated, AbortSeen
    <3>2. QED
      BY <2>3, <2>5, <3>1
  <2>6. QED
    BY <2>4, <2>5
<1>2. QED
  BY PoolCorrect, <1>1, PTL

\* When ggml_graph_compute or ggml_threadpool_free goes on to the pool itself, no
\* worker is in ggml_graph_compute_thread any more: a worker that is slow to leave one
\* graph cannot be caught by the next one's parameters.
THEOREM NobodyLate == Steady => (SpecPool => []NoLateWorker)
<1>1. PoolInv => NoLateWorker
  <2> SUFFICES ASSUME PoolInv, pc[0] \in {"user", "kick", "free", "join"}, NEW t \in Workers
               PROVE  ~InGraph(t)
    BY DEF NoLateWorker
  <2>1. t \in Threads /\ 0 \in Threads
    BY Numbers
  <2>2. SUFFICES ASSUME InGraph(t) PROVE FALSE
    OBVIOUS
  <2>3. pc[t] \in {"start"} \union GraphPlaces
    BY <2>2 DEF InGraph, GraphPlaces
  <2>4. kind # "none" /\ t \in Active
    BY <2>1, <2>3, WorkFacts DEF Working, GraphPlaces
  <2>5. ws[t].last_graph = Graph /\ ws[t].last_graph <= tp.n_graph /\ tp.n_graph \in Nat
    BY <2>3, <2>4 DEF PoolInv, Types, Pool, Shape, Idle, GraphPlaces
  <2>6. pc[0] # "kick"
    BY <2>5 DEF Graph
  <2>7. Over(0) /\ 0 \in Active /\ at[0] = "out"
    BY <2>1, <2>6, Team DEF Over, Between, PoolInv, Shape
  <2>8. Round(t) = Last
    BY <2>4, <2>7, Rounds DEF Round, Held, Ahead
  <2>9. Over(t)
    BY <2>4, <2>8, RoundLast DEF PoolInv
  <2>10. QED
    BY <2>1, <2>3, <2>9 DEF Over, Idle, GraphPlaces, Workers
<1>2. QED
  BY PoolCorrect, <1>1, PTL

\* Seen from the barrier a pool is made, with its threads, or a thread is in the barrier.
LEMMA PoolMeets ==
    ASSUME Steady, PoolInv, [NextPool]_vars
    PROVE  [R!Next]_<<Active, Inside, Leaving>>
<1>1. IInv /\ Types /\ Shape
  BY DEF PoolInv
<1>2. ASSUME [Next]_barrierVars PROVE [R!Next]_<<Active, Inside, Leaving>>
  BY <1>1, <1>2, StepRendezvous
<1>3. CASE NewDisposable \/ NewPersistent
  <2>1. PICK k \in Kinds, n \in 1 .. NMax, p \in BOOLEAN : Create(k, n, p)
    BY <1>3, Creations
  <2>2. at' = at /\ n_threads_cur' = n
    BY <2>1 DEF Create, local
  <2>3. \A t \in Threads : at[t] = "out"
    BY <1>1, <2>1, NobodyInBarrier DEF Create
  <2>4. Active \subseteq Threads /\ Active' \subseteq Threads /\ Active' = 0 .. n - 1
    BY <1>1, <2>2, Team, Numbers DEF Active, Threads
  <2>5. Inside = {} /\ Leaving = {}
    BY <2>3, <2>4 DEF Inside, Leaving
  <2>6. Inside' = {} /\ Leaving' = {}
    BY <2>2, <2>3, <2>4 DEF Inside, Leaving
  <2>7. Active' \in {0 .. m - 1 : m \in 1 .. NMax}
    BY <2>2, <2>4
  <2>8. QED
    BY <2>5, <2>6, <2>7 DEF R!Next, R!NewTeam
<1>4. ASSUME NEW n, Kick(n) PROVE UNCHANGED barrierVars
  <2>1. n_threads_cur' = n_threads_cur
    BY <1>4, KickSteady
  <2>2. QED
    BY <1>4, <2>1 DEF Kick, barrierVars
<1>5. CASE \/ Submit \/ Publish \/ Wake \/ Return \/ (\E p \in BOOLEAN : SetPause(p))
           \/ FreePersistent \/ SetStop \/ ClearPause \/ Join
  <2>1. UNCHANGED barrierVars
    BY <1>5 DEF Submit, Publish, Wake, Return, SetPause, FreePersistent, SetStop, ClearPause,
                Join, Outside
  <2>2. QED
    BY <1>2, <2>1
<1>6. ASSUME NEW t \in Workers, Wait(t) \/ Spurious(t) \/ BackToLoop(t)
      PROVE  UNCHANGED barrierVars
  BY <1>6, WaitCases DEF Private, Outside
<1>7. ASSUME NEW t \in Threads, Compute(t) PROVE [Next]_barrierVars
  <2>1. t \in Active
    BY <1>7, WorkFacts DEF Compute, Start, For, Node, Chunk, Fetch, After, Barrier, Step, At,
       Working, BarrierStep, CountThreads, LoadPassed, AddBarrier, ResetBarrier, AddPassed, Exit, Go
  <2>2. Outside \/ Call(t) \/ Barrier(t)
    BY <1>7 DEF Compute, Start, For, Node, Chunk, Fetch, After, Private
  <2>3. CASE Outside
    BY <2>3 DEF Outside
  <2>4. CASE Call(t) \/ Barrier(t)
    BY <2>1, <2>4 DEF Next, Call, Barrier
  <2>5. QED
    BY <2>2, <2>3, <2>4
<1>8. CASE UNCHANGED vars
  BY <1>2, <1>8 DEF vars
<1>9. QED
  BY <1>2, <1>3, <1>4, <1>5, <1>6, <1>7, <1>8 DEF NextPool, Main

\* The threads of every graph meet at its barriers as ggml_barrier promises: one graph
\* after another on the same counters, and again when a new pool starts the counters anew
\* and brings its own number of threads.
THEOREM PoolImplementsRendezvous == Steady => (SpecPool => IsRendezvous)
<1> SUFFICES ASSUME Steady PROVE SpecPool => IsRendezvous
  OBVIOUS
<1>1. SpecPool => []PoolInv
  BY PoolCorrect
<1>2. InitPool => R!Init
  BY InitRendezvous DEF InitPool
<1>3. PoolInv /\ [NextPool]_vars => [R!Next]_<<Active, Inside, Leaving>>
  BY PoolMeets
<1>4. QED
  BY <1>1, <1>2, <1>3, PTL DEF SpecPool, IsRendezvous, R!Spec, R!vars

-----------------------------------------------------------------------------
(* The ranges of the counters, for the pools of all kinds.                 *)
InNode == {"node", "chunk", "fetch", "after"}

\* A graph is counted before it is published, and published before a worker sees
\* it; a thread looks for an abort and for the end before it begins a node.
Bounded ==
    /\ kind \in Kinds \union {"none"} /\ mutex \in BOOLEAN
    /\ graphs <= MaxGraphs /\ tp.cgraph <= graphs
    /\ tp.n_graph <= graphs /\ (pc[0] \in {"kick", "publish"} => tp.n_graph < graphs)
    /\ -1 <= tp.abort /\ tp.abort <= NNodes
    /\ \A t \in Threads :
         /\ ws[t].last_graph <= tp.n_graph /\ ws[t].node <= NNodes /\ ws[t].nth <= NMax
         /\ pc[t] \in InNode => ws[t].node < NNodes

LEMMA MainBounded == ASSUME Types, Bounded, Main PROVE Bounded'
<1> USE Numbers DEF Types
<1>1. tp \in Pool /\ graphs \in Nat /\ MaxGraphs \in Nat /\ \A t \in Threads : ws[t] \in Worker
  BY PoolAssumption
<1>2. ASSUME NEW k \in Kinds, NEW n, NEW p, Create(k, n, p) PROVE Bounded'
  <2>1. /\ tp'.n_graph = 0 /\ tp'.abort = -1 /\ tp'.cgraph = IF k = "disposable" THEN graphs + 1 ELSE 0
    BY <1>2 DEF Create, NewPool
  <2>2. /\ kind' = k /\ mutex' = mutex /\ graphs < MaxGraphs
        /\ graphs' = IF k = "disposable" THEN graphs + 1 ELSE graphs
        /\ pc'[0] = IF k = "disposable" THEN "kick" ELSE "user"
    BY <1>2 DEF Create
  <2>3. \A t \in Threads : /\ ws'[t].last_graph = 0 /\ ws'[t].node = 0 /\ ws'[t].nth = 0
                           /\ pc'[t] \notin InNode
    BY <1>2 DEF Create, NewWorker, InNode
  <2>4. -1 <= -1 /\ -1 <= NNodes
    OBVIOUS
  <2>5. QED
    BY <1>1, <2>1, <2>2, <2>3, <2>4 DEF Bounded
<1>3. ASSUME UNCHANGED <<kind, ws>>, mutex' \in BOOLEAN, graphs' = graphs, tp'.cgraph = tp.cgraph,
             tp'.n_graph = tp.n_graph, tp'.abort = tp.abort,
             pc'[0] \in {"kick", "publish"} => pc[0] \in {"kick", "publish"},
             \A t \in Threads : pc'[t] \in InNode => pc[t] \in InNode
      PROVE  Bounded'
  BY <1>3 DEF Bounded
<1>4. CASE Submit
  <2>1. /\ tp'.cgraph = graphs + 1 /\ tp'.n_graph = tp.n_graph /\ tp'.abort = -1
        /\ graphs' = graphs + 1 /\ graphs < MaxGraphs /\ UNCHANGED <<kind, mutex, ws>>
    BY <1>1, <1>4 DEF Submit, Pool
  <2>2. \A t \in Threads : pc'[t] \in InNode => pc[t] \in InNode
    BY <1>4 DEF Submit, Step, To, InNode
  <2>3. -1 <= -1 /\ -1 <= NNodes
    OBVIOUS
  <2>4. tp.n_graph <= graphs /\ tp.n_graph \in Nat /\ tp.cgraph \in Nat
    BY <1>1 DEF Bounded, Pool
  <2>5. QED
    BY <1>1, <2>1, <2>2, <2>3, <2>4 DEF Bounded
<1>5. CASE \E n \in Sizes \union Requests : Kick(n)
  BY <1>5, <1>3 DEF Kick, Step, At, To, InNode
<1>6. CASE Publish
  <2>1. /\ tp'.n_graph = tp.n_graph + 1 /\ tp'.cgraph = tp.cgraph /\ tp'.abort = tp.abort
        /\ UNCHANGED <<kind, mutex, graphs, ws>> /\ pc[0] = "publish" /\ pc'[0] = "wake"
    BY <1>1, <1>6 DEF Publish, Step, At, To, Pool, poolVars
  <2>2. \A t \in Threads : pc'[t] \in InNode => pc[t] \in InNode
    BY <1>6 DEF Publish, Step, To, InNode
  <2>3. tp.n_graph < graphs /\ tp.n_graph \in Nat /\ \A t \in Threads : ws[t].last_graph \in Nat
    BY <1>1, <2>1 DEF Bounded, Pool, Worker
  <2>4. QED
    BY <1>1, <2>1, <2>2, <2>3 DEF Bounded
<1>7. ASSUME NEW l \in {"start", "user", "join"}, Broadcast(0, l)
      PROVE  /\ pc'[0] \notin {"kick", "publish"}
             /\ \A t \in Threads : pc'[t] \in InNode => pc[t] \in InNode
  BY <1>7 DEF Broadcast, Signalled, InNode
<1>8. ASSUME NEW b \in BOOLEAN, tp' = [tp EXCEPT !.pause = b]
      PROVE  tp'.cgraph = tp.cgraph /\ tp'.n_graph = tp.n_graph /\ tp'.abort = tp.abort
  BY <1>1, <1>8 DEF Pool
<1>9. CASE Wake \/ ClearPause
  <2>1. UNCHANGED <<kind, ws, graphs>> /\ mutex' = FALSE
    BY <1>9 DEF Wake, ClearPause
  <2>2. Broadcast(0, "start") \/ Broadcast(0, "join")
    BY <1>9 DEF Wake, ClearPause
  <2>3. tp' = [tp EXCEPT !.pause = FALSE]
    BY <1>9 DEF Wake, ClearPause
  <2>4. QED
    BY <1>3, <1>7, <1>8, <2>1, <2>2, <2>3
<1>10. ASSUME NEW p \in BOOLEAN, SetPause(p) PROVE Bounded'
  <2>1. UNCHANGED <<kind, ws, graphs, mutex>> /\ mutex \in BOOLEAN
    BY <1>10 DEF SetPause, poolVars, Bounded
  <2>2. Broadcast(0, "user") /\ tp' = [tp EXCEPT !.pause = p]
    BY <1>10 DEF SetPause
  <2>3. QED
    BY <1>3, <1>7, <1>8, <2>1, <2>2
<1>11. CASE SetStop
  <2>1. tp'.cgraph = tp.cgraph /\ tp'.n_graph = tp.n_graph /\ tp'.abort = tp.abort
    BY <1>1, <1>11 DEF SetStop, Pool
  <2>2. QED
    BY <1>3, <1>11, <2>1 DEF SetStop, Step, At, To, InNode
<1>12. CASE Return \/ FreePersistent
  BY <1>3, <1>12 DEF Return, FreePersistent, Step, To, InNode, poolVars, Bounded
<1>13. CASE Join
  BY <1>13 DEF Join, Step, To, InNode, Bounded
<1>14. QED
  BY <1>2, <1>4, <1>5, <1>6, <1>9, <1>10, <1>11, <1>12, <1>13 DEF Main, NewDisposable, NewPersistent

LEMMA WaitBounded ==
    ASSUME Types, Bounded, NEW t \in Workers, Wait(t) \/ Spurious(t) \/ BackToLoop(t)
    PROVE  Bounded'
<1> USE Numbers DEF Types
<1>1. tp \in Pool /\ \A u \in Threads : ws[u] \in Worker
  OBVIOUS
<1>2. UNCHANGED <<kind, mutex, graphs, tp>>
  BY DEF Wait, LookAtPause, PauseUnderLock, Unpaused, LookAtStop, PollOrSleep, PollReady,
         PollActive, SleepReady, Spurious, BackToLoop, Quiet, Private, poolVars
<1>3. \E l \in PCs \ InNode : To(t, l)
  BY DEF Wait, LookAtPause, PauseUnderLock, Unpaused, LookAtStop, PollOrSleep, PollReady,
         PollActive, SleepReady, Spurious, BackToLoop, Step, PCs, Idle, Working, Signalled, InNode
<1>4. pc'[0] = pc[0] /\ \A u \in Threads : pc'[u] \in InNode => pc[u] \in InNode
  BY <1>3 DEF To
<1>5. ws' = ws \/ ws' = [ws EXCEPT ![t].last_graph = tp.n_graph]
  BY DEF Wait, LookAtPause, PauseUnderLock, Unpaused, LookAtStop, PollOrSleep, PollReady,
         PollActive, SleepReady, Spurious, BackToLoop, Quiet, Private
<1>6. \A u \in Threads : /\ ws'[u].node = ws[u].node /\ ws'[u].nth = ws[u].nth
                         /\ ws'[u].last_graph \in {ws[u].last_graph, tp.n_graph}
  BY <1>1, <1>5 DEF Worker
<1>7. tp.n_graph \in Nat
  BY <1>1 DEF Pool
<1>8. ASSUME NEW u \in Threads
      PROVE  /\ ws'[u].last_graph <= tp.n_graph /\ ws'[u].node <= NNodes /\ ws'[u].nth <= NMax
             /\ pc'[u] \in InNode => ws'[u].node < NNodes
  <2>1. /\ ws[u].last_graph <= tp.n_graph /\ ws[u].node <= NNodes /\ ws[u].nth <= NMax
        /\ pc[u] \in InNode => ws[u].node < NNodes
    BY DEF Bounded
  <2>2. ws'[u].last_graph <= tp.n_graph
    BY <2>1, <1>6, <1>7
  <2>3. QED
    BY <2>1, <2>2, <1>4, <1>6
<1>9. QED
  BY <1>2, <1>4, <1>8 DEF Bounded

LEMMA ComputeBounded ==
    ASSUME Types, Bounded, NEW t \in Threads, Compute(t), n_threads_cur \in 1 .. NMax
    PROVE  Bounded'
<1> USE Numbers DEF Types
<1>1. /\ tp \in Pool /\ \A u \in Threads : ws[u] \in Worker
      /\ UNCHANGED <<kind, mutex, graphs>>
  BY DEF Compute, Start, For, Node, Chunk, Fetch, After, Barrier, Private, poolVars
<1>2. ws[t].node \in Nat /\ ws[t].node <= NNodes /\ (pc[t] \in InNode => ws[t].node < NNodes)
  BY <1>1 DEF Worker, Bounded
<1>3. /\ tp'.cgraph = tp.cgraph /\ tp'.n_graph = tp.n_graph
      /\ -1 <= tp'.abort /\ tp'.abort <= NNodes
  <2>1. tp' \in {tp, [tp EXCEPT !.chunk = ws[t].nth], [tp EXCEPT !.chunk = @ + 1],
                 [tp EXCEPT !.abort = ws[t].node + 1, !.ok = FALSE]}
    BY DEF Compute, Start, For, Node, Chunk, Fetch, After, Barrier, Private
  <2>2. \/ tp'.cgraph = tp.cgraph /\ tp'.n_graph = tp.n_graph /\ tp'.abort = tp.abort
        \/ tp' = [tp EXCEPT !.abort = ws[t].node + 1, !.ok = FALSE]
    BY <1>1, <2>1 DEF Pool
  <2>3. CASE tp' = [tp EXCEPT !.abort = ws[t].node + 1, !.ok = FALSE] /\ tp' # tp /\ ~Node(t) /\ ~Fetch(t)
    <3>1. After(t)
      BY <2>3 DEF Compute, Start, For, Chunk, Barrier, Private
    <3>2. pc[t] = "after"
      BY <3>1 DEF After, Step, At
    <3>3. tp'.cgraph = tp.cgraph /\ tp'.n_graph = tp.n_graph /\ tp'.abort = ws[t].node + 1
      BY <1>1, <2>3 DEF Pool
    <3>4. ws[t].node + 1 <= NNodes /\ -1 <= ws[t].node + 1
      BY <1>2, <3>2 DEF InNode
    <3>5. QED
      BY <3>3, <3>4
  <2>4. CASE Node(t) \/ Fetch(t) \/ tp' = tp
    <3>1. tp'.cgraph = tp.cgraph /\ tp'.n_graph = tp.n_graph /\ tp'.abort = tp.abort
      BY <1>1, <2>4 DEF Node, Fetch, Pool
    <3>2. QED
      BY <3>1 DEF Bounded
  <2>5. QED
    BY <2>2, <2>3, <2>4 DEF Bounded
<1>4. pc'[0] \in {"kick", "publish"} => pc[0] \in {"kick", "publish"}
  BY DEF Compute, Start, For, Node, Chunk, Fetch, After, Barrier, Step, To
<1>5. \A u \in Threads \ {t} : ws'[u] = ws[u] /\ pc'[u] = pc[u]
  BY DEF Compute, Start, For, Node, Chunk, Fetch, After, Barrier, Step, To
<1>6. /\ ws'[t].last_graph = ws[t].last_graph /\ ws'[t].node <= NNodes /\ ws'[t].nth <= NMax
      /\ pc'[t] \in InNode => ws'[t].node < NNodes
  <2>1. ws[t] \in Worker /\ ws[t].nth <= NMax
    BY <1>1 DEF Bounded
  <2>2. CASE Start(t)
    BY <1>2, <2>1, <2>2 DEF Start, Step, At, To, InNode, Worker
  <2>3. CASE For(t)
    BY <1>2, <2>1, <2>3 DEF For, At, To, InNode
  <2>4. CASE Node(t)
    <3>1. ws'[t].last_graph = ws[t].last_graph /\ ws'[t].node = ws[t].node /\ ws'[t].nth = ws[t].nth
      BY <2>1, <2>4 DEF Node, Worker
    <3>2. pc[t] \in InNode
      BY <2>4 DEF Node, Step, At, InNode
    <3>3. QED
      BY <1>2, <2>1, <3>1, <3>2
  <2>5. CASE Chunk(t)
    <3>1. pc[t] \in InNode /\ ws'[t] = ws[t]
      BY <2>5 DEF Chunk, At, InNode
    <3>2. QED
      BY <1>2, <2>1, <3>1
  <2>6. CASE Fetch(t)
    <3>1. ws'[t].last_graph = ws[t].last_graph /\ ws'[t].node = ws[t].node /\ ws'[t].nth = ws[t].nth
      BY <2>1, <2>6 DEF Fetch, Worker
    <3>2. pc[t] \in InNode
      BY <2>6 DEF Fetch, Step, At, InNode
    <3>3. QED
      BY <1>2, <2>1, <3>1, <3>2
  <2>7. CASE After(t)
    <3>1. /\ ws'[t].last_graph = ws[t].last_graph /\ ws'[t].node = ws[t].node + 1
          /\ ws'[t].nth = ws[t].nth
      BY <2>1, <2>7 DEF After, Worker
    <3>2. pc[t] \in InNode /\ pc'[t] \notin InNode
      BY <2>7 DEF After, Step, At, To, InNode
    <3>3. QED
      BY <1>2, <2>1, <3>1, <3>2
  <2>8. CASE Barrier(t)
    BY <1>2, <2>1, <2>8 DEF Barrier
  <2>9. QED
    BY <2>2, <2>3, <2>4, <2>5, <2>6, <2>7, <2>8 DEF Compute
<1>7. QED
  BY <1>1, <1>3, <1>4, <1>5, <1>6 DEF Bounded

\* In pools whose graphs use all of their threads, the counters of the pool and of its
\* threads have their types: no graph is seen before it is submitted, no abort is noted beyond the
\* last node, and the barrier counts no more threads than the graph has.
THEOREM PoolTypeCorrect == Steady => (SpecPool => []PoolTypeOK)
<1> SUFFICES ASSUME Steady PROVE SpecPool => []PoolTypeOK
  OBVIOUS
<1>1. InitPool => Bounded
  <2> SUFFICES ASSUME InitPool PROVE Bounded
    OBVIOUS
  <2>1. /\ kind = "none" /\ mutex = FALSE /\ graphs = 0 /\ MaxGraphs \in Nat /\ NNodes \in Nat
        /\ tp.cgraph = 0 /\ tp.n_graph = 0 /\ tp.abort = -1
    BY PoolAssumption DEF InitPool, NewPool
  <2>2. pc[0] = "user" /\ \A t \in Threads : pc[t] \in {"user", "exit"}
    BY Numbers DEF InitPool
  <2>3. \A t \in Threads : ws[t].last_graph = 0 /\ ws[t].node = 0 /\ ws[t].nth = 0
    BY DEF InitPool, NewWorker
  <2>4. \A t \in Threads : pc[t] \notin InNode
    BY <2>2 DEF InNode
  <2>5. \A t \in Threads : /\ ws[t].last_graph <= tp.n_graph /\ ws[t].node <= NNodes
                           /\ ws[t].nth <= NMax /\ (pc[t] \in InNode => ws[t].node < NNodes)
    BY <2>1, <2>3, <2>4, Numbers
  <2>6. graphs <= MaxGraphs /\ tp.cgraph <= graphs /\ tp.n_graph <= graphs /\ tp.abort <= NNodes
        /\ -1 <= tp.abort
    BY <2>1
  <2>7. pc[0] \notin {"kick", "publish"}
    BY <2>2
  <2>8. kind \in Kinds \cup {"none"} /\ mutex \in BOOLEAN
    BY <2>1
  <2>9. QED
    BY <2>5, <2>6, <2>7, <2>8 DEF Bounded
<1>2. PoolInv /\ Bounded /\ [NextPool]_vars => Bounded'
  <2> SUFFICES ASSUME PoolInv, Bounded, [NextPool]_vars PROVE Bounded'
    OBVIOUS
  <2>1. Types /\ n_threads_cur \in 1 .. NMax
    BY DEF PoolInv, IInv, BarrierTypeOK
  <2>2. CASE UNCHANGED vars
    BY <2>2 DEF vars, poolVars, Bounded
  <2>3. CASE Main
    BY <2>1, <2>3, MainBounded
  <2>4. ASSUME NEW t \in Threads, Compute(t) PROVE Bounded'
    BY <2>1, <2>4, ComputeBounded
  <2>5. ASSUME NEW t \in Workers, Wait(t) \/ Spurious(t) \/ BackToLoop(t) PROVE Bounded'
    BY <2>1, <2>5, WaitBounded
  <2>6. QED
    BY <2>2, <2>3, <2>4, <2>5 DEF NextPool
<1>3. PoolInv /\ Bounded => PoolTypeOK
  <2> SUFFICES ASSUME PoolInv, Bounded PROVE PoolTypeOK
    OBVIOUS
  <2>1. BarrierTypeOK /\ tp \in Pool /\ graphs \in Nat /\ \A t \in Threads : ws[t] \in Worker
    BY DEF PoolInv, IInv, Types
  <2>2. tp.cgraph \in Nat /\ tp.n_graph \in Nat /\ tp.abort \in Int
    BY <2>1 DEF Pool
  <2>3. \A t \in Threads : ws[t].last_graph \in Nat /\ ws[t].node \in Nat /\ ws[t].nth \in Nat
    BY <2>1 DEF Worker
  <2>4. tp.abort \in -1 .. NNodes
    BY <2>2, Numbers DEF Bounded
  <2>5. QED
    BY <2>1, <2>2, <2>3, <2>4, Numbers, PoolAssumption DEF Bounded, PoolTypeOK
<1>4. QED
  BY <1>1, <1>2, <1>3, PoolCorrect, PTL DEF SpecPool
=============================================================================
