---------------------------- MODULE GgmlBarrier -----------------------------
(***************************************************************************)
(* ggml_barrier (ggml/src/ggml-cpu/ggml-cpu.c) in the build without        *)
(* OpenMP, which is the application's (-DGGML_OPENMP=OFF).  Every atomic   *)
(* operation is a step; the counter n_barrier_passed is an atomic_int that *)
(* wraps around, so it is kept modulo Wrap (2^32 in the code).             *)
(***************************************************************************)
EXTENDS Integers, FiniteSets

CONSTANTS NMax,         \* threads of the pool
          Wrap          \* number of values of n_barrier_passed

ASSUME NMaxAssumption == NMax \in Nat \ {0}
ASSUME WrapAssumption == Wrap \in Nat /\ Wrap > 1

VARIABLES n_threads_cur,    \* threads of the current graph
          n_barrier, n_barrier_passed,
          at,               \* where each thread is in ggml_barrier
          n_threads, n_passed   \* its local variables

shared == <<n_barrier, n_barrier_passed>>
local == <<at, n_threads, n_passed>>
barrierVars == <<n_threads_cur, shared, local>>

Threads == 0 .. NMax - 1
Active == 0 .. n_threads_cur - 1
Places == {"out", "count", "load", "add", "reset", "pass", "wait"}

Init ==
    /\ n_threads_cur \in 1 .. NMax
    /\ n_barrier = 0 /\ n_barrier_passed = 0
    /\ at = [t \in Threads |-> "out"]
    /\ n_threads = [t \in Threads |-> 0]
    /\ n_passed = [t \in Threads |-> 0]

-----------------------------------------------------------------------------
Go(t, from, to) == at[t] = from /\ at' = [at EXCEPT ![t] = to]

Enter(t) ==
    /\ Go(t, "out", "count")
    /\ UNCHANGED <<shared, n_threads, n_passed>>

CountThreads(t) ==
    /\ Go(t, "count", IF n_threads_cur = 1 THEN "out" ELSE "load")
    /\ n_threads' = [n_threads EXCEPT ![t] = n_threads_cur]
    /\ UNCHANGED <<shared, n_passed>>

\* mutant: n_barrier_passed is not read again for this barrier.
LoadPassedOnce(t) ==
    /\ Go(t, "load", "add")
    /\ UNCHANGED <<shared, n_threads, n_passed>>

LoadPassed(t) ==
    /\ Go(t, "load", "add")
    /\ n_passed' = [n_passed EXCEPT ![t] = n_barrier_passed]
    /\ UNCHANGED <<shared, n_threads>>

\* mutant: atomic_fetch_add taken for one that returns the new value.
AddBarrierNew(t) ==
    /\ Go(t, "add", IF n_barrier + 1 = n_threads[t] - 1 THEN "reset" ELSE "wait")
    /\ n_barrier' = n_barrier + 1
    /\ UNCHANGED <<n_barrier_passed, n_threads, n_passed>>

\* mutant: the last one waits for a count of n_threads, which nobody sees.
AddBarrierFull(t) ==
    /\ Go(t, "add", IF n_barrier = n_threads[t] THEN "reset" ELSE "wait")
    /\ n_barrier' = n_barrier + 1
    /\ UNCHANGED <<n_barrier_passed, n_threads, n_passed>>

AddBarrier(t) ==
    /\ Go(t, "add", IF n_barrier = n_threads[t] - 1 THEN "reset" ELSE "wait")
    /\ n_barrier' = n_barrier + 1
    /\ UNCHANGED <<n_barrier_passed, n_threads, n_passed>>

\* mutant: the counter is not reset.
KeepBarrier(t) ==
    /\ Go(t, "reset", "pass")
    /\ UNCHANGED <<shared, n_threads, n_passed>>

ResetBarrier(t) ==
    /\ Go(t, "reset", "pass")
    /\ n_barrier' = 0
    /\ UNCHANGED <<n_barrier_passed, n_threads, n_passed>>

AddPassed(t) ==
    /\ Go(t, "pass", "out")
    /\ n_barrier_passed' = (n_barrier_passed + 1) % Wrap
    /\ UNCHANGED <<n_barrier, n_threads, n_passed>>

Exit(t) ==
    /\ n_barrier_passed # n_passed[t]
    /\ Go(t, "wait", "out")
    /\ UNCHANGED <<shared, n_threads, n_passed>>

BarrierStep(t) ==
    \/ CountThreads(t) \/ LoadPassed(t) \/ AddBarrier(t)
    \/ ResetBarrier(t) \/ AddPassed(t) \/ Exit(t)

\* The barrier on its own: any active thread may call it, again and again.
Next == 
    /\ \E t \in Active : Enter(t) \/ BarrierStep(t)
    /\ UNCHANGED n_threads_cur

Spec == Init /\ [][Next]_barrierVars

-----------------------------------------------------------------------------
Inside == {t \in Active : at[t] = "wait" /\ n_passed[t] = n_barrier_passed}
Leaving == {t \in Active : at[t] = "wait" /\ n_passed[t] # n_barrier_passed}

R == INSTANCE Rendezvous WITH
    Teams <- {0 .. n - 1 : n \in 1 .. NMax},
    team <- Active, inside <- Inside, leaving <- Leaving

\* The inductive invariant.  Counted are the threads n_barrier stands for; the
\* thread that completes the count is alone past it until the others may go.
Counted == {t \in Active : at[t] = "reset"} \union Inside

BarrierInv ==
    /\ \A t \in Threads \ Active : at[t] = "out"
    /\ \A t \in Active :
         /\ n_threads_cur = 1 => at[t] \in {"out", "count"}
         /\ at[t] \notin {"out", "count"} => n_threads[t] = n_threads_cur
         /\ at[t] \in {"add", "reset", "pass"} => n_passed[t] = n_barrier_passed
         /\ at[t] \in {"reset", "pass"} => Active \ {t} \subseteq Inside
    /\ n_barrier = IF \E t \in Active : at[t] = "pass" THEN 0 ELSE Cardinality(Counted)

\* Types of the barrier's variables; n_barrier never exceeds the threads that
\* take part (ggml_barrier compares it with n_threads - 1 only once).
BarrierTypeOK ==
    /\ n_threads_cur \in 1 .. NMax
    /\ n_barrier \in 0 .. n_threads_cur
    /\ n_barrier_passed \in 0 .. Wrap - 1
    /\ at \in [Threads -> Places]
    /\ n_threads \in [Threads -> 0 .. NMax]
    /\ n_passed \in [Threads -> 0 .. Wrap - 1]

\* ggml_barrier is a rendezvous: no thread gets past it before all of them
\* have come, although the counter is reset while threads still spin on
\* n_barrier_passed and fast ones may be in the next barrier already.
IsRendezvous == R!Spec

\* When every thread of the graph is in the same barrier, every one of them
\* gets out: no thread spins forever on an n_barrier_passed that moved on.
AllTogether == \A u \in Active : at[u] # "out" /\ u \notin Leaving

AllComeAllGo == \A t \in Threads : (t \in Active /\ AllTogether) ~> at[t] = "out"
=============================================================================
