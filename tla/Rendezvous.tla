----------------------------- MODULE Rendezvous -----------------------------
(***************************************************************************)
(* What a barrier promises the threads of a graph, whatever it is built    *)
(* from: nobody goes on before everybody has come, the last to come does   *)
(* not wait, and a thread that went on may come again while others are     *)
(* still on their way out.  GgmlBarrier implements it.                     *)
(***************************************************************************)
CONSTANT Teams          \* the sets of threads that may have to meet

VARIABLES team,         \* the threads that meet now
          inside,       \* those that came and may not go on yet
          leaving       \* those that may go on and have not done so

vars == <<team, inside, leaving>>

Init == team \in Teams /\ inside = {} /\ leaving = {}

Away(t) == t \in team \ (inside \union leaving)

Arrive(t) ==
    /\ Away(t)
    /\ inside \union {t} # team
    /\ inside' = inside \union {t}
    /\ UNCHANGED <<team, leaving>>

\* The last one to come lets all the others go.
Release(t) ==
    /\ Away(t)
    /\ inside \union {t} = team
    /\ inside' = {}
    /\ leaving' = team \ {t}
    /\ UNCHANGED team

Leave(t) ==
    /\ t \in leaving
    /\ leaving' = leaving \ {t}
    /\ UNCHANGED <<team, inside>>

\* Another graph, with other threads: only while nobody is at the barrier.
NewTeam ==
    /\ inside = {} /\ leaving = {}
    /\ team' \in Teams
    /\ UNCHANGED <<inside, leaving>>

Next == (\E t \in team : Arrive(t) \/ Release(t) \/ Leave(t)) \/ NewTeam

Spec == Init /\ [][Next]_vars
=============================================================================
