----------------------------- MODULE ThreadPool -----------------------------
(***************************************************************************)
(* The CPU backend's thread pool (ggml/src/ggml-cpu/ggml-cpu.c, built      *)
(* without OpenMP): ggml_graph_compute called by the main thread 0, the    *)
(* workers that poll and sleep for graphs, and the work they share inside  *)
(* a graph.  Every node is a matrix multiplication (the operation that     *)
(* shares chunks).  Steps are single reads and writes of shared variables; *)
(* a critical section that only reads what the mutex protects is one step. *)
(*                                                                         *)
(* llama_context attaches no pool in this application, so every graph runs *)
(* on a "disposable" pool of its own; a "persistent" one, which the        *)
(* library also offers, serves many graphs and can be paused.              *)
(***************************************************************************)
EXTENDS GgmlBarrier

CONSTANTS Kinds,            \* subset of {"disposable", "persistent"}
          Sizes,            \* n_threads of a graph on a disposable pool
          Requests,         \* n_threads of a graph on the persistent one
          NNodes,           \* nodes of a graph
          NChunks,          \* nchunk0 * nchunk1 before the re-chunking
          CanAbort,         \* is there an abort_callback?
          MaxGraphs         \* bound: graphs submitted

ASSUME PoolAssumption ==
    /\ Kinds \subseteq {"disposable", "persistent"}
    /\ Sizes \subseteq 1 .. NMax /\ Requests \subseteq Nat \ {0}
    /\ NNodes \in Nat /\ NChunks \in Nat /\ MaxGraphs \in Nat
    /\ CanAbort \in BOOLEAN

VARIABLES kind,     \* of the pool that exists, "none" if there is none
          tp,       \* struct ggml_threadpool, less the barrier's counters
          mutex,    \* is threadpool->mutex held across steps (by thread 0)?
          pc, ws,   \* per thread: where it is, and its local state
          graphs,   \* graphs submitted so far
          done      \* how often each chunk of the current graph was computed

poolVars == <<kind, mutex, graphs>>
vars == <<barrierVars, tp, pc, ws, done, poolVars>>

Workers == Threads \ {0}
Nodes == 0 .. NNodes - 1
NoWork == [k \in Nodes |-> [c \in 0 .. NChunks + 4 * NMax |-> 0]]

\* mul_mat re-chunks by thread when there are fewer than 4 chunks per thread.
ChunksFor(n) == IF NChunks < n * 4 THEN n ELSE NChunks

NewPool == [n_graph |-> 0, chunk |-> 0, stop |-> FALSE, pause |-> FALSE,
            abort |-> -1, ok |-> TRUE, n_threads_max |-> NMax, cgraph |-> 0]
NewWorker == [last_graph |-> 0, node |-> 0, nth |-> 0, chunk |-> 0, cgraph |-> 0]

InitPool ==
    /\ Init
    /\ kind = "none" /\ tp = NewPool /\ mutex = FALSE
    /\ pc = [t \in Threads |-> IF t = 0 THEN "user" ELSE "exit"]
    /\ ws = [t \in Threads |-> NewWorker]
    /\ graphs = 0 /\ done = NoWork

At(t, l) == pc[t] = l /\ at[t] = "out"
To(t, l) == pc' = [pc EXCEPT ![t] = l]
Step(t, from, to) == At(t, from) /\ To(t, to)
Outside == UNCHANGED barrierVars
Free == mutex = FALSE

\* ggml_cond_broadcast: sleepers go for the mutex again.
Signalled(l) == CASE l = "asleep" -> "lock" [] l = "paused" -> "unpause" [] OTHER -> l
Broadcast(t, l) == pc' = [u \in Threads |-> IF u = t THEN l ELSE Signalled(pc[u])]

-----------------------------------------------------------------------------
(* The main thread between graphs.                                         *)

\* ggml_threadpool_new_impl; the workers start in their loop.
Create(k, n, paused) ==
    /\ At(0, "user") /\ kind = "none" /\ graphs < MaxGraphs
    /\ kind' = k
    /\ n_threads_cur' = n
    /\ n_barrier' = 0 /\ n_barrier_passed' = 0
    /\ tp' = [NewPool EXCEPT !.n_threads_max = n, !.pause = paused,
                             !.cgraph = IF k = "disposable" THEN graphs + 1 ELSE 0]
    /\ ws' = [t \in Threads |-> NewWorker]
    /\ pc' = [t \in Threads |->
                IF t = 0 THEN IF k = "disposable" THEN "kick" ELSE "user"
                ELSE IF t < n THEN "loop" ELSE "exit"]
    /\ graphs' = IF k = "disposable" THEN graphs + 1 ELSE graphs
    /\ done' = NoWork
    /\ UNCHANGED <<mutex, local>>

NewDisposable == "disposable" \in Kinds /\ \E n \in Sizes : Create("disposable", n, FALSE)
NewPersistent == "persistent" \in Kinds /\ \E paused \in BOOLEAN : Create("persistent", NMax, paused)

\* ggml_graph_compute with a pool: reset its parameters ...
Submit ==
    /\ Step(0, "user", "kick") /\ kind = "persistent" /\ graphs < MaxGraphs
    /\ graphs' = graphs + 1
    /\ tp' = [tp EXCEPT !.cgraph = graphs', !.chunk = 0, !.abort = -1, !.ok = TRUE]
    /\ done' = NoWork
    /\ Outside /\ UNCHANGED <<kind, mutex, ws>>

\* ... and ggml_graph_compute_kickoff, in three steps under the mutex.
Kick(n) ==
    /\ Step(0, "kick", "publish") /\ Free
    /\ n \in IF kind = "disposable" THEN {tp.n_threads_max} ELSE Requests
    /\ mutex' = TRUE
    /\ n_threads_cur' = IF n > tp.n_threads_max THEN tp.n_threads_max ELSE n
    /\ UNCHANGED <<kind, graphs, tp, ws, done, shared, local>>

Publish ==
    /\ Step(0, "publish", "wake")
    /\ tp' = [tp EXCEPT !.n_graph = @ + 1]
    /\ Outside /\ UNCHANGED <<poolVars, ws, done>>

\* mutant: nobody wakes the sleepers.
WakeNobody ==
    /\ Step(0, "wake", "start")
    /\ tp' = [tp EXCEPT !.pause = FALSE]
    /\ mutex' = FALSE
    /\ Outside /\ UNCHANGED <<kind, graphs, ws, done>>

Wake ==
    /\ At(0, "wake") /\ Broadcast(0, "start")
    /\ tp' = [tp EXCEPT !.pause = FALSE]
    /\ mutex' = FALSE
    /\ Outside /\ UNCHANGED <<kind, graphs, ws, done>>

\* ggml_graph_compute returns; a disposable pool is freed first.
Return ==
    /\ Step(0, "end", IF kind = "disposable" THEN "free" ELSE "user")
    /\ Outside /\ UNCHANGED <<poolVars, tp, ws, done>>

\* ggml_threadpool_pause and ggml_threadpool_resume.
SetPause(p) ==
    /\ At(0, "user") /\ kind = "persistent" /\ Free
    /\ tp.pause # p
    /\ tp' = [tp EXCEPT !.pause = p]
    /\ Broadcast(0, "user")
    /\ Outside /\ UNCHANGED <<poolVars, ws, done>>

\* ggml_threadpool_free: stop, then un-pause, under the mutex; then join.
FreePersistent ==
    /\ Step(0, "user", "free") /\ kind = "persistent"
    /\ Outside /\ UNCHANGED <<poolVars, tp, ws, done>>

SetStop ==
    /\ Step(0, "free", "unpause") /\ Free
    /\ mutex' = TRUE
    /\ tp' = [tp EXCEPT !.stop = TRUE]
    /\ Outside /\ UNCHANGED <<kind, graphs, ws, done>>

\* mutant: the pool is stopped while it is paused.
StopPaused ==
    /\ Step(0, "unpause", "join")
    /\ mutex' = FALSE
    /\ Outside /\ UNCHANGED <<kind, graphs, tp, ws, done>>

ClearPause ==
    /\ At(0, "unpause") /\ Broadcast(0, "join")
    /\ mutex' = FALSE
    /\ tp' = [tp EXCEPT !.pause = FALSE]
    /\ Outside /\ UNCHANGED <<kind, graphs, ws, done>>

Join ==
    /\ Step(0, "join", "user")
    /\ \A t \in Workers : pc[t] = "exit"
    /\ kind' = "none"
    /\ Outside /\ UNCHANGED <<mutex, graphs, tp, ws, done>>

Main ==
    \/ NewDisposable \/ NewPersistent \/ Submit \/ (\E n \in Sizes \union Requests : Kick(n))
    \/ Publish \/ Wake \/ Return \/ (\E p \in BOOLEAN : SetPause(p))
    \/ FreePersistent \/ SetStop \/ ClearPause \/ Join
-----------------------------------------------------------------------------
(* A worker that waits for a graph (ggml_graph_compute_secondary_thread).  *)
Private == Outside /\ UNCHANGED <<poolVars, tp, done>>
Quiet == Private /\ UNCHANGED ws

\* while (threadpool->pause): sleep until somebody resumes or frees the pool.
LookAtPause(t) == Step(t, "loop", IF tp.pause THEN "pausing" ELSE "look") /\ Quiet
PauseUnderLock(t) ==
    Step(t, "pausing", IF tp.pause THEN "paused" ELSE "loop") /\ Free /\ Quiet
Unpaused(t) == t # 0 /\ Step(t, "unpause", "loop") /\ Free /\ Quiet

LookAtStop(t) == Step(t, "look", IF tp.stop THEN "exit" ELSE "poll0") /\ Quiet

\* ggml_graph_compute_poll_for_work: a thread the last graph did not use does
\* not poll; the others give up after some rounds (none when poll = 0, but
\* ggml_graph_compute_thread_ready is evaluated once in any case).
PollOrSleep(t) == Step(t, "poll0", IF t \in Active THEN "poll" ELSE "lock") /\ Quiet

PollReady(t) ==
    /\ At(t, "poll")
    /\ \/ (tp.stop \/ tp.pause) /\ To(t, "lock") /\ UNCHANGED ws
       \/ /\ ~(tp.stop \/ tp.pause)
          /\ tp.n_graph # ws[t].last_graph
          /\ To(t, "fresh")
          /\ ws' = [ws EXCEPT ![t].last_graph = tp.n_graph]
       \/ /\ ~(tp.stop \/ tp.pause)
          /\ tp.n_graph = ws[t].last_graph
          /\ To(t, "lock") /\ UNCHANGED ws
    /\ Private

\* pending = ggml_graph_compute_thread_active: n_threads_cur is read later.
PollActive(t) ==
    /\ At(t, "fresh")
    /\ IF t \in Active THEN To(t, "start") ELSE To(t, "poll") \/ To(t, "lock")
    /\ Quiet

\* ggml_graph_compute_check_for_work: the same test under the mutex.
SleepReady(t) ==
    /\ At(t, "lock") /\ Free
    /\ LET fresh == ~tp.stop /\ ~tp.pause /\ tp.n_graph # ws[t].last_graph IN
       /\ To(t, IF tp.stop \/ tp.pause THEN "loop"
                ELSE IF fresh /\ t \in Active THEN "start" ELSE "asleep")
       /\ ws' = IF fresh THEN [ws EXCEPT ![t].last_graph = tp.n_graph] ELSE ws
    /\ Private

\* A condition variable may wake a thread for no reason.
Spurious(t) ==
    /\ pc[t] \in {"asleep", "paused"}
    /\ To(t, Signalled(pc[t]))
    /\ Quiet

Wait(t) ==
    \/ LookAtPause(t) \/ PauseUnderLock(t) \/ Unpaused(t) \/ LookAtStop(t)
    \/ PollOrSleep(t) \/ PollReady(t) \/ PollActive(t) \/ SleepReady(t)

-----------------------------------------------------------------------------
(* A graph, on every thread it uses (ggml_graph_compute_thread).           *)
Call(t) == Enter(t) /\ UNCHANGED n_threads_cur

Start(t) ==
    /\ Step(t, "start", "for")
    /\ ws' = [ws EXCEPT ![t].cgraph = tp.cgraph, ![t].nth = n_threads_cur, ![t].node = 0]
    /\ Private

\* mutant: no barrier at the end of the graph.
ForNoEnd(t) ==
    /\ Step(t, "for", IF ws[t].node < NNodes /\ tp.abort # ws[t].node THEN "node" ELSE "end")
    /\ Outside /\ UNCHANGED <<poolVars, tp, ws, done>>

For(t) ==
    /\ At(t, "for")
    /\ IF ws[t].node < NNodes /\ tp.abort # ws[t].node
       THEN To(t, "node") /\ Outside
       ELSE To(t, "end") /\ Call(t)
    /\ UNCHANGED <<poolVars, tp, ws, done>>

\* ggml_compute_forward_mul_mat: thread 0 sets the chunk counter, everybody
\* meets, takes the chunk of its own number first and then the next free one.
\* mutant: the chunk counter starts at the last chunk taken, not after it.
NodeOffByOne(t) ==
    /\ Step(t, "node", "chunk")
    /\ tp' = IF t = 0 THEN [tp EXCEPT !.chunk = ws[t].nth - 1] ELSE tp
    /\ ws' = [ws EXCEPT ![t].chunk = t]
    /\ Call(t) /\ UNCHANGED <<poolVars, done>>

Node(t) ==
    /\ Step(t, "node", "chunk")
    /\ tp' = IF t = 0 THEN [tp EXCEPT !.chunk = ws[t].nth] ELSE tp
    /\ ws' = [ws EXCEPT ![t].chunk = t]
    /\ Call(t) /\ UNCHANGED <<poolVars, done>>

Chunk(t) ==
    /\ At(t, "chunk")
    /\ LET n == ChunksFor(ws[t].nth) IN
       IF ws[t].chunk < n
       THEN /\ done' = [done EXCEPT ![ws[t].node][ws[t].chunk] = @ + 1]
            /\ To(t, IF ws[t].nth >= n THEN "after" ELSE "fetch")
       ELSE To(t, "after") /\ UNCHANGED done
    /\ Outside /\ UNCHANGED <<poolVars, tp, ws>>

Fetch(t) ==
    /\ Step(t, "fetch", "chunk")
    /\ ws' = [ws EXCEPT ![t].chunk = tp.chunk]
    /\ tp' = [tp EXCEPT !.chunk = @ + 1]
    /\ Outside /\ UNCHANGED <<poolVars, done>>

\* Thread 0 asks the abort callback; then the barrier between two nodes.
After(t) ==
    /\ Step(t, "after", "for")
    /\ \E aborts \in {FALSE, t = 0 /\ CanAbort} :
         tp' = IF aborts THEN [tp EXCEPT !.abort = ws[t].node + 1, !.ok = FALSE] ELSE tp
    /\ ws' = [ws EXCEPT ![t].node = @ + 1]
    /\ IF ws[t].node + 1 < NNodes THEN Call(t) ELSE Outside
    /\ UNCHANGED <<poolVars, done>>

BackToLoop(t) == t # 0 /\ Step(t, "end", "loop") /\ Quiet

Barrier(t) ==
    /\ BarrierStep(t)
    /\ UNCHANGED <<n_threads_cur, poolVars, tp, pc, ws, done>>

Compute(t) ==
    \/ Start(t) \/ For(t) \/ Node(t) \/ Chunk(t) \/ Fetch(t)
    \/ After(t) \/ Barrier(t)

NextPool ==
    \/ Main
    \/ \E t \in Threads : Compute(t)
    \/ \E t \in Workers : Wait(t) \/ Spurious(t) \/ BackToLoop(t)

\* The scheduler runs every thread; what the user may do (create, submit,
\* pause, free) is not fair, nor are spurious wakeups.
PoolFairness ==
    /\ WF_vars((\E n \in Sizes \union Requests : Kick(n)) \/ Publish \/ Wake \/ Return)
    /\ WF_vars(SetStop \/ ClearPause \/ Join)
    /\ \A t \in Threads : WF_vars(Compute(t))
    /\ \A t \in Workers : WF_vars(Wait(t) \/ BackToLoop(t))

SpecPool == InitPool /\ [][NextPool]_vars /\ PoolFairness

-----------------------------------------------------------------------------
InGraph(t) == pc[t] \in {"start", "for", "node", "chunk", "fetch", "after"}

PoolTypeOK ==
    /\ BarrierTypeOK
    /\ kind \in Kinds \union {"none"}
    /\ mutex \in BOOLEAN /\ graphs \in 0 .. MaxGraphs
    /\ tp.cgraph \in 0 .. graphs /\ tp.n_graph \in 0 .. graphs
    /\ tp.abort \in -1 .. NNodes
    /\ \A t \in Threads : /\ ws[t].last_graph \in 0 .. tp.n_graph
                          /\ ws[t].node \in 0 .. NNodes
                          /\ ws[t].nth \in 0 .. NMax

\* When ggml_graph_compute reports success every chunk of every node has been
\* computed exactly once; when it was aborted after a node, those up to it
\* have and the others have not been touched: all threads stopped together.
EachChunkOnce ==
    At(0, "end") =>
        \A k \in Nodes, c \in 0 .. ChunksFor(ws[0].nth) - 1 :
            done[k][c] = IF tp.ok \/ k < tp.abort THEN 1 ELSE 0

\* A node reads what the node before it wrote: no thread works on a node
\* while another still works on an earlier or later one.
OneNodeAtATime ==
    \A t, u \in Threads :
        At(t, "chunk") /\ pc[u] \in {"chunk", "fetch"} => ws[t].node = ws[u].node

\* "No worker threads should be accessing the parameters below at this stage"
\* (ggml_graph_compute): when the pool's parameters are reset, or the pool is
\* freed, no worker is inside a graph.
NoLateWorker ==
    pc[0] \in {"user", "kick", "free", "join"} => \A t \in Workers : ~InGraph(t)

\* Every graph that is started comes to an end and every pool that is being
\* freed is freed: no wakeup is lost between polling, sleeping and pausing.
GraphEnds == pc[0] = "kick" ~> pc[0] \in {"end", "free"}
PoolFreed == pc[0] = "free" ~> kind = "none"
=============================================================================
