---------------------------- MODULE RenderWorkers ----------------------------
(****************************************************************************)
(* Bounded execution of renders: a fixed pool of threads for local          *)
(* composition, reusable worker processes for isolated work, and the file   *)
(* of observations, written by the same threads one line at a time.         *)
(*                                                                          *)
(* A waiter can be cancelled anywhere.  A thread that runs cannot be         *)
(* interrupted; a worker process can only be killed, and a cancelled caller  *)
(* lets it finish until the deadline of the request.                        *)
(****************************************************************************)
EXTENDS Integers, Sequences, FiniteSets, SequencesExt

CONSTANTS
    Local,      \* requests composed in a thread
    Isolated,   \* requests rendered by the backend in a worker process
    Graphs,     \* extension graphs, which sessions render in a worker process
    Threads,    \* threads of the pool, and slots of those who compose
    Slots,      \* PROCESS_WORKERS
    Limit,      \* the narrower limit of one workload
    Observed    \* whether the backend writes observations

Jobs == Local \union Isolated \union Graphs
Owned == Local \union Isolated      \* the requests of the backend
Work == Jobs \X {"draw", "note"}

VARIABLES
    job,        \* each request: where it is, its attempt, what came of it, and
                \* whether its caller or its deadline has called it off
    cut,        \* requests that the closing backend has still to cancel
    future,     \* the executions in the pool of threads
    queue,      \* its queue
    free,       \* free capacity
    idle,       \* idle worker processes
    backend,    \* "open", or how far aclose is
    outside     \* graphs that were with a worker when the idle ones were closed

vars == <<job, cut, future, queue, free, idle, backend, outside>>

Fresh == [ph |-> "none", attempt |-> 0, result |-> "none", off |-> "no"]

Init ==
    /\ job = [i \in Jobs |-> Fresh] /\ cut = {}
    /\ future = [f \in Work |-> "none"]
    /\ queue = <<>>
    /\ free = [threads |-> Threads, processes |-> Slots, notes |-> 1,
               own |-> Limit, graphs |-> Limit]
    /\ idle = Slots
    /\ backend = "open"
    /\ outside = {}

Limiter(i) == IF i \in Graphs THEN "graphs" ELSE "own"
At(i, phases) == job[i].ph \in phases
Moved(i, ph) == [job EXCEPT ![i].ph = ph]
Running == {f \in Work : future[f] = "running"}

\* Requests that wait where a cancellation reaches them.
Waiting == {"limiter", "slot", "checked", "thread", "composing", "noteslot", "noting", "pause"}
\* Requests in the backend's _jobs.
InBackend(i) ==
    i \in Owned /\ At(i, {"limiter", "slot", "checked", "run", "kill", "thread", "composing"})
CalledOff(i) == job[i].off # "no"

----------------------------------------------------------------------------
(* One attempt and what comes of it *)

\* A request that has ended is forgotten.
Ended(i) == [job EXCEPT ![i] = [Fresh EXCEPT !.ph = "end"]]

\* _render_attempts: a failed attempt is repeated at most once, and not for a caller
\* that was called off meanwhile.
Judged(i, result) ==
    IF i \in Owned /\ result = "error" /\ job[i].attempt < 2 /\ ~CalledOff(i)
    THEN [job EXCEPT ![i].ph = "pause", ![i].result = "none"] ELSE Ended(i)

\* ObservingRenderBackend.render: every result of the backend is noted.
Result(i, result) ==
    IF Observed /\ i \in Owned /\ ~CalledOff(i)
    THEN [job EXCEPT ![i].ph = "noteslot", ![i].result = result]
    ELSE Judged(i, result)

\* A closed backend refuses; so the attempt after this one is not made either.
Attempt(i) ==
    /\ At(i, {"none", "pause"})
    /\ At(i, {"none"}) => backend = "open"
    /\ job' = IF i \in Owned /\ backend # "open"
              THEN Ended(i)
              ELSE [job EXCEPT ![i] = [@ EXCEPT !.ph = IF i \in Local THEN "thread" ELSE "limiter",
                                                !.attempt = @ + 1]]
    /\ UNCHANGED <<cut, future, queue, free, idle, backend, outside>>

\* The request is no longer current: nothing more is done.
Obsolete(i) ==
    /\ At(i, {"none", "pause"})
    /\ job' = Ended(i)
    /\ UNCHANGED <<cut, future, queue, free, idle, backend, outside>>

----------------------------------------------------------------------------
(* run_process *)

EnterLimiter(i) ==
    /\ At(i, {"limiter"}) /\ i \notin cut /\ free[Limiter(i)] > 0
    /\ free' = [free EXCEPT ![Limiter(i)] = @ - 1]
    /\ job' = Moved(i, "slot")
    /\ UNCHANGED <<cut, future, queue, idle, backend, outside>>

\* _acquire_slot polls: whoever looks first gets the slot.
TakeProcessSlot(i) ==
    /\ At(i, {"slot"}) /\ i \notin cut /\ free.processes > 0
    /\ free' = [free EXCEPT !.processes = @ - 1]
    /\ job' = Moved(i, "checked")
    /\ UNCHANGED <<cut, future, queue, idle, backend, outside>>

\* An idle worker is taken, or one is started.
RunProcess(i) ==
    /\ At(i, {"checked"}) /\ i \notin cut
    /\ idle' = IF idle > 0 THEN idle - 1 ELSE 0
    /\ job' = Moved(i, "run")
    /\ UNCHANGED <<cut, future, queue, free, backend, outside>>

ReleasedProcess(i) == [free EXCEPT !.processes = @ + 1, ![Limiter(i)] = @ + 1]

\* The worker answers, with a frame or an error, and is idle again; also when the
\* caller was cancelled meanwhile, for the run is shielded until its deadline.
Answer(i, result) ==
    /\ At(i, {"run"})
    /\ idle' = idle + 1
    /\ free' = ReleasedProcess(i)
    /\ job' = Result(i, result)
    /\ UNCHANGED <<cut, future, queue, backend, outside>>

\* The worker dies, or the deadline passes: it is killed and joined before the
\* slot is free again.
Fail(i) ==
    /\ At(i, {"run"})
    /\ job' = Moved(i, "kill")
    /\ UNCHANGED <<cut, future, queue, free, idle, backend, outside>>

Overrun(i) == job[i].off = "late" /\ Fail(i)

Join(i) ==
    /\ At(i, {"kill"})
    /\ free' = ReleasedProcess(i)
    /\ job' = Result(i, "error")
    /\ UNCHANGED <<cut, future, queue, idle, backend, outside>>

----------------------------------------------------------------------------
(* run_thread *)

\* The slot belongs to the future from here on.
Submit(i, what) ==
    LET slots == IF what = "note" THEN "notes" ELSE "threads" IN
    /\ At(i, IF what = "note" THEN {"noteslot"} ELSE {"thread"})
    /\ i \notin cut /\ free[slots] > 0
    /\ free' = [free EXCEPT ![slots] = @ - 1]
    /\ future' = [future EXCEPT ![<<i, what>>] = "queued"]
    /\ queue' = Append(queue, <<i, what>>)
    /\ job' = Moved(i, IF what = "note" THEN "noting" ELSE "composing")
    /\ UNCHANGED <<cut, idle, backend, outside>>

\* A thread of the pool takes the next one.
StartThread ==
    /\ queue # <<>> /\ Cardinality(Running) < Threads
    /\ future' = [future EXCEPT ![Head(queue)] = "running"]
    /\ queue' = Tail(queue)
    /\ UNCHANGED <<job, cut, free, idle, backend, outside>>

Given(f) == [free EXCEPT ![IF f[2] = "note" THEN "notes" ELSE "threads"] = @ + 1]

\* The execution ends.  Its waiter, if it still waits, has the result.
EndThread(f, result) ==
    /\ f \in Running
    /\ future' = [future EXCEPT ![f] = "none"]
    /\ free' = Given(f)
    /\ job' = CASE f[2] = "draw" /\ At(f[1], {"composing"}) -> Result(f[1], result)
                [] f[2] = "note" /\ At(f[1], {"noting"}) -> Judged(f[1], job[f[1]].result)
                [] OTHER -> job
    /\ UNCHANGED <<cut, queue, idle, backend, outside>>

\* Mutant: the slot is given back with the waiter, the thread may go on.
AbandonReleases(f) ==
    /\ future' = IF future[f] = "queued" THEN [future EXCEPT ![f] = "none"] ELSE future
    /\ queue' = SelectSeq(queue, LAMBDA g : g # f)
    /\ free' = IF future[f] = "none" THEN free ELSE Given(f)

\* Mutant: an execution in the queue stays there.
AbandonNothing(f) == UNCHANGED <<future, queue, free>>

\* future.cancel takes an execution out of the queue and leaves a running one alone.
Abandon(f) ==
    IF future[f] = "queued"
    THEN /\ future' = [future EXCEPT ![f] = "none"]
         /\ queue' = SelectSeq(queue, LAMBDA g : g # f)
         /\ free' = Given(f)
    ELSE UNCHANGED <<future, queue, free>>

----------------------------------------------------------------------------
(* Deadlines and cancellation *)

\* A request that is called off while it waits gives back what it holds.
GivesBack(i) ==
    CASE At(i, {"composing"}) -> Abandon(<<i, "draw">>)
      [] At(i, {"noting"}) -> Abandon(<<i, "note">>)
      [] At(i, {"slot"}) -> /\ free' = [free EXCEPT ![Limiter(i)] = @ + 1]
                            /\ UNCHANGED <<future, queue>>
      [] At(i, {"checked"}) -> free' = ReleasedProcess(i) /\ UNCHANGED <<future, queue>>
      [] OTHER -> UNCHANGED <<future, queue, free>>

\* Mutant: the deadline does not reach a shielded run.
CallOffWaiting(i, why) ==
    /\ At(i, Waiting)
    /\ GivesBack(i) /\ job' = Ended(i)
    /\ cut' = cut \ {i}
    /\ UNCHANGED <<idle, backend, outside>>

CallOff(i, why) ==
    \/ /\ At(i, Waiting)
       /\ GivesBack(i) /\ job' = Ended(i)
       /\ cut' = cut \ {i}
       /\ UNCHANGED <<idle, backend, outside>>
    \/ /\ At(i, {"run", "kill"}) /\ job[i].off # "late" /\ job[i].off # why
       /\ job' = [job EXCEPT ![i].off = why]
       /\ UNCHANGED <<cut, future, queue, free, idle, backend, outside>>

\* The deadline of the request passes.
Expire(i) == CallOff(i, "late")

\* The binding is retired or the page replaced: the caller is cancelled.
Cancel(i) == CallOff(i, "left")

\* The observation has a twentieth of a second, in the queue and in the file.
DropNote(i) ==
    /\ At(i, {"noteslot", "noting"})
    /\ Abandon(<<i, "note">>)
    /\ job' = Judged(i, job[i].result)
    /\ UNCHANGED <<cut, idle, backend, outside>>

----------------------------------------------------------------------------
(* aclose of the backend, after the sessions are closed.  They begin nothing more and
   have cancelled their graphs, but a shielded run may still be with its worker. *)

Close ==
    /\ backend = "open"
    /\ \A i \in Graphs : At(i, {"none", "end"}) \/ CalledOff(i)
    /\ backend' = "waits"
    /\ cut' = {i \in Jobs : InBackend(i) /\ At(i, Waiting)}
    /\ UNCHANGED <<job, future, queue, free, idle, outside>>

\* A request that the backend cancels is answered with an error; a shielded run
\* ends with what its worker answers.
Cut(i) ==
    /\ i \in cut /\ cut' = cut \ {i}
    /\ IF InBackend(i) /\ At(i, Waiting)
       THEN GivesBack(i) /\ job' = Result(i, "error")
       ELSE UNCHANGED <<job, future, queue, free>>
    /\ UNCHANGED <<idle, backend, outside>>

Await ==
    /\ backend = "waits" /\ cut = {}
    /\ ~\E i \in Jobs : InBackend(i)
    /\ backend' = "sweeps"
    /\ UNCHANGED <<job, cut, future, queue, free, idle, outside>>

\* fail_after: what is still under way has outlived its own deadline.  Idle workers stay.
AwaitFails ==
    /\ backend = "waits" /\ cut = {}
    /\ \E i \in Jobs : InBackend(i)
    /\ \A i \in Jobs : InBackend(i) => job[i].off = "late"
    /\ backend' = "failed"
    /\ UNCHANGED <<job, cut, future, queue, free, idle, outside>>

\* close_idle, one worker after the other.
Sweep ==
    /\ backend = "sweeps"
    /\ IF idle > 0
       THEN idle' = idle - 1 /\ UNCHANGED <<backend, outside>>
       ELSE /\ backend' = "closed"
            /\ outside' = {i \in Graphs : At(i, {"run"})}
            /\ UNCHANGED idle
    /\ UNCHANGED <<job, cut, future, queue, free>>

----------------------------------------------------------------------------
JobStep(i) ==
    \/ Attempt(i) \/ EnterLimiter(i) \/ TakeProcessSlot(i) \/ RunProcess(i)
    \/ Overrun(i) \/ Join(i) \/ Cut(i) \/ DropNote(i)
    \/ \E what \in {"draw", "note"} : Submit(i, what)

Next ==
    \/ \E i \in Jobs : \/ JobStep(i) \/ Obsolete(i) \/ Expire(i) \/ Cancel(i) \/ Fail(i)
                      \/ \E result \in {"frame", "error"} : Answer(i, result)
    \/ StartThread
    \/ \E f \in Work, result \in {"frame", "error"} : EndThread(f, result)
    \/ Close \/ Await \/ AwaitFails \/ Sweep

Spec == Init /\ [][Next]_vars

\* Deadlines pass, and what is due does not wait for ever; but neither a thread nor
\* a worker process need ever come to an end by itself.
Due == Await \/ Sweep \/ \E i \in Jobs : JobStep(i) \/ (job[i].attempt > 0 /\ Expire(i))
FairSpec == Spec /\ WF_vars(Due)

----------------------------------------------------------------------------
With(phases) == Cardinality({i \in Jobs : At(i, phases)})
Unfinished(what) == Cardinality({i \in Jobs : future[<<i, what>>] # "none"})

\* There are never more worker processes, idle and at work, than slots.
WorkersBounded == idle + With({"run", "kill"}) <= Slots

\* Once the backend is closed no worker is left, but for those of graphs that were
\* with a worker when the idle ones were closed: nobody waits for these.  A backend
\* whose closing failed is not closed.
NoWorkerLeft == backend = "closed" => idle <= Cardinality(outside)

\* Capacity comes back exactly once, whichever of waiter, worker and thread ends
\* last: an abandoned thread keeps its slot, a killed worker has it until joined;
\* and worker processes stay within it until the closed backend has none.
CapacityAccounted ==
    /\ free.threads + Unfinished("draw") = Threads
    /\ free.notes + Unfinished("note") = 1
    /\ free.processes + With({"checked", "run", "kill"}) = Slots
    /\ \A s \in DOMAIN free : free[s] >= 0
    /\ WorkersBounded /\ NoWorkerLeft

\* Obsolete work never runs: an execution begins only while its caller waits for it.
NobodyForgottenRuns ==
    [][\A i \in Jobs : /\ future[<<i, "draw">>] = "queued" /\ future'[<<i, "draw">>] = "running"
                          => At(i, {"composing"})
                       /\ future[<<i, "note">>] = "queued" /\ future'[<<i, "note">>] = "running"
                          => At(i, {"noting"})]_vars

\* Every request ends by its deadline, with threads that never return and workers
\* that never answer, and a closing backend closes, or gives up waiting for workers
\* that are not killed in time.
EveryRenderEnds ==
    []<>(/\ \A i \in Jobs : job[i].attempt > 0 => At(i, {"end"})
         /\ backend \in {"open", "closed", "failed"})
==============================================================================
