------------------------------- MODULE MCSession -------------------------------
(****************************************************************************)
(* Parts of a device session, each on its own: its boundary; the three      *)
(* places where work is bounded, which are its effects, against their       *)
(* counters and against what they promise their callers (EffectReserves),   *)
(* the execution of renders and the fetching of images; and what local      *)
(* requests make of its pages.  Which of them runs is chosen at the start;  *)
(* the others stay as they begin.                                           *)
(*                                                                          *)
(* The boundary has four tasks: an owner, a waiter that is cancelled, a     *)
(* live waiter queued behind it, and a task that arrives before the         *)
(* cancelled one unwinds.                                                   *)
(****************************************************************************)
EXTENDS StateGate, SessionEffects, MCPageNavigation

VARIABLES
    part,
    \* render workers
    job, cut, future, pool, free, workers, backend, outside,
    \* image resources
    asked, get, sems, origin, slots, cache, bytes, service

Parts == {"gate", "effects", "rendering", "fetching", "pages"}

rendering == <<job, cut, future, pool, free, workers, backend, outside>>
fetching == <<asked, get, sems, origin, slots, cache, bytes, service>>
all == <<part, gate, effects, rendering, fetching, vars>>

\* One request of each kind, and one of everything they compete for.
W == INSTANCE RenderWorkers WITH
    Local <- {1}, Isolated <- {2}, Graphs <- {3}, Threads <- 1, Slots <- 1, Limit <- 1,
    Observed <- TRUE, queue <- pool, idle <- workers

\* What three calls ask for: all of one origin, or the last of another.  The first and
\* the last are of one batch; one request at a time, and room for two pictures or
\* three bytes.
Asked == {<<11, 11, 12>>, <<11, 11, 13>>}
I(urls) == INSTANCE ImageResources WITH
    Getters <- 1..3, Batches <- {{1, 3}}, Urls <- 11..13,
    UrlOf <- urls, OriginOf <- [u \in 11..13 |-> IF u = 13 THEN 2 ELSE 1],
    PerOrigin <- 1, InFlight <- 1, CacheBytes <- 3, CacheEntries <- 2, Sizes <- {1, 2}

----------------------------------------------------------------------------
Begins ==
    /\ part \in Parts
    /\ asked \in Asked /\ (part # "fetching" => asked = <<11, 11, 12>>)
    /\ GateInit /\ EffectsInit /\ W!Init /\ I(<<11, 11, 12>>)!Init /\ Init

Fetch == \E urls \in Asked : asked = urls /\ I(urls)!Next

Steps ==
    \/ part = "gate" /\ GateNext /\ UNCHANGED <<part, effects, rendering, fetching, vars>>
    \/ part = "effects" /\ EffectsNext /\ UNCHANGED <<part, gate, rendering, fetching, vars>>
    \/ part = "rendering" /\ W!Next /\ UNCHANGED <<part, gate, effects, fetching, vars>>
    \/ part = "fetching" /\ Fetch /\ UNCHANGED <<part, asked, gate, effects, rendering, vars>>
    \/ part = "pages" /\ Next /\ UNCHANGED <<part, gate, effects, rendering, fetching>>

\* The fairness of each part, while it runs.
MCSpec ==
    /\ Begins /\ [][Steps]_all
    /\ SF_gate(part = "gate" /\ \E t \in Tasks : Exit(t))
    /\ WF_gate(part = "gate" /\ GoesOn)
    /\ \A r \in Resources : WF_effects(part = "effects" /\ RunnerGoesOn(r))
    /\ WF_rendering(part = "rendering" /\ W!Due)
    /\ WF_vars(part = "pages" /\ TimePasses) /\ WF_vars(part = "pages" /\ TimerTick)

----------------------------------------------------------------------------
\* Capacity for renders comes back exactly once, whoever ends last (run_process,
\* run_thread).
CapacityAccounted == W!CapacityAccounted

\* A queued execution that its caller has left does not begin (run_thread).
NobodyForgottenRuns == W!NobodyForgottenRuns

\* Every request ends by its deadline, and a closing backend closes
\* (render_with_retry, aclose).
EveryRenderEnds == W!EveryRenderEnds

\* The bytes that are counted are those of the pictures held (_remember).
CacheAccounted == \A urls \in Asked : asked = urls => I(urls)!CacheAccounted

\* Calls that have ended hold no capacity and no origin (get, acquire).
NothingKept == \A urls \in Asked : asked = urls => I(urls)!NothingKept
================================================================================
