--------------------------- MODULE SessionEffects ---------------------------
(****************************************************************************)
(* _session_effects.py: bounded, ordered execution of adapter work outside  *)
(* the session boundary, with the capacity wakeup the binding installer     *)
(* asks for when a preparation is refused (_bindings/_installation.py).     *)
(*                                                                          *)
(* One runner task per resource (an action instance) executes its queue in  *)
(* order; ordinary and cleanup effects have separate reserves.  A refused   *)
(* preparation is remembered in _deferred_bindings and retried by a single  *)
(* coalesced callback, which some runner awaits after it has finished an    *)
(* effect.  The callback waits for the session boundary before it runs, so  *)
(* other handlers and runners act between its start and its body; its body  *)
(* does not suspend.                                                        *)
(****************************************************************************)
EXTENDS Integers, Sequences, FiniteSets

CONSTANTS
    Resources,  \* action instances of the session
    Capacity    \* SessionEffects._capacity, for each of the two reserves

ASSUME EffectsAssumption ==
    /\ IsFiniteSet(Resources)
    /\ Capacity \in Nat \ {0}

Classes == {"ordinary", "cleanup"}      \* Effect.cleanup

VARIABLES
    queues,         \* _queues[r], the running effect at the head
    runner,         \* the task _run(r): none, in an effect, or in the callback
    count,          \* _count
    cleanupCount,   \* _cleanup_count
    callback,       \* _capacity_callback is not None
    notifying,      \* _notifying_capacity
    idle,           \* the current _idle event is set
    deferred,       \* _deferred_bindings: resources whose preparation waits
    scope           \* the task group that runs the runners

effects == <<queues, runner, count, cleanupCount, callback, notifying, idle,
             deferred, scope>>

Ordinary == count - cleanupCount

\* The reserve that submit compares with the capacity.
Used(class) == IF class = "cleanup" THEN cleanupCount ELSE Ordinary

Cleanups(q) == Cardinality({i \in DOMAIN q : q[i] = "cleanup"})

EffectsTypeOK ==
    /\ queues \in [Resources -> Seq(Classes)]
    /\ runner \in [Resources -> {"none", "running", "notifying"}]
    /\ count \in Int /\ cleanupCount \in Int
    /\ callback \in BOOLEAN /\ notifying \in BOOLEAN /\ idle \in BOOLEAN
    /\ deferred \subseteq Resources
    /\ scope \in {"open", "cancelled", "closed"}

EffectsInit ==
    /\ queues = [r \in Resources |-> <<>>]
    /\ runner = [r \in Resources |-> "none"]
    /\ count = 0 /\ cleanupCount = 0
    /\ callback = FALSE /\ notifying = FALSE /\ idle = TRUE
    /\ deferred = {}
    /\ scope = "open"

Weight(class) == IF class = "cleanup" THEN 1 ELSE 0

----------------------------------------------------------------------------
(* submit *)

\* A task group that has exited starts nothing (RuntimeError).
Startable(r) == runner[r] # "none" \/ scope # "closed"

\* Mutant: the last slot is counted wrongly.
AcceptsOneMore(r, class) == Used(class) <= Capacity /\ Startable(r)

\* submit returns True.
Accepts(r, class) == Used(class) < Capacity /\ Startable(r)

\* The effect is queued, its runner started if there is none, and the idle
\* event replaced by a fresh one when the session was idle.
Admit(r, class) ==
    /\ queues' = [queues EXCEPT ![r] = Append(@, class)]
    /\ runner' = [runner EXCEPT ![r] = IF @ = "none" THEN "running" ELSE @]
    /\ count' = count + 1
    /\ cleanupCount' = cleanupCount + Weight(class)
    /\ idle' = IF count = 0 /\ ~notifying THEN FALSE ELSE idle

\* Input, cancellation, detach and notification effects: refused ones are lost.
Submit(r, class) ==
    /\ Accepts(r, class)
    /\ Admit(r, class)
    /\ UNCHANGED <<callback, notifying, deferred, scope>>

\* A preparation that is admitted (_activate_binding).
Prepare(r) ==
    /\ Accepts(r, "ordinary")
    /\ Admit(r, "ordinary")
    /\ deferred' = deferred \ {r}
    /\ UNCHANGED <<callback, notifying, scope>>

\* Mutant: the refused preparation does not ask for a wakeup.
DeferSilently(r) ==
    /\ ~Accepts(r, "ordinary")
    /\ deferred' = deferred \union {r}
    /\ UNCHANGED <<queues, runner, count, cleanupCount, callback, notifying,
                   idle, scope>>

\* A preparation that is refused: deferred, and a wakeup is asked for.
Defer(r) ==
    /\ ~Accepts(r, "ordinary")
    /\ deferred' = deferred \union {r}
    /\ callback' = TRUE
    /\ UNCHANGED <<queues, runner, count, cleanupCount, notifying, idle, scope>>

\* The binding is revoked: its deferred preparation is forgotten.
Retire(r) ==
    /\ r \in deferred
    /\ deferred' = deferred \ {r}
    /\ UNCHANGED <<queues, runner, count, cleanupCount, callback, notifying,
                   idle, scope>>

----------------------------------------------------------------------------
(* _run *)

\* The runner continues with queue q, or ends: the outermost finally drops the
\* resource and sets the idle event if nothing is left.
ContinueOrEnd(r, q, n, stillNotifying) ==
    /\ runner' = [runner EXCEPT ![r] = IF q = <<>> THEN "none" ELSE "running"]
    /\ idle' = IF q = <<>> /\ n = 0 /\ ~stillNotifying THEN TRUE ELSE idle

\* Mutant: only the runner that empties its queue looks for a callback.
FinishWakesAtEnd(r) ==
    /\ scope = "open"
    /\ runner[r] = "running"
    /\ LET n == count - 1
           k == cleanupCount - Weight(Head(queues[r]))
           q == Tail(queues[r])
       IN /\ queues' = [queues EXCEPT ![r] = q]
          /\ count' = n /\ cleanupCount' = k
          /\ IF callback /\ ~notifying /\ n - k < Capacity /\ q = <<>>
               THEN /\ runner' = [runner EXCEPT ![r] = "notifying"]
                    /\ callback' = FALSE /\ notifying' = TRUE
                    /\ UNCHANGED idle
               ELSE /\ ContinueOrEnd(r, q, n, notifying)
                    /\ UNCHANGED <<callback, notifying>>
    /\ UNCHANGED <<deferred, scope>>

\* The running effect completes, fails or times out (all alike here): it leaves
\* the queue, then this runner takes the callback if one is wanted, nobody else
\* is notifying and the ordinary reserve has room.
Finish(r) ==
    /\ scope = "open"
    /\ runner[r] = "running"
    /\ LET n == count - 1
           k == cleanupCount - Weight(Head(queues[r]))
           q == Tail(queues[r])
       IN /\ queues' = [queues EXCEPT ![r] = q]
          /\ count' = n /\ cleanupCount' = k
          /\ IF callback /\ ~notifying /\ n - k < Capacity
               THEN /\ runner' = [runner EXCEPT ![r] = "notifying"]
                    /\ callback' = FALSE /\ notifying' = TRUE
                    /\ UNCHANGED idle
               ELSE /\ ContinueOrEnd(r, q, n, notifying)
                    /\ UNCHANGED <<callback, notifying>>
    /\ UNCHANGED <<deferred, scope>>

(****************************************************************************)
(* The body of the callback, _resume_deferred_preparations, at its turn in  *)
(* the boundary: every deferred preparation is submitted again, as many as  *)
(* the reserve admits are queued, the others are deferred again with a new  *)
(* callback; then the runner goes on.  While the hardware claim is not      *)
(* current the pending preparations are dropped.                            *)
(****************************************************************************)
AdmittedNow(accepted) ==
    /\ accepted \subseteq deferred
    /\ LET room == Capacity - Ordinary
       IN Cardinality(accepted) =
            IF Cardinality(deferred) <= room THEN Cardinality(deferred) ELSE room

Resume(r) ==
    /\ scope = "open"
    /\ runner[r] = "notifying"
    /\ \E accepted \in SUBSET deferred :
        /\ AdmittedNow(accepted)
        /\ LET q == IF r \in accepted THEN Append(queues[r], "ordinary")
                                      ELSE queues[r]
               n == count + Cardinality(accepted)
           IN /\ queues' = [s \in Resources |->
                              IF s \in accepted THEN Append(queues[s], "ordinary")
                                                ELSE queues[s]]
              /\ count' = n
              /\ runner' = [s \in Resources |->
                              IF s = r
                                THEN IF q = <<>> THEN "none" ELSE "running"
                                ELSE IF s \in accepted /\ runner[s] = "none"
                                       THEN "running" ELSE runner[s]]
              /\ idle' = IF q = <<>> /\ n = 0 THEN TRUE ELSE idle
        /\ deferred' = deferred \ accepted
        /\ callback' = (callback \/ accepted # deferred)
    /\ notifying' = FALSE
    /\ UNCHANGED <<cleanupCount, scope>>

\* The body returns early without a current hardware claim.
ResumeWithoutHardware(r) ==
    /\ scope = "open"
    /\ runner[r] = "notifying"
    /\ deferred' = {}
    /\ notifying' = FALSE
    /\ ContinueOrEnd(r, queues[r], count, FALSE)
    /\ UNCHANGED <<queues, count, cleanupCount, callback, scope>>

----------------------------------------------------------------------------
(* The end of the session's task group *)

CancelScope ==
    /\ scope = "open"
    /\ scope' = "cancelled"
    /\ UNCHANGED <<queues, runner, count, cleanupCount, callback, notifying,
                   idle, deferred>>

\* Mutant: the outermost finally forgets the effects still queued.
UnwindKeepsCount(r) ==
    /\ scope = "cancelled"
    /\ runner[r] # "none"
    /\ LET running == IF runner[r] = "running" THEN 1 ELSE 0
           still == notifying /\ runner[r] # "notifying"
       IN /\ count' = count - running
          /\ cleanupCount' = cleanupCount
               - (IF running = 1 THEN Weight(Head(queues[r])) ELSE 0)
          /\ notifying' = still
          /\ idle' = IF count' = 0 /\ ~still THEN TRUE ELSE idle
    /\ queues' = [queues EXCEPT ![r] = <<>>]
    /\ runner' = [runner EXCEPT ![r] = "none"]
    /\ UNCHANGED <<callback, deferred, scope>>

\* A cancelled runner unwinds: the running effect is popped and counted off,
\* the queued ones are dropped, and a callback under way stops notifying.
Unwind(r) ==
    /\ scope = "cancelled"
    /\ runner[r] # "none"
    /\ LET still == notifying /\ runner[r] # "notifying"
       IN /\ count' = count - Len(queues[r])
          /\ cleanupCount' = cleanupCount - Cleanups(queues[r])
          /\ notifying' = still
          /\ idle' = IF count' = 0 /\ ~still THEN TRUE ELSE idle
    /\ queues' = [queues EXCEPT ![r] = <<>>]
    /\ runner' = [runner EXCEPT ![r] = "none"]
    /\ UNCHANGED <<callback, deferred, scope>>

CloseScope ==
    /\ scope = "cancelled"
    /\ \A r \in Resources : runner[r] = "none"
    /\ scope' = "closed"
    /\ UNCHANGED <<queues, runner, count, cleanupCount, callback, notifying,
                   idle, deferred>>

EffectsNext ==
    \/ \E r \in Resources, class \in Classes : Submit(r, class)
    \/ \E r \in Resources :
          \/ Prepare(r) \/ Defer(r) \/ Retire(r)
          \/ Finish(r) \/ Resume(r) \/ ResumeWithoutHardware(r)
          \/ Unwind(r)
    \/ CancelScope \/ CloseScope

(****************************************************************************)
(* Every effect runs under fail_after(timeout), so a running effect ends;   *)
(* the boundary the callback waits for is fair (StateGate!WaiterServed).    *)
(****************************************************************************)
RunnerGoesOn(r) == Finish(r) \/ Resume(r) \/ ResumeWithoutHardware(r) \/ Unwind(r)
Fairness == \A r \in Resources : WF_effects(RunnerGoesOn(r))

EffectsSpec == EffectsInit /\ [][EffectsNext]_effects
FairEffectsSpec == EffectsSpec /\ Fairness

----------------------------------------------------------------------------
(* Properties *)

\* A reserve never holds more than its capacity, so a stalled adapter cannot
\* accumulate unlimited work and cleanup always keeps its own room.
Bounded == Ordinary <= Capacity /\ cleanupCount <= Capacity

\* The coalesced wakeup is never lost: while the session runs and nobody is in
\* the callback, a deferred preparation means the ordinary reserve is exactly
\* full and a callback is registered, so the next ordinary effect to end runs it.
NoLostWakeup ==
    scope = "open" /\ deferred # {} /\ ~notifying
        => callback /\ Ordinary = Capacity

\* Shutdown waits on the idle event exactly while there is work or a callback:
\* a stale event would let close proceed early or wait forever.
IdleIffDrained == idle <=> count = 0 /\ ~notifying

\* At most one runner is in the callback, and the flag says so.
OneNotifier ==
    /\ notifying <=> \E r \in Resources : runner[r] = "notifying"
    /\ \A r, s \in Resources :
          runner[r] = "notifying" /\ runner[s] = "notifying" => r = s

\* A runner that executes an effect has one, the head of its queue.
RunnersBusy == \A r \in Resources : runner[r] = "running" => queues[r] # <<>>

\* What the proof of NoLostWakeup carries from step to step: the counters of
\* submit, the runners and the flag that lets one of them call back.
WakeupInv == EffectsTypeOK /\ RunnersBusy /\ Bounded /\ OneNotifier /\ NoLostWakeup

\* What the callers are promised, and the state of the session that stands for it.
Reserves == INSTANCE EffectReserves WITH
    pending <- queues, running <- (scope = "open")

\* The detailed runners, counters and callback implement bounded FIFO work per
\* resource.
ImplementsReserves == Reserves!Spec

\* The counters submit compares with the capacity are the contents of the
\* queues, and the idle event is set exactly when they are empty, through every
\* refusal, failure and cancellation.
CountsMatch ==
    /\ IdleIffDrained
    /\ Ordinary = Reserves!Held("ordinary")
    /\ cleanupCount = Reserves!Held("cleanup")

\* Accepted work has a runner: nothing is left in a queue nobody drains.
Attended == \A r \in Resources : queues[r] # <<>> => runner[r] # "none"

\* What the proofs of CountsMatch and ImplementsReserves carry.
EffectsInv == WakeupInv /\ Attended /\ CountsMatch

\* A deferred preparation is retried, forgotten or overtaken by shutdown.
DeferredRetried ==
    []<>(notifying \/ deferred = {} \/ scope # "open")
=============================================================================
