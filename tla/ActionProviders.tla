---------------------------- MODULE ActionProviders ----------------------------
(****************************************************************************)
(* The controller's view of one action service: ActionRuntimeSupervisor     *)
(* watches it through managed uses, ActionCatalog keeps what its view said, *)
(* ActionRuntimeGateway sends to it, and every device session is told, one  *)
(* after the other, when what it offers has changed.                        *)
(*                                                                          *)
(* Watches and senders are tasks; what one does between two suspensions is  *)
(* one step.  A suspended task that is cancelled unwinds at its next step.  *)
(****************************************************************************)
EXTENDS Integers, Sequences, FiniteSets

CONSTANTS
    MaxSessions,    \* the device sessions, told in this order
    ProviderSessions, \* the sessions the provider may have
    Senders,        \* effects that send to the provider, or messages from it
    MaxWatches,     \* bound on the watches started
    MaxUses,        \* bound on the managed uses entered
    MaxEvents       \* bound on what directory, provider and pages do

None == 0
Sessions == 1..MaxSessions
Watches == 1..MaxWatches
Tasks == Watches \union Senders

\* ActionAvailabilityRecord: state, reason, the provider session of its metadata.
Record(state, reason, k) == [state |-> state, reason |-> reason, session |-> k]
Unknown == Record("none", "none", None)
Views == {"available", "unavailable", "without", "none"}

VARIABLES
    listed,     \* the directory lists the service, and it may be used
    uses,       \* the managed uses so far, and those whose agreement holds
    watch,      \* _watches: the generation of the current watch
    gen,        \* _watch_sequence
    task,       \* what each watch and each sender is doing
    cancelled,  \* watches whose scope is cancelled
    lease,      \* _runtime_leases of the provider's session
    rec,        \* the record of the action in the cache
    plan,       \* what each session's page was planned with
    left,       \* what may still happen
    behind      \* sessions that a change of the record was not told to

vars == <<listed, uses, watch, gen, task, cancelled, lease, rec, plan, left, behind>>

NoLease == [gen |-> None, use |-> None]
Idle == [ph |-> "none", use |-> None, key |-> None, gen |-> None, next |-> None]

Init ==
    /\ listed = FALSE
    /\ uses = [made |-> 0, held |-> {}]
    /\ watch = None /\ gen = 0
    /\ task = [w \in Tasks |-> Idle]
    /\ cancelled = {}
    /\ lease = [k \in ProviderSessions |-> NoLease]
    /\ rec = Unknown
    /\ plan = [s \in Sessions |-> "unavailable"]
    /\ left = MaxEvents
    /\ behind = {}

Event == left > 0 /\ left' = left - 1

----------------------------------------------------------------------------
(* ActionCatalog and ActionAvailabilityCache *)

\* A provider session is ready while its lease has authority.
Ready(k) == k # None /\ lease[k] # NoLease /\ lease[k].use \in uses.held

\* planning_snapshot, for one intent that this record alone matches.
Planned ==
    CASE rec.state = "available" /\ Ready(rec.session) -> "bound"
      [] rec.state = "available" /\ ~Ready(rec.session) -> "pending"
      [] OTHER -> "unavailable"

\* mark_provider_session_unavailable and mark_provider_service_unavailable.
Unreachable(ks) ==
    IF rec.session \in ks THEN Record("unavailable", "service_unavailable", rec.session)
    ELSE rec

\* ingest_service_view_payload and _handle_view_payload of provider session k: a
\* view with the action, available or not, a view without it, or no view at all.
Ingested(view, k) ==
    CASE view = "available" -> Record("available", "none", k)
      [] view = "unavailable" -> Record("unavailable", "provider", k)
      [] view = "without" -> IF rec.session = k THEN Record("unavailable", "missing", k) ELSE rec
      [] view = "none" -> IF rec = Unknown THEN rec
                          ELSE Record("unavailable", "missing", rec.session)

----------------------------------------------------------------------------
(* _start_service_watch and _reconcile_service_watchers *)

\* A new watch takes the place of the one there is.
StartWatch ==
    /\ gen < MaxWatches
    /\ gen' = gen + 1 /\ watch' = gen + 1
    /\ cancelled' = cancelled \union ({watch} \ {None})

List ==
    /\ ~listed /\ listed' = TRUE /\ Event
    /\ IF watch # None
       THEN UNCHANGED <<watch, gen, task, cancelled>>
       ELSE StartWatch /\ task' = [task EXCEPT ![gen + 1].ph = "start"]
    /\ UNCHANGED <<uses, lease, rec, plan, behind>>

Unlist ==
    /\ listed /\ listed' = FALSE /\ Event
    /\ UNCHANGED <<uses, watch, gen, task, cancelled, lease, rec, plan, behind>>

----------------------------------------------------------------------------
(* _notify_availability_changed: one session after the other *)

\* The task goes on to tell the sessions, if there is something to tell.
TellIf(w, changed, then) ==
    task' = [task EXCEPT ![w] = IF changed THEN [@ EXCEPT !.ph = then, !.next = 1]
                                ELSE [@ EXCEPT !.ph = then, !.next = MaxSessions + 1]]

Telling(w) ==
    /\ task[w].ph \in {"told", "lost", "failed", "refused"} /\ task[w].next <= MaxSessions
    /\ w \notin cancelled

\* on_action_availability_changed of one session: its page is planned again.
Tells(w) ==
    /\ Telling(w)
    /\ plan' = [plan EXCEPT ![task[w].next] = Planned]
    /\ behind' = behind \ {task[w].next}
    /\ task' = [task EXCEPT ![w].next = @ + 1]
    /\ UNCHANGED <<listed, uses, watch, gen, cancelled, lease, rec, left>>

Told(w) == task[w].next > MaxSessions

\* A page that is turned or configured meanwhile is planned as well.
Replans(s) ==
    /\ Event /\ plan' = [plan EXCEPT ![s] = Planned]
    /\ behind' = behind \ {s}
    /\ UNCHANGED <<listed, uses, watch, gen, task, cancelled, lease, rec>>

\* A provider that rejects a lifecycle message of the session invalidates the
\* record; this session alone plans again.
Rejected(s) ==
    /\ plan[s] = "bound" /\ Ready(rec.session) /\ Event
    /\ rec' = Record("unavailable", "session_invalid", rec.session)
    /\ plan' = [plan EXCEPT ![s] = "unavailable"]
    /\ behind' = (behind \union Sessions) \ {s}
    /\ UNCHANGED <<listed, uses, watch, gen, task, cancelled, lease>>

----------------------------------------------------------------------------
(* _run_service_view_watch *)

Live(w) == w \notin cancelled

Begins(w) ==
    /\ task[w].ph = "start"
    /\ task' = [task EXCEPT ![w].ph = IF watch = w THEN "acquire" ELSE "end"]
    /\ UNCHANGED <<listed, uses, watch, gen, cancelled, lease, rec, plan, left, behind>>

\* use_matching: an agreement is entered, and its lease remembered.
Acquires(w, k) ==
    LET u == uses.made + 1 IN
    /\ task[w].ph = "acquire" /\ Live(w) /\ listed /\ uses.made < MaxUses
    /\ uses' = [made |-> u, held |-> uses.held \union {u}]
    /\ lease' = [lease EXCEPT ![k] = [gen |-> w, use |-> u]]
    /\ task' = [task EXCEPT ![w] = [Idle EXCEPT !.ph = "view", !.use = u, !.key = k]]
    /\ behind' = IF rec.state = "available" /\ rec.session = k THEN Sessions ELSE behind
    /\ UNCHANGED <<listed, watch, gen, cancelled, rec, plan, left>>

\* A payload of the view, and then the sessions are told.
Payload(w, view) ==
    LET k == task[w].key IN
    /\ task[w].ph = "view" /\ Live(w) /\ task[w].use \in uses.held /\ Event
    /\ rec' = Ingested(view, k)
    /\ TellIf(w, rec' # rec, "told")
    /\ lease' = IF view = "none" THEN lease
                ELSE [lease EXCEPT ![k] = [gen |-> w, use |-> task[w].use]]
    /\ UNCHANGED <<listed, uses, watch, gen, cancelled, plan, behind>>

ViewAgain(w) ==
    /\ task[w].ph = "told" /\ Live(w) /\ Told(w)
    /\ task' = [task EXCEPT ![w].ph = "view"]
    /\ UNCHANGED <<listed, uses, watch, gen, cancelled, lease, rec, plan, left, behind>>

\* The agreement ends (external).
UseEnds ==
    /\ Event
    /\ \E u \in uses.held : uses' = [uses EXCEPT !.held = @ \ {u}]
    /\ UNCHANGED <<listed, watch, gen, task, cancelled, lease, rec, plan, behind>>

\* No agreement, or none any more: _mark_generation_unavailable, and then the
\* sessions are told.
UseFails(w) ==
    LET keys == {k \in ProviderSessions : lease[k].gen = w} IN
    /\ Live(w)
    /\ \/ task[w].ph = "acquire" /\ ~listed /\ UNCHANGED left
       \/ task[w].ph = "acquire" /\ listed /\ Event
       \/ task[w].ph = "view" /\ task[w].use \notin uses.held /\ UNCHANGED left
    /\ rec' = Unreachable(IF keys = {} THEN ProviderSessions ELSE keys)
    /\ TellIf(w, rec' # rec, "lost")
    /\ UNCHANGED <<listed, uses, watch, gen, cancelled, lease, plan, behind>>

\* Mutant: whatever lease the session has goes with the use that ended.
DropAny(w) == IF task[w].key = None THEN lease ELSE [lease EXCEPT ![task[w].key] = NoLease]

\* _drop_runtime_lease_for_object.
DropOwn(w) ==
    [k \in ProviderSessions |->
        IF lease[k] = [gen |-> w, use |-> task[w].use] THEN NoLease ELSE lease[k]]

\* Mutant: the watch that ends stays in the table.
LeavesUnpopped(w) ==
    /\ task[w].ph = "lost" /\ Live(w) /\ Told(w)
    /\ lease' = DropOwn(w)
    /\ task' = [task EXCEPT ![w] = [Idle EXCEPT !.ph = IF listed THEN "acquire" ELSE "end"]]
    /\ UNCHANGED <<listed, uses, watch, gen, cancelled, rec, plan, left, behind>>

\* The use is left behind; the watch ends if the service is gone.
Leaves(w) ==
    /\ task[w].ph = "lost" /\ Live(w) /\ Told(w)
    /\ lease' = DropOwn(w)
    /\ task' = [task EXCEPT ![w] = [Idle EXCEPT !.ph = IF listed THEN "acquire" ELSE "end"]]
    /\ watch' = IF ~listed /\ watch = w THEN None ELSE watch
    /\ UNCHANGED <<listed, uses, gen, cancelled, rec, plan, left, behind>>

\* A cancelled watch unwinds wherever it is suspended. The use that it gives up is
\* not marked, and nobody is told.
Unwinds(w) ==
    /\ w \in cancelled /\ task[w].ph \notin {"none", "start", "end"}
    /\ lease' = DropOwn(w)
    /\ uses' = [uses EXCEPT !.held = @ \ {task[w].use}]
    /\ behind' = IF task[w].ph \in {"view", "told"} /\ lease' # lease
                THEN Sessions ELSE behind
    /\ task' = [task EXCEPT ![w] = [Idle EXCEPT !.ph = "end"]]
    /\ watch' = IF watch = w THEN None ELSE watch
    /\ UNCHANGED <<listed, gen, cancelled, rec, plan, left>>

----------------------------------------------------------------------------
(* send_runtime_message and decode_inbound_runtime_message *)

Sends(m, k) ==
    /\ task[m].ph = "none" /\ Ready(k) /\ Event
    /\ task' = [task EXCEPT ![m] = [Idle EXCEPT !.ph = "send", !.use = lease[k].use,
                                               !.key = k, !.gen = lease[k].gen]]
    /\ UNCHANGED <<listed, uses, watch, gen, cancelled, lease, rec, plan, behind>>

\* decode_inbound_runtime_message: the message is authorized by the lease there is,
\* by the task that reads the lane, which has no deadline.
Receives(m, k) ==
    /\ task[m].ph = "none" /\ lease[k] # NoLease /\ Event
    /\ task' = [task EXCEPT ![m] = [Idle EXCEPT !.ph = "receive", !.use = lease[k].use,
                                               !.key = k, !.gen = lease[k].gen]]
    /\ UNCHANGED <<listed, uses, watch, gen, cancelled, lease, rec, plan, behind>>

\* The use is asked to send, or to authorize what was received.
Asking(m) == task[m].ph \in {"send", "receive"}

Sent(m) ==
    /\ Asking(m)
    /\ task' = [task EXCEPT ![m] = Idle]
    /\ UNCHANGED <<listed, uses, watch, gen, cancelled, lease, rec, plan, left, behind>>

\* _drop_runtime_lease: the state the sender took, if it is still the one.
Dropped(m) ==
    IF lease[task[m].key] = [gen |-> task[m].gen, use |-> task[m].use]
    THEN [lease EXCEPT ![task[m].key] = NoLease] ELSE lease

\* Mutant: the sessions are told only when the lease was still the sender's own.
SendFailsUntold(m) ==
    /\ Asking(m) /\ task[m].use \notin uses.held /\ listed
    /\ lease' = Dropped(m)
    /\ rec' = Unreachable({task[m].key})
    /\ StartWatch
    /\ task' = [task EXCEPT ![m] = [@ EXCEPT !.ph = "failed", !.next = MaxSessions + 1],
                            ![gen + 1].ph = "start"]
    /\ UNCHANGED <<listed, uses, plan, left, behind>>

\* It finds that the use has ended: its lease is dropped, the watch starts
\* over, and the sessions are told if the record was not marked before.
SendFails(m) ==
    LET changed == rec' # rec
        failed == [task[m] EXCEPT !.ph = IF @ = "send" THEN "failed" ELSE "refused",
                                  !.next = IF changed THEN 1 ELSE MaxSessions + 1]
    IN /\ Asking(m) /\ task[m].use \notin uses.held
       /\ lease' = Dropped(m)
       /\ rec' = Unreachable({task[m].key})
       /\ behind' = IF watch # None /\ Telling(watch)
                    THEN behind \union (task[watch].next .. MaxSessions) ELSE behind
       /\ IF listed
          THEN StartWatch /\ task' = [task EXCEPT ![m] = failed, ![gen + 1].ph = "start"]
          ELSE /\ watch' = None /\ cancelled' = cancelled \union ({watch} \ {None})
               /\ task' = [task EXCEPT ![m] = failed]
               /\ UNCHANGED gen
       /\ UNCHANGED <<listed, uses, plan, left>>

SendReturns(m) ==
    /\ task[m].ph \in {"failed", "refused"} /\ Told(m)
    /\ task' = [task EXCEPT ![m] = Idle]
    /\ UNCHANGED <<listed, uses, watch, gen, cancelled, lease, rec, plan, left, behind>>

\* The sender is an effect: its deadline, or the end of the session that it belongs
\* to, cancels it wherever it is.
SenderTimesOut(m) ==
    /\ task[m].ph \in {"send", "failed"} /\ Event
    /\ task' = [task EXCEPT ![m] = Idle]
    /\ behind' = IF Telling(m) THEN behind \union (task[m].next .. MaxSessions) ELSE behind
    /\ UNCHANGED <<listed, uses, watch, gen, cancelled, lease, rec, plan>>

WatchStep(w) ==
    \/ Begins(w) \/ ViewAgain(w) \/ UseFails(w) \/ Leaves(w) \/ Unwinds(w)
    \/ \E k \in ProviderSessions : Acquires(w, k)

\* What tasks do that are not waiting for anybody.
Working ==
    \/ \E w \in Watches : WatchStep(w)
    \/ \E m \in Senders : SendFails(m) \/ SendReturns(m)
    \/ \E w \in Tasks : Tells(w)

Next ==
    \/ Working \/ List \/ Unlist \/ UseEnds
    \/ \E w \in Watches, view \in Views : Payload(w, view)
    \/ \E m \in Senders : \/ Sent(m) \/ SenderTimesOut(m)
                         \/ \E k \in ProviderSessions : Sends(m, k) \/ Receives(m, k)
    \/ \E s \in Sessions : Replans(s) \/ Rejected(s)

Spec == Init /\ [][Next]_vars

\* Tasks make progress; between two events of the service their steps are finitely
\* many, so it is enough that some of them goes on.
FairSpec == Spec /\ WF_vars(Working)

----------------------------------------------------------------------------
Active(w) == task[w].ph \notin {"none", "start", "end"} /\ Live(w)

\* One watch at a time works on the service, and a provider session that it uses
\* has its lease: what an older watch leaves behind never takes it away.
OneWatch ==
    /\ \A w \in Watches : Active(w) => watch = w
    /\ \A w \in Watches : (Active(w) /\ task[w].use \in uses.held) =>
            lease[task[w].key] = [gen |-> w, use |-> task[w].use]

\* A service that stays listed is watched in the end, by a task that goes on.
Watched == <>[]listed => <>[](watch # None /\ task[watch].ph # "end")

Quiet ==
    /\ \A w \in Tasks : task[w].ph \in {"none", "view", "end", "acquire", "start"}
    /\ \A w \in Watches : task[w].ph = "view" => task[w].use \in uses.held

\* When nothing is under way, each session's page stands on what is known now,
\* except for sessions that were left behind: a rejected message is told to its own
\* session alone, and a task that is cancelled tells nobody any more.
SessionsKnow == Quiet => \A s \in Sessions \ behind : plan[s] = Planned

\* Bindings do not outlive the agreement: when nothing is under way, no session
\* has the action bound while its provider session has no authority.
RevokedWithTheAgreement ==
    Quiet => \A s \in Sessions : plan[s] = "bound" => \E k \in ProviderSessions : Ready(k)
==============================================================================
