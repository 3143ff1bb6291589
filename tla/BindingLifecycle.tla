--------------------------- MODULE BindingLifecycle ---------------------------
(****************************************************************************)
(* The bindings of one device session: what the reconciler, the installer,  *)
(* the attachment state, the input router and the action-instance records   *)
(* do to each other, and what the action provider gets to see.              *)
(*                                                                          *)
(* Every handler runs its transition inside the session boundary without    *)
(* suspending, so a handler is one action here (StateGate: MutualExclusion).*)
(* Adapter work leaves the boundary through the effects of an action        *)
(* instance, first in first out (SessionEffects: ImplementsReserves); a     *)
(* preparation is the one effect that comes back to the boundary, several   *)
(* times, and everything else acts between its sections.                    *)
(*                                                                          *)
(* One external action is bound to every control.  Its availability, its    *)
(* provider session and the agreement with it change at any time.           *)
(****************************************************************************)
EXTENDS BindingDecision, Integers, Sequences, SequencesExt, FiniteSetsExt

CONSTANTS
    Pages,          \* pages the session may show
    ControlsOf,     \* ControlsOf[p]: the controls page p binds, in plan order
    Controls,       \* all of them
    InstanceOf,     \* InstanceOf[p][c]: the action instance of that binding
    Instances,
    MaxBindings,    \* bound on the bindings alive or remembered at one time
    SessionOf,      \* SessionOf[a]: the provider session of agreement a
    Capacity,       \* the reserve of SessionEffects,
    CleanupCapacity,\*   and its reserve for cleanup
    Scenarios       \* the pages shown, and the kinds of outside events that happen,
                    \*   in one behaviour (bounds a run)

None == 0
Ids == 1..MaxBindings
Agreements == DOMAIN SessionOf

\* "stall": an effect runs into its deadline, having waited for the boundary.
Kinds == {"config", "catalog", "agreement", "hardware", "rejection", "loss", "stall"}

ASSUME LifecycleAssumption ==
    /\ {MaxBindings, Capacity, CleanupCapacity} \subseteq Nat \ {0}
    /\ IsFiniteSet(Controls) /\ IsFiniteSet(Instances)
    /\ None \notin Controls \union Instances \union Pages
    /\ SessionOf \in Seq(Nat \ {None}) /\ SessionOf # <<>>
    /\ \A x \in Scenarios : x.kinds \subseteq Kinds /\ x.pages \subseteq Pages
    /\ \A g \in Pages : ControlsOf[g] \in Seq(Controls) /\ IsInjective(ControlsOf[g])
    /\ \A g \in Pages, c \in Controls : InstanceOf[g][c] \in Instances

VARIABLES
    s,          \* the device session: DeviceState and its collaborators
    at,         \* at[i]: how far the preparation at the head of i's queue is
    offer,      \* what the planning snapshot says of the action
    listed,     \* the provider session the catalog lists it under
    agreed,     \* the latest agreement with the provider, and whether it is live
    notice,     \* an availability notification is on its way to the session
    hw,         \* the hardware claim the session was opened with is current
    p,          \* what the provider has seen under the current agreement
    scenario    \* what may happen in this behaviour

vars == <<s, at, offer, listed, agreed, notice, hw, p, scenario>>

May(kind) == kind \in scenario.kinds

agreement == IF agreed.live THEN agreed.last ELSE None

\* s.lease[b] and s.rec[i] keep what closures of queued effects refer to.
NoLease == [ctl |-> None, page |-> None, inst |-> None, contract |-> None,
            attached |-> FALSE, ready |-> FALSE, recoveries |-> 0]
NoRecord == [meta |-> None, session |-> None, contract |-> None, started |-> FALSE]

\* The provider under a new agreement: it has seen nothing.
FreshProvider ==
    [created |-> {}, attached |-> {}, pressed |-> {}]

Init ==
    /\ s = [stored     |-> <<>>,      \* binding_leases, in insertion order
            lease      |-> [b \in Ids |-> NoLease],
            status     |-> [b \in Ids |-> "none"],
            input      |-> [c \in Controls |-> None],  \* active_input_by_control
            authority  |-> {},        \* command_authority_by_binding
            held       |-> [c \in Controls |-> None],  \* held_input_bindings
            suppressed |-> {},        \* _suppressed_release_keys
            ops        |-> {},        \* operations: <<operation, binding>>
            deferred   |-> {},        \* _deferred_bindings: <<binding, restart>>
            wake       |-> FALSE,     \* when_capacity_available was called
            rec        |-> [i \in Instances |-> NoRecord],  \* _instances
            queue      |-> [i \in Instances |-> <<>>],
            page       |-> None,      \* the page of the committed plan
            stopped    |-> FALSE,
            recovery   |-> FALSE,     \* the catalog's lifecycle-recovery request
            lossy      |-> {}]        \* bindings with a cleanup effect refused or lost
    /\ at = [i \in Instances |-> "begin"]
    /\ offer = "bound" /\ listed = SessionOf[1] /\ agreed = [last |-> 1, live |-> TRUE]
    /\ notice = FALSE /\ hw = TRUE
    /\ p = FreshProvider
    /\ scenario \in Scenarios

----------------------------------------------------------------------------
(* The effects of the session *)

Effect(kind, b, op, restart, meta, contract) ==
    [kind |-> kind, b |-> b, op |-> op, restart |-> restart, meta |-> meta,
     contract |-> contract]

Of(kind, b) == Effect(kind, b, None, FALSE, None, None)

Cleanup == {"cancel", "detach", "destroy"}

Ordinary == {"prepare", "down", "up"}

IsCleanup(e) == e.kind \in Cleanup

\* Where effects are queued.
Places(t) == UNION {{i} \X DOMAIN t.queue[i] : i \in Instances}

Load(t, kinds) == Cardinality({x \in Places(t) : t.queue[x[1]][x[2]].kind \in kinds})

Room(t, e) ==
    IF IsCleanup(e) THEN Load(t, Cleanup) < CleanupCapacity ELSE Load(t, Ordinary) < Capacity

Submit(t, i, e) ==
    IF Room(t, e) THEN [t EXCEPT !.queue[i] = Append(@, e)]
    ELSE IF IsCleanup(e) THEN [t EXCEPT !.lossy = @ \union {e.b}]
    ELSE t

Queued(t) == UNION {ToSet(t.queue[i]) : i \in Instances}

\* Identities are fresh: not those of anything still referred to.
FreeIds(t) ==
    {b \in Ids : /\ ~Contains(t.stored, b)
                 /\ \A e \in Queued(t) : e.b # b
                 /\ b \notin p.attached \union p.pressed}

\* The least number not in use.
Fresh(used) == Min((1..(Cardinality(used) + 1)) \ used)

FreshOp(t) == Fresh({o[1] : o \in t.ops} \union {e.op : e \in Queued(t)})

FreshMeta(t) == Fresh({t.rec[i].meta : i \in Instances} \union {e.meta : e \in Queued(t)})

----------------------------------------------------------------------------
(* Authority and revocation (_attachments.py, _input.py, _reconcile.py) *)

\* current_contract for a provider session.
CurrentContract(session) ==
    IF agreement # None /\ SessionOf[agreement] = session THEN agreement ELSE None

UsesCurrentContract(l) == l.contract = agreement

SessionOfLease(l) == SessionOf[l.contract]

HardwareCurrent(t) == hw /\ ~t.stopped

Enable(t, b) ==
    [t EXCEPT !.input[t.lease[b].ctl] = b, !.authority = @ \union {b}]

Disable(t, b) ==
    LET c == t.lease[b].ctl IN
    [t EXCEPT !.input[c] = IF @ = b THEN None ELSE @, !.authority = @ \ {b}]

\* The held interaction of b ends here, and its release will be ignored.
CancelHeld(t, b) ==
    LET c == t.lease[b].ctl
        u == [t EXCEPT !.held[c] = None, !.suppressed = @ \union {c}]
    IN IF t.held[c] # b THEN t
       ELSE IF ~t.lease[b].attached THEN u
       ELSE Submit(u, t.lease[b].inst, Of("cancel", b))

\* Mutant: the operation of a retired binding stays in the ledger.
RetireKeepsOperation(t, b) ==
    [t EXCEPT !.deferred = {d \in @ : d[1] # b}, !.status[b] = "retired"]

Retire(t, b) ==
    [t EXCEPT !.deferred = {d \in @ : d[1] # b},
              !.ops = {o \in @ : o[2] # b},
              !.status[b] = "retired"]

\* Mutant: the lease is removed but the routes that point to it are left.
RevokeKeepsRoute(t, b, notify) ==
    LET u == CancelHeld(Retire(t, b), b)
        v == [u EXCEPT !.stored = RemoveFirst(@, b)]
        l == t.lease[b]
    IN IF ~Contains(t.stored, b) THEN t
       ELSE IF l.attached /\ notify THEN Submit(v, l.inst, Of("detach", b)) ELSE v

\* Mutant: the detach overtakes the cancellation of the held input.
RevokeDetachFirst(t, b, notify) ==
    LET l == t.lease[b]
        u == Disable(Retire(t, b), b)
        v == IF l.attached /\ notify THEN Submit(u, l.inst, Of("detach", b)) ELSE u
        w == CancelHeld(v, b)
    IN IF ~Contains(t.stored, b) THEN t ELSE [w EXCEPT !.stored = RemoveFirst(@, b)]

\* _revoke_binding, with the held input cleared.
Revoke(t, b, notify) ==
    LET u == CancelHeld(Disable(Retire(t, b), b), b)
        v == [u EXCEPT !.stored = RemoveFirst(@, b)]
        l == t.lease[b]
    IN IF ~Contains(t.stored, b) THEN t
       ELSE IF l.attached /\ notify THEN Submit(v, l.inst, Of("detach", b)) ELSE v

RevokeExcept(t, kept) ==
    FoldLeft(LAMBDA u, b : IF b \in kept THEN u ELSE Revoke(u, b, TRUE), t, t.stored)

\* The provider that gave the bindings of S up need not be told.
RevokeQuietly(t, S) ==
    FoldLeft(LAMBDA u, b : IF b \in S THEN Revoke(u, b, FALSE) ELSE u, t, t.stored)

----------------------------------------------------------------------------
(* Action instances (_action_lifecycle.py) *)

\* The record is reused while it was made under what is the contract of its
\* session now; else a fresh, unstarted one replaces it.
Reserve(t, i, session) ==
    LET r == t.rec[i] IN
    IF r.meta # None /\ r.session = session /\ r.contract = CurrentContract(session)
      THEN t
      ELSE [t EXCEPT !.rec[i] = [meta |-> FreshMeta(t), session |-> session,
                                 contract |-> CurrentContract(session),
                                 started |-> FALSE]]

IsCurrentInstance(t, i, meta) ==
    t.rec[i].meta = meta /\ t.rec[i].contract = CurrentContract(t.rec[i].session)

Destroy(t, i, notify) ==
    LET r == t.rec[i]
        u == [t EXCEPT !.rec[i] = NoRecord]
    IN IF /\ r.meta # None /\ notify
          /\ r.contract # None /\ CurrentContract(r.session) = r.contract
         THEN Submit(u, i, Effect("destroy", None, None, FALSE, r.meta, r.contract))
         ELSE u

DestroyAll(t) == FoldSet(LAMBDA i, u : Destroy(u, i, TRUE), t, Instances)

----------------------------------------------------------------------------
(* Installation (_installation.py) *)

HasOperation(t, b) == \E o \in t.ops : o[2] = b

\* Mutant: nobody asks to be told when there is room again.
RefusedQuietly(t, b, restart) ==
    [t EXCEPT !.status[b] = "unavailable",
              !.deferred = @ \union {<<b, restart>>}]

\* The preparation of b was refused: it waits for capacity.
Refused(t, b, restart) ==
    [t EXCEPT !.status[b] = "unavailable",
              !.deferred = @ \union {<<b, restart>>},
              !.wake = TRUE]

\* _activate_binding: an attached and ready binding gets its authority back; a
\* binding with an operation is left alone; else a preparation is submitted, or
\* deferred when it is refused.
Activate(t, b, force) ==
    LET restart == force \/ <<b, TRUE>> \in t.deferred
        l == t.lease[b]
        r == Reserve(t, l.inst, SessionOfLease(l))
        meta == r.rec[l.inst].meta
        op == FreshOp(t)
        u == [r EXCEPT !.rec[l.inst].started = @ /\ ~restart,
                       !.lease[b].ready = FALSE,
                       !.deferred = {d \in @ : d[1] # b}]
        e == Effect("prepare", b, op, restart, meta, None)
    IN IF l.attached /\ l.ready /\ ~restart THEN Enable(t, b)
       ELSE IF HasOperation(t, b) THEN t
       ELSE IF Room(u, e)
         THEN Submit([u EXCEPT !.ops = @ \union {<<op, b>>},
                               !.status[b] = "preparing"], l.inst, e)
         ELSE Refused(u, b, restart)

ActivateAll(t, waiting) == FoldLeft(LAMBDA u, d : Activate(u, d[1], d[2]), t, waiting)

\* The first of the installed bindings in S.
First(t, S) ==
    LET places == {k \in DOMAIN t.stored : t.stored[k] \in S}
    IN IF places = {} THEN None ELSE t.stored[Min(places)]

\* The installed bindings that fit the plan of page g for control c.
Existing(t, g, c) ==
    {b \in ToSet(t.stored) :
        /\ t.lease[b].ctl = c /\ t.lease[b].page = g
        /\ SessionOfLease(t.lease[b]) = listed}

\* _try_resolve_binding: without an agreement there is no binding; with one, a
\* lease is made under it and activated.
TryResolve(t, g, c) ==
    LET b == Min(FreeIds(t))
        u == [t EXCEPT !.stored = Append(@, b),
                       !.status[b] = "none",
                       !.lossy = @ \ {b},
                       !.lease[b] = [NoLease EXCEPT !.ctl = c, !.page = g,
                                       !.inst = InstanceOf[g][c],
                                       !.contract = agreement]]
    IN IF CurrentContract(listed) = None THEN t ELSE Activate(u, b, FALSE)

\* _install_planned_binding.
Install(t, g, c) ==
    IF offer # "bound" THEN t
    ELSE IF Existing(t, g, c) # {} THEN Activate(t, First(t, Existing(t, g, c)), FALSE)
    ELSE TryResolve(t, g, c)

\* Bindings are installed only while identities are left for every control.
CanInstall == Cardinality(FreeIds(s)) >= Cardinality(Controls)

InstallPage(t, g) == FoldLeft(LAMBDA u, c : Install(u, g, c), t, ControlsOf[g])

(****************************************************************************)
(* _apply_page_commit: the bindings of the page that is left are revoked,   *)
(* but those that fit the arriving plan of the same page; then every        *)
(* planned binding is installed.                                            *)
(****************************************************************************)
CommitPage(t, g) ==
    LET kept == IF offer = "bound"
                  THEN UNION {Existing(t, g, c) : c \in ToSet(ControlsOf[g])}
                  ELSE {}
        left == IF t.page = None THEN t ELSE RevokeExcept(t, kept)
    IN InstallPage([left EXCEPT !.page = g], g)

----------------------------------------------------------------------------
(* Availability (_availability_reconcile.py) *)

\* binding_for_control.
BindingFor(t, c) ==
    IF t.input[c] # None THEN t.input[c]
    ELSE First(t, {b \in ToSet(t.stored) : t.lease[b].ctl = c})

FactsOf(t, b) ==
    LET l == t.lease[b]
        same == offer = "bound" /\ SessionOfLease(l) = listed
    IN [same_action |-> offer = "bound", same_session |-> same,
        same_requirements |-> same,
        current_agreement |-> UsesCurrentContract(l),
        successor_available |-> CurrentContract(SessionOfLease(l)) # None,
        recovery_requested |-> t.recovery /\ same]

\* _reconcile_binding for control c of the current page.
Reconcile(t, c) ==
    LET b == BindingFor(t, c)
        input == IF b = None THEN NotInstalled
                 ELSE [installed |-> TRUE, facts |-> FactsOf(t, b)]
        d == Decide(offer, input)
        u == IF d.retire THEN Revoke(t, b, d.notify) ELSE t
        recovers == input.installed /\ input.facts.recovery_requested
    IN CASE d.change \in {"install", "replace"} ->
              [Install(u, t.page, c) EXCEPT !.recovery = @ /\ ~recovers]
         [] d.change = "refresh"                -> Activate(u, b, FALSE)
         [] OTHER                               -> u

----------------------------------------------------------------------------
(* Handlers of the session: each is one section of the boundary *)

environment == <<offer, listed, agreed, notice, hw, scenario>>

\* on_action_availability_changed: every control of the current page.
Notified(t) ==
    IF t.stopped \/ t.page = None THEN t
    ELSE FoldLeft(Reconcile, t, ControlsOf[t.page])

AvailabilityChanged ==
    /\ notice /\ CanInstall
    /\ notice' = FALSE
    /\ s' = Notified(s)
    /\ UNCHANGED <<at, offer, listed, agreed, hw, p, scenario>>

ShowPage(g) ==
    /\ g \in scenario.pages /\ ~s.stopped /\ CanInstall
    /\ s' = CommitPage(s, g)
    /\ UNCHANGED <<at, environment, p>>

\* cancel_inputs, revoke_bindings and destroy_all_action_instances.
ClearPage(t) ==
    LET u == FoldLeft(LAMBDA v, b : CancelHeld(v, b), t, t.stored)
    IN [DestroyAll(RevokeExcept(u, {})) EXCEPT !.page = None]

\* on_config_changed: a replacement starts over on page g, a removal on none.
ReplaceConfig(g) ==
    /\ May("config") /\ g \in scenario.pages
    /\ ~s.stopped /\ CanInstall
    /\ s' = InstallPage([ClearPage(s) EXCEPT !.page = g], g)
    /\ UNCHANGED <<at, environment, p>>

RemoveConfig ==
    /\ May("config")
    /\ ~s.stopped
    /\ s' = ClearPage(s)
    /\ UNCHANGED <<at, environment, p>>

\* aclose.
Stop ==
    /\ May("config")
    /\ ~s.stopped
    /\ s' = [ClearPage([s EXCEPT !.stopped = TRUE]) EXCEPT !.ops = {}]
    /\ UNCHANGED <<at, environment, p>>

\* Mutant: a release that finds the reserve full is simply dropped.
PressOnly(t, b, event) ==
    LET c == t.lease[b].ctl
        u == IF event = "down" THEN [t EXCEPT !.held[c] = b] ELSE t
    IN IF Room(u, Of(event, b)) THEN Submit(u, t.lease[b].inst, Of(event, b)) ELSE t

\* _deliver_input_to_lease.
Deliver(t, b, event) ==
    LET i == t.lease[b].inst
        u == IF event = "down" THEN [t EXCEPT !.held[t.lease[b].ctl] = b] ELSE t
    IN IF Room(u, Of(event, b)) THEN Submit(u, i, Of(event, b))
       ELSE IF event = "up" THEN Submit(CancelHeld(u, b), i, Of("cancel", b))
       ELSE CancelHeld(u, b)

\* active_input_for_event: a press goes to the ready binding of the control and
\* may be released again; a release goes, once, to what was pressed.
Pressed(t, c) ==
    IF t.input[c] # None /\ t.lease[t.input[c]].ready THEN t.input[c] ELSE None
Taken(t, c) == [t EXCEPT !.held[c] = None, !.suppressed = @ \union {c}]

Press(c) ==
    /\ HardwareCurrent(s)
    /\ LET t == [s EXCEPT !.suppressed = @ \ {c}]
           b == Pressed(s, c)
       IN s' = IF b # None THEN Deliver(t, b, "down") ELSE t
    /\ UNCHANGED <<at, environment, p>>

Release(c) ==
    /\ HardwareCurrent(s)
    /\ c \notin s.suppressed /\ s.held[c] # None
    /\ s' = IF Contains(s.stored, s.held[c]) THEN Deliver(Taken(s, c), s.held[c], "up")
            ELSE Taken(s, c)
    /\ UNCHANGED <<at, environment, p>>

----------------------------------------------------------------------------
(* What the provider answers (_commands.py, _lifecycle_rejections.py) *)

\* binding_command_authorized.
HasAuthority(b) == Contains(s.stored, b) /\ s.lease[b].attached /\ b \in s.authority

\* _authorize_action_command: the binding may command, and the message, sent
\* under the agreement of its grant, comes under the agreement of now.
CommandAuthorized(b) == HasAuthority(b) /\ UsesCurrentContract(s.lease[b])

\* handle_action_command.
Authorized(b) == CommandAuthorized(b) /\ ~s.stopped

\* A command under an agreement that another one of the session has replaced:
\* recover_binding_provider_session_contract.
StaleCommand(b) ==
    /\ May("agreement")
    /\ HasAuthority(b) /\ ~s.stopped /\ CanInstall
    /\ CurrentContract(SessionOfLease(s.lease[b])) \notin {None, s.lease[b].contract}
    /\ s' = Notified(s)
    /\ UNCHANGED <<at, environment, p>>

\* recover_binding_lifecycle: the instance is restarted, once per binding.
Recovered(b) ==
    LET t == [s EXCEPT !.lease[b].recoveries = @ + 1]
    IN IF s.lease[b].recoveries >= 1 \/ s.rec[s.lease[b].inst].meta = None THEN s
       ELSE IF HardwareCurrent(s) THEN Activate(t, b, TRUE) ELSE t

\* A stale_lifecycle rejection.
StaleRejected(b) ==
    /\ May("rejection") /\ Authorized(b)
    /\ s' = Recovered(b)
    /\ UNCHANGED <<at, environment, p>>

\* A terminal rejection of a binding.
BindingRejected(b) ==
    /\ May("rejection")
    /\ Authorized(b)
    /\ s' = Revoke(s, b, FALSE)
    /\ p' = [p EXCEPT !.attached = @ \ {b}, !.pressed = @ \ {b}]
    /\ UNCHANGED <<at, environment>>

\* _action_instance_rejection_authorized.
InstanceAuthorized(i) ==
    /\ s.rec[i].meta # None /\ s.rec[i].contract # None
    /\ IsCurrentInstance(s, i, s.rec[i].meta)

\* A terminal rejection of an action instance.
InstanceRejected(i) ==
    /\ May("rejection")
    /\ ~s.stopped /\ InstanceAuthorized(i)
    /\ LET of == {b \in Ids : s.lease[b].inst = i}
       IN /\ s' = Destroy(RevokeQuietly(s, of), i, FALSE)
          /\ p' = [p EXCEPT !.created = @ \ {i},
                            !.attached = @ \ of,
                            !.pressed = @ \ of]
    /\ UNCHANGED <<at, environment>>

----------------------------------------------------------------------------
(* The effects run *)

HeadIs(i, kinds) == s.queue[i] # <<>> /\ Head(s.queue[i]).kind \in kinds

Pop(t, i) == [t EXCEPT !.queue[i] = Tail(@)]

OperationCurrent(e) == ~s.stopped /\ <<e.op, e.b>> \in s.ops

\* Mutant: the agreement is not looked at again.
PreparationCurrentAnyContract(e) ==
    /\ OperationCurrent(e) /\ Contains(s.stored, e.b) /\ HardwareCurrent(s)

PreparationCurrent(e) ==
    /\ OperationCurrent(e) /\ Contains(s.stored, e.b)
    /\ UsesCurrentContract(s.lease[e.b]) /\ HardwareCurrent(s)

\* What becomes of a message: it arrives and is known to, it arrives but the
\* sender sees a failure, or it is lost.
Outcomes == IF May("loss") THEN {"sent", "uncertain", "lost"} ELSE {"sent"}

\* Mutant: a failed send is taken for a success.
AnyOutcome(o, stage) == stage

\* Where the preparation goes on after a send.
AfterSend(o, stage) == IF o = "sent" THEN stage ELSE "end"

\* _prepare_binding up to the creation of the instance, which is skipped when
\* the instance has been started and no restart is asked for.
PrepareBegins(i) ==
    /\ HeadIs(i, {"prepare"}) /\ at[i] = "begin"
    /\ LET e == Head(s.queue[i])
           started == s.rec[i].meta = e.meta /\ s.rec[i].started
           sends == IsCurrentInstance(s, i, e.meta) /\ s.rec[i].contract # None
       IN IF ~PreparationCurrent(e)
            THEN at' = [at EXCEPT ![i] = "end"] /\ UNCHANGED p
          ELSE IF started /\ ~e.restart
            THEN at' = [at EXCEPT ![i] = "accept"] /\ UNCHANGED p
          ELSE IF ~sends
            THEN at' = [at EXCEPT ![i] = "end"] /\ UNCHANGED p
          ELSE \E o \in Outcomes :
                 /\ at' = [at EXCEPT ![i] = AfterSend(o, "accept")]
                 /\ p' = [p EXCEPT !.created = IF o = "lost" THEN @ ELSE @ \union {i}]
    /\ UNCHANGED <<s, environment>>

\* accept_instance_started.
Accepted(i, meta) ==
    IF IsCurrentInstance(s, i, meta) THEN [s EXCEPT !.rec[i].started = TRUE] ELSE s

\* The creation is accepted, the attachment granted and its message sent.
PrepareAccepts(i) ==
    /\ HeadIs(i, {"prepare"}) /\ at[i] = "accept"
    /\ LET e == Head(s.queue[i])
           t == Accepted(i, e.meta)
       IN IF ~PreparationCurrent(e)
            THEN s' = t /\ at' = [at EXCEPT ![i] = "end"] /\ UNCHANGED p
          ELSE \E o \in Outcomes :
                 /\ s' = Enable([t EXCEPT !.lease[e.b].attached = TRUE], e.b)
                 /\ at' = [at EXCEPT ![i] = AfterSend(o, "ready")]
                 /\ p' = [p EXCEPT !.attached = IF o = "lost" THEN @ ELSE @ \union {e.b}]
    /\ UNCHANGED environment

\* The attachment has completed: the binding is active.
PrepareCompletes(i) ==
    /\ HeadIs(i, {"prepare"}) /\ at[i] = "ready"
    /\ LET e == Head(s.queue[i])
       IN s' = IF ~PreparationCurrent(e) THEN s
               ELSE [s EXCEPT !.lease[e.b].ready = TRUE, !.status[e.b] = "active",
                              !.ops = @ \ {<<e.op, e.b>>}]
    /\ at' = [at EXCEPT ![i] = "end"]
    /\ UNCHANGED <<environment, p>>

\* except and finally: a preparation that failed or was cut short while its
\* operation is current revokes the binding.
PrepareEnds(i) ==
    /\ HeadIs(i, {"prepare"}) /\ at[i] = "end"
    /\ LET e == Head(s.queue[i])
           t == IF OperationCurrent(e) /\ ~s.lease[e.b].ready THEN Revoke(s, e.b, TRUE)
                ELSE s
       IN s' = Pop([t EXCEPT !.ops = @ \ {<<e.op, e.b>>}], i)
    /\ at' = [at EXCEPT ![i] = "begin"]
    /\ UNCHANGED <<environment, p>>

\* The deadline of _run passes before the preparation is done (its inner
\* timeouts do not count the waits for the boundary): it is cancelled, and its
\* finally is, too, when it enters the boundary.
PreparationExpires(i) ==
    /\ May("stall")
    /\ HeadIs(i, {"prepare"})
    /\ s' = Pop(s, i)
    /\ at' = [at EXCEPT ![i] = "begin"]
    /\ UNCHANGED <<environment, p>>

\* _send_input: a press needs its grant and the hardware still, and nothing
\* crosses to another agreement.
MaySend(e) ==
    /\ UsesCurrentContract(s.lease[e.b])
    /\ e.kind = "down" => /\ HardwareCurrent(s) /\ s.lease[e.b].ready
                          /\ Contains(s.stored, e.b)

SendInput(i) ==
    /\ HeadIs(i, {"down", "up", "cancel"})
    /\ LET e == Head(s.queue[i])
       IN \/ /\ ~MaySend(e)
             /\ s' = Pop(s, i) /\ UNCHANGED p
          \/ /\ MaySend(e)
             /\ s' = Pop(s, i)
             /\ p' = [p EXCEPT !.pressed = IF e.kind = "down" THEN @ \union {e.b}
                                                              ELSE @ \ {e.b}]
          \/ /\ MaySend(e) /\ May("loss")
             /\ s' = [Pop(s, i) EXCEPT !.lossy = IF e.kind = "down" THEN @ ELSE @ \union {e.b}]
             /\ UNCHANGED p
    /\ UNCHANGED <<at, environment>>

SendDetach(i) ==
    /\ HeadIs(i, {"detach"})
    /\ LET e == Head(s.queue[i])
           current == UsesCurrentContract(s.lease[e.b])
       IN \/ /\ s' = Pop(s, i)
             /\ p' = IF current THEN [p EXCEPT !.attached = @ \ {e.b}] ELSE p
          \/ /\ current /\ May("loss")
             /\ s' = [Pop(s, i) EXCEPT !.lossy = @ \union {e.b}]
             /\ UNCHANGED p
    /\ UNCHANGED <<at, environment>>

SendDestroy(i) ==
    /\ HeadIs(i, {"destroy"})
    /\ s' = Pop(s, i)
    /\ \/ p' = IF Head(s.queue[i]).contract = agreement
                 THEN [p EXCEPT !.created = @ \ {i}] ELSE p
       \/ May("loss") /\ UNCHANGED p
    /\ UNCHANGED <<at, environment>>

\* _resume_deferred_preparations, called back when an effect has ended; the reserve may
\* be full again when it runs.
Resume ==
    /\ s.wake
    /\ LET t == [s EXCEPT !.wake = FALSE, !.deferred = {}]
           live == {d \in s.deferred : UsesCurrentContract(s.lease[d[1]])}
       IN IF ~HardwareCurrent(s) THEN s' = t
          ELSE \E order \in SetToSeqs(live) :
                 s' = ActivateAll(t, order)
    /\ UNCHANGED <<at, environment, p>>

----------------------------------------------------------------------------
(* The world outside: hardware, agreement, catalog *)

HardwareLost ==
    /\ May("hardware")
    /\ hw /\ hw' = FALSE
    /\ UNCHANGED <<s, at, offer, listed, agreed, notice, p, scenario>>

\* Agreements are not used twice; the provider starts afresh under each.
AgreementEnds ==
    /\ May("agreement")
    /\ agreed.live
    /\ agreed' = [agreed EXCEPT !.live = FALSE]
    /\ p' = FreshProvider
    /\ UNCHANGED <<s, at, offer, listed, notice, hw, scenario>>

AgreementBegins(a) ==
    /\ May("agreement")
    /\ a > agreed.last
    /\ agreed' = [last |-> a, live |-> TRUE]
    /\ p' = FreshProvider
    /\ UNCHANGED <<s, at, offer, listed, notice, hw, scenario>>

\* The catalog takes in a provider's view or marks it unavailable, and tells
\* the session; an action that comes back may need a lifecycle recovery.
CatalogChanges(o) ==
    /\ May("catalog")
    /\ offer # o \/ (o = "bound" /\ listed # SessionOf[agreed.last])
    /\ offer' = o
    /\ o = "bound" => agreed.live
    /\ listed' = IF o = "bound" THEN SessionOf[agreed.last] ELSE listed
    /\ notice' = TRUE
    /\ \E r \in (IF offer = "unavailable" /\ o = "bound" THEN BOOLEAN ELSE {s.recovery}) :
         s' = [s EXCEPT !.recovery = r]
    /\ UNCHANGED <<at, agreed, hw, p, scenario>>

\* An agreement renewed within the session is announced as well.
Renewed ==
    /\ May("agreement")
    /\ ~notice /\ notice' = TRUE
    /\ UNCHANGED <<s, at, offer, listed, agreed, hw, p, scenario>>

RunEffect(i) ==
    \/ PrepareBegins(i) \/ PrepareAccepts(i) \/ PrepareCompletes(i) \/ PrepareEnds(i)
    \/ SendInput(i) \/ SendDetach(i) \/ SendDestroy(i)

Next ==
    \/ \E g \in Pages : ShowPage(g) \/ ReplaceConfig(g)
    \/ AvailabilityChanged \/ RemoveConfig \/ Stop \/ Resume
    \/ \E c \in Controls : Press(c) \/ Release(c)
    \/ \E b \in Ids : StaleRejected(b) \/ BindingRejected(b) \/ StaleCommand(b)
    \/ \E i \in Instances : InstanceRejected(i) \/ RunEffect(i) \/ PreparationExpires(i)
    \/ HardwareLost \/ AgreementEnds \/ \E a \in Agreements : AgreementBegins(a)
    \/ \E o \in {"bound", "pending", "unavailable"} : CatalogChanges(o)
    \/ Renewed

Spec == Init /\ [][Next]_vars

----------------------------------------------------------------------------
(* Properties *)

Stored == ToSet(s.stored)

\* The session's maps stay within their domains, the queues within their
\* reserves, and only a preparation at the head of a queue is under way.
TypeOK ==
    /\ Stored \subseteq Ids /\ Len(s.stored) = Cardinality(Stored)
    /\ \A b \in Stored : s.lease[b].ctl \in Controls /\ s.lease[b].contract \in Agreements
    /\ s.authority \subseteq Ids /\ s.suppressed \subseteq Controls
    /\ s.ops \subseteq Nat \X Ids /\ s.deferred \subseteq Ids \X BOOLEAN
    /\ Load(s, Ordinary) <= Capacity /\ Load(s, Cleanup) <= CleanupCapacity
    /\ \A i \in Instances : at[i] # "begin" => HeadIs(i, {"prepare"})
    /\ p.created \subseteq Instances /\ p.attached \union p.pressed \subseteq Ids

\* A control has at most one binding, across page changes, replacements and
\* reconciliations that do not know of each other (matching_existing,
\* binding_for_control).
OneBindingPerControl ==
    \A b, d \in Stored : s.lease[b].ctl = s.lease[d].ctl => b = d

\* Whatever routes an input, admits a command or owns a held interaction is an
\* attached lease that is still stored, on the control it is routed for, and the
\* control has no other (disable_binding_authority and cancel_held_inputs in every revocation).
RoutesPointToLeases ==
    /\ \A b \in s.authority : b \in Stored /\ s.lease[b].attached
    /\ \A c \in Controls :
         /\ s.input[c] # None => s.input[c] \in s.authority /\ s.lease[s.input[c]].ctl = c
         /\ s.held[c] # None => s.held[c] \in Stored /\ s.lease[s.held[c]].ctl = c
    /\ OneBindingPerControl

\* A binding shown as preparing has a preparation outstanding: one operation in
\* the ledger and an effect queued for it (architecture.md, the state table).
PreparingIsOutstanding ==
    \A b \in Stored : s.status[b] = "preparing" =>
        \E o \in s.ops, e \in Queued(s) :
            o[2] = b /\ e.kind = "prepare" /\ e.op = o[1]

\* And the other way round: an operation in the ledger is the only one of an
\* installed binding that is preparing, and no queue holds more than its reserve
\* (begin_operation, retire_binding and the finally of _prepare_binding).
PreparationAccounted ==
    /\ TypeOK
    /\ ~May("stall") => PreparingIsOutstanding
    /\ \A o, q \in s.ops : o[2] = q[2] => o = q
    /\ \A o \in s.ops : o[2] \in Stored /\ s.status[o[2]] = "preparing"

\* The status of an installed binding tells the truth: active is attached and
\* ready with authority; unavailable is deferred for capacity, with a callback
\* asked for, unless its grant cannot be used any more; there is no fourth one
\* (the writes to binding_status, lease.ready and _deferred_bindings).
StatusIsReadiness ==
    \A b \in Stored :
        /\ s.status[b] \in {"preparing", "active", "unavailable"}
        /\ s.status[b] = "active" <=> s.lease[b].ready
        /\ s.lease[b].ready => s.lease[b].attached /\ b \in s.authority
        /\ LET deferred == \E r \in BOOLEAN : <<b, r>> \in s.deferred IN
             /\ deferred => s.status[b] = "unavailable" /\ s.wake
             /\ s.status[b] = "unavailable" =>
                  deferred \/ ~UsesCurrentContract(s.lease[b]) \/ ~HardwareCurrent(s)

\* The instance of an attached binding exists at the provider, unless the
\* binding's detach was lost (creation before attachment, destruction after
\* the detachments of all its bindings).
AttachedInstanceExists ==
    \A b \in p.attached \ s.lossy : s.lease[b].inst \in p.created

\* What the session takes for an active binding of the current agreement is
\* attached at the provider: no late detach, rejection or retried preparation
\* of an earlier grant takes it away (detach before successor, in one queue).
\* And what is attached has its instance.
ActiveIsAttached ==
    /\ \A b \in Stored :
          s.lease[b].ready /\ UsesCurrentContract(s.lease[b]) => b \in p.attached
    /\ AttachedInstanceExists

\* The provider never sees a press outside of its attachment: presses come
\* after the attach, and a binding that is detached has had its press ended,
\* unless a terminal message was lost (_cancel_held_inputs_for_binding before
\* the detach effect; _send_input's checks of queued presses).
PressWithinGrant ==
    p.pressed \subseteq p.attached \union s.lossy

\* A press the provider has seen is still held, or its end is queued, unless a
\* terminal message was lost: no release, revocation or full reserve leaves an
\* interaction open for ever (_deliver_input_to_lease, _cancel_held_inputs).
PressHasAnEnd ==
    \A b \in p.pressed :
        \/ b \in s.lossy
        \/ s.held[s.lease[b].ctl] = b
        \/ \E e \in Queued(s) : e.b = b /\ e.kind \in {"up", "cancel"}

\* Nothing is attached or pressed at the provider under another agreement than
\* the one the binding was granted under (_preparation_current, _send_input).
NothingCrossesAgreements ==
    \A b \in p.attached \union p.pressed : UsesCurrentContract(s.lease[b])
=============================================================================
