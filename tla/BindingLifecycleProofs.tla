------------------------ MODULE BindingLifecycleProofs ------------------------
(****************************************************************************)
(* What the bindings of a session promise, for any number of controls,      *)
(* pages, instances, agreements and any reserves.                           *)
(*                                                                          *)
(* The invariant (Inv) has four layers.  Sound(s, {}) is about the session  *)
(* and the provider between two sections of the boundary: its routes point  *)
(* to installed bindings (Routes), nothing at the provider is of another    *)
(* agreement (Crosses), and status, operations and deferrals agree          *)
(* (Ledger).  Within a section bindings may be installed and not activated  *)
(* yet: those are the Y of Sound(t, Y).  Every operator of the model has a  *)
(* lemma that it keeps Sound, whatever section uses it.                     *)
(*                                                                          *)
(* Continues(t, u) is about the preparations under way, which a section must*)
(* not disturb: effects are only added to the queues, a number in the ledger*)
(* is not given to another operation, a binding attached stays so, and no   *)
(* binding is left preparing with nothing to come.                          *)
(*                                                                          *)
(* Tidy(s, {}) is about the presses: one that the provider has seen, or that*)
(* is queued, is held or has its end queued behind it, in the queue of its  *)
(* instance, where nothing follows a detach.  While a section runs, the press*)
(* that a revocation is about to end is owed its end: those are the B of    *)
(* Tidy(t, B).                                                              *)
(*                                                                          *)
(* Housed(s, p.attached) is about the instances: what is attached has its   *)
(* instance, and is installed or has its detach queued; a destruction finds *)
(* behind it only bindings whose detach is queued before it, and no         *)
(* preparation before it that could start the instance again; and a record  *)
(* that is started under the agreement of now has been created.  Within a   *)
(* step it is about the bindings that are attached before and after it      *)
(* (Standing).  Follows(t, u) is these together, for a section as a whole.  *)
(*                                                                          *)
(* Underway and ReadyIsAttached tie the stages of a preparation to both.    *)
(*                                                                          *)
(* The loops of the model are folds over sequences and sets of any length;  *)
(* FoldProofs shows that they keep what each of their steps keeps.          *)
(****************************************************************************)
EXTENDS BindingLifecycle, FiniteSetTheorems, SequenceTheorems, TLAPS

----------------------------------------------------------------------------
(* What the invariant is made of *)

\* The types of what the session is made of.
Sessions == {None} \union {SessionOf[a] : a \in Agreements}

Leases ==
    [ctl : Controls \union {None}, page : Pages \union {None},
     inst : Instances \union {None}, contract : Agreements \union {None},
     attached : BOOLEAN, ready : BOOLEAN, recoveries : Nat]

Effects ==
    [kind : {"prepare", "down", "up", "cancel", "detach", "destroy"},
     b : Ids \union {None}, op : Nat, restart : BOOLEAN, meta : Nat,
     contract : Agreements \union {None}]

Records ==
    [meta : Nat, session : Sessions, contract : Agreements \union {None}, started : BOOLEAN]

SessionRecords ==
    [stored : Seq(Ids), lease : [Ids -> Leases],
     status : [Ids -> {"none", "preparing", "active", "unavailable", "retired"}],
     input : [Controls -> Ids \union {None}], authority : SUBSET Ids,
     held : [Controls -> Ids \union {None}], suppressed : SUBSET Controls,
     ops : SUBSET (Nat \X Ids), deferred : SUBSET (Ids \X BOOLEAN), wake : BOOLEAN,
     rec : [Instances -> Records], queue : [Instances -> Seq(Effects)],
     page : Pages \union {None}, stopped : BOOLEAN, recovery : BOOLEAN,
     lossy : SUBSET (Ids \union {None})]

\* Where effects are queued, as a function of the queues alone.
Positions(q) == UNION {{i} \X DOMAIN q[i] : i \in Instances}

\* The positions of the effects of certain kinds.
Loaded(q, kinds) == {x \in Positions(q) : q[x[1]][x[2]].kind \in kinds}

\* The queues r are the queues q with e appended to that of i.
Appended(q, i, e, r) ==
    /\ q \in [Instances -> Seq(Effects)] /\ i \in Instances /\ e \in Effects
    /\ r = [q EXCEPT ![i] = Append(@, e)]

\* No queue holds more than its reserve (SessionEffects.submit).
WithinReserves(t) == Load(t, Ordinary) <= Capacity /\ Load(t, Cleanup) <= CleanupCapacity

\* The session is a record of its type, with each binding stored once.
Typed(t) ==
    /\ t \in SessionRecords
    /\ IsInjective(t.stored) /\ IsFiniteSet(t.ops) /\ WithinReserves(t)

\* Everything but the effects is as it was.
OnlyQueues(t, u) ==
    /\ u.stored = t.stored /\ u.lease = t.lease /\ u.status = t.status
    /\ u.input = t.input /\ u.authority = t.authority /\ u.held = t.held
    /\ u.suppressed = t.suppressed /\ u.ops = t.ops /\ u.deferred = t.deferred
    /\ u.wake = t.wake /\ u.rec = t.rec /\ u.page = t.page
    /\ u.stopped = t.stopped /\ u.recovery = t.recovery

\* An effect submitted is queued; or it is refused, and a cleanup that is refused is
\* remembered.
Submitted(t, u, i, e) ==
    \/ u.queue = [t.queue EXCEPT ![i] = Append(@, e)] /\ u.lossy = t.lossy
    \/ u.queue = t.queue /\ u.lossy = t.lossy \union {e.b} /\ IsCleanup(e)
    \/ u.queue = t.queue /\ u.lossy = t.lossy /\ ~IsCleanup(e)

\* The bindings that are installed.
St(t) == ToSet(t.stored)

\* What the session does not see: the world outside and the provider.
World ==
    /\ agreed \in [last : Agreements, live : BOOLEAN]
    /\ offer \in {"bound", "pending", "unavailable"}
    /\ listed \in Sessions \ {None} /\ hw \in BOOLEAN
    /\ p \in [created : SUBSET Instances, attached : SUBSET Ids, pressed : SUBSET Ids]

\* A binding is referred to: by the session, by a queued effect or by the provider.
InUse(t, b) ==
    b \in St(t) \/ (\E e \in Queued(t) : e.b = b) \/ b \in p.attached \union p.pressed

\* A lease that was granted, under an agreement that has been reached.
Granted(l) ==
    l.ctl \in Controls /\ l.page \in Pages /\ l.inst \in Instances /\ l.contract \in 1..agreed.last

\* Identities in use have been granted.
Grants(t) == \A b \in Ids : InUse(t, b) => Granted(t.lease[b])

\* Attached bindings have authority and no others; inputs and held interactions are
\* routed to them, on their controls; and a control has one binding.
Routes(t) ==
    /\ \A b \in St(t) : t.lease[b].attached => b \in t.authority
    /\ \A b \in t.authority : b \in St(t) /\ t.lease[b].attached
    /\ \A c \in Controls :
         /\ t.input[c] # None => t.input[c] \in t.authority /\ t.lease[t.input[c]].ctl = c
         /\ t.held[c] # None => t.held[c] \in St(t) /\ t.lease[t.held[c]].ctl = c
    /\ \A b, d \in St(t) : t.lease[b].ctl = t.lease[d].ctl => b = d

\* The provider knows of grants of the agreement of now only.
Crosses(t) == \A b \in p.attached \union p.pressed : UsesCurrentContract(t.lease[b])

\* The bindings of Y are yet to be activated.
Ledger(t, Y) ==
    /\ \A o \in t.ops : o[2] \in St(t) /\ t.status[o[2]] = "preparing"
    /\ \A o, q \in t.ops : o[2] = q[2] => o = q
    /\ \A d \in t.deferred : d[1] \in St(t) /\ t.status[d[1]] = "unavailable" /\ t.wake
    /\ \A b \in St(t) :
         /\ t.status[b] \in {"none", "preparing", "active", "unavailable"}
         /\ t.status[b] = "active" <=> t.lease[b].ready
         /\ t.lease[b].ready => t.lease[b].attached
    /\ \A b \in St(t) \ Y :
         /\ t.status[b] # "none"
         /\ t.status[b] = "unavailable" =>
              \/ \E r \in BOOLEAN : <<b, r>> \in t.deferred
              \/ ~UsesCurrentContract(t.lease[b]) \/ ~HardwareCurrent(t)

\* The session is sound, but for the bindings of Y.  It is this that every operation
\* of the session keeps.
Sound(t, Y) == Typed(t) /\ Grants(t) /\ Routes(t) /\ Crosses(t) /\ Ledger(t, Y)

\* The first sections of the revocation of b, without its effects.
Removed(t, b) ==
    LET c == t.lease[b].ctl IN
    [t EXCEPT !.stored = RemoveFirst(@, b), !.status[b] = "retired",
              !.input[c] = IF @ = b THEN None ELSE @, !.authority = @ \ {b},
              !.held[c] = IF @ = b THEN None ELSE @,
              !.suppressed = IF t.held[c] = b THEN @ \union {c} ELSE @,
              !.ops = {o \in @ : o[2] # b}, !.deferred = {d \in @ : d[1] # b}]

\* A revocation is a removal and the effects that tell the provider.
Cancelled(t, b) ==
    IF t.held[t.lease[b].ctl] = b /\ t.lease[b].attached
      THEN Submit(Removed(t, b), t.lease[b].inst, Of("cancel", b)) ELSE Removed(t, b)

\* The detach that ends a revocation, after the cancellation of a held input.
Revoked(t, b, notify) ==
    IF t.lease[b].attached /\ notify
      THEN Submit(Cancelled(t, b), t.lease[b].inst, Of("detach", b)) ELSE Cancelled(t, b)

\* The session in which the activation of b, which has no operation, is decided.
Arranged(t, b, restart) ==
    LET l == t.lease[b]
        r == Reserve(t, l.inst, SessionOfLease(l))
    IN [r EXCEPT !.rec[l.inst].started = @ /\ ~restart,
                 !.lease[b].ready = FALSE,
                 !.deferred = {d \in @ : d[1] # b}]

\* The record that a preparation of instance i is made under.
Arrangement(t, i, session, restart, r) ==
    /\ r \in Records /\ r.meta # None
    /\ r.session = session /\ r.contract = CurrentContract(session)
    /\ \/ r.meta = FreshMeta(t) /\ ~r.started
       \/ /\ r.meta = t.rec[i].meta /\ r.session = t.rec[i].session
          /\ r.contract = t.rec[i].contract
          /\ r.started => t.rec[i].started /\ ~restart

\* What the arrangement of a preparation changes.
IsArranged(t, b, restart, u) ==
    LET l == t.lease[b] IN
    /\ Arrangement(t, l.inst, SessionOfLease(l), restart, u.rec[l.inst])
    /\ Reserve(t, l.inst, SessionOfLease(l)).rec[l.inst].meta = u.rec[l.inst].meta
    /\ u = [t EXCEPT !.rec = [t.rec EXCEPT ![l.inst] = u.rec[l.inst]],
                     !.lease = [t.lease EXCEPT ![b] = [l EXCEPT !.ready = FALSE]],
                     !.deferred = {d \in t.deferred : d[1] # b}]

\* The operation of b is in the ledger; its preparation is yet to be submitted.
Planned(t, b, restart) ==
    [Arranged(t, b, restart) EXCEPT !.ops = @ \union {<<FreshOp(t), b>>},
                                    !.status[b] = "preparing"]

\* The effect of an activation.
Preparation(t, b, restart) ==
    LET l == t.lease[b] IN
    Effect("prepare", b, FreshOp(t), restart,
           Reserve(t, l.inst, SessionOfLease(l)).rec[l.inst].meta, None)

\* The session u in which the preparation of b is planned, or waits for capacity,
\* apart from the effect itself.
Decided(t, b, restart, u) ==
    LET l == t.lease[b] IN
    /\ u.lease = [t.lease EXCEPT ![b] = [l EXCEPT !.ready = FALSE]]
    /\ Arrangement(t, l.inst, SessionOfLease(l), restart, u.rec[l.inst])
    /\ u.rec = [t.rec EXCEPT ![l.inst] = u.rec[l.inst]]
    /\ u.stored = t.stored /\ u.input = t.input /\ u.authority = t.authority
    /\ u.held = t.held /\ u.suppressed = t.suppressed
    /\ u.queue = t.queue /\ u.page = t.page /\ u.stopped = t.stopped
    /\ u.recovery = t.recovery /\ u.lossy = t.lossy
    /\ \/ /\ u.ops = t.ops \union {<<FreshOp(t), b>>}
          /\ u.deferred = {d \in t.deferred : d[1] # b}
          /\ u.status = [t.status EXCEPT ![b] = "preparing"] /\ u.wake = t.wake
       \/ /\ u.ops = t.ops
          /\ u.deferred = {d \in t.deferred : d[1] # b} \union {<<b, restart>>}
          /\ u.status = [t.status EXCEPT ![b] = "unavailable"] /\ u.wake = TRUE

\* The grants of t are those of u.
SameGrants(t, u) ==
    \A d \in Ids : /\ u.lease[d].ctl = t.lease[d].ctl /\ u.lease[d].page = t.lease[d].page
                  /\ u.lease[d].inst = t.lease[d].inst
                  /\ u.lease[d].contract = t.lease[d].contract
                  /\ u.lease[d].attached = t.lease[d].attached

\* The lease that a resolution makes, and the session that has it.
NewLease(g, c) ==
    [NoLease EXCEPT !.ctl = c, !.page = g, !.inst = InstanceOf[g][c], !.contract = agreement]

\* The session in which identity b is given to a binding of control c for page g.
Resolved(t, b, g, c) ==
    [t EXCEPT !.stored = Append(@, b), !.status[b] = "none", !.lossy = @ \ {b},
              !.lease[b] = NewLease(g, c)]

\* What installations leave alone.
Around(t, u) ==
    /\ u.page = t.page /\ u.stopped = t.stopped /\ u.recovery = t.recovery
    /\ \A d \in St(t) : /\ u.lease[d].ctl = t.lease[d].ctl
                        /\ u.lease[d].page = t.lease[d].page
                        /\ u.lease[d].contract = t.lease[d].contract

\* An installation adds one binding at most, of the control and the page.
Installs(t, g, c, u) ==
    /\ Sound(u, {}) /\ Around(t, u) /\ St(t) \subseteq St(u)
    /\ \A d \in St(u) \ St(t) : /\ u.lease[d].ctl = c /\ u.lease[d].page = g
                                /\ SessionOfLease(u.lease[d]) = listed
    /\ \E b \in Ids : FreeIds(t) \ {b} \subseteq FreeIds(u)

\* Sessions that differ in the page, the recovery and the releases to be ignored only.
Alike(t, u) ==
    /\ u.stored = t.stored /\ u.lease = t.lease /\ u.status = t.status
    /\ u.input = t.input /\ u.authority = t.authority /\ u.held = t.held
    /\ u.ops = t.ops /\ u.deferred = t.deferred /\ u.wake = t.wake /\ u.queue = t.queue
    /\ u.stopped = t.stopped /\ u.lossy = t.lossy /\ u.rec = t.rec

\* A preparation of b that is in the ledger and queued.
Prepares(t, b) ==
    \E o \in t.ops, e \in Queued(t) :
        o[2] = b /\ e.kind = "prepare" /\ e.op = o[1] /\ e.b = b

\* Every binding that is preparing has a preparation to come.
Outstanding(t) == \A b \in St(t) : t.status[b] = "preparing" => Prepares(t, b)

\* Effects are only added, at the end of their queues.
Extends(t, u) ==
    \A i \in Instances :
        /\ Len(t.queue[i]) <= Len(u.queue[i])
        /\ \A k \in 1..Len(t.queue[i]) : u.queue[i][k] = t.queue[i][k]

\* No operation is that of an effect queued before, if it was not in the ledger then;
\* and the bindings of the others are what they were granted as.
Recognises(t, u) ==
    \A e \in Queued(t) : <<e.op, e.b>> \in u.ops =>
        /\ <<e.op, e.b>> \in t.ops
        /\ u.lease[e.b].contract = t.lease[e.b].contract
        /\ t.lease[e.b].attached => u.lease[e.b].attached

\* What the preparations under way may rely on, when the session goes from t to u.
Continues(t, u) ==
    Extends(t, u) /\ Recognises(t, u) /\ (Outstanding(t) => Outstanding(u))

\* An effect after the k-th of its queue ends the press of b.
Ended(t, b, k) ==
    \E j \in DOMAIN t.queue[t.lease[b].inst] :
        LET e == t.queue[t.lease[b].inst][j] IN
        j > k /\ e.b = b /\ e.kind \in {"up", "cancel"}

\* A press of b that is sent before the k-th effect of its queue is done comes to an end.
Ends(t, b, k) == b \in t.lossy \/ t.held[t.lease[b].ctl] = b \/ Ended(t, b, k)

\* The effect e is the k-th of the queue of i, where it belongs: nothing follows a detach,
\* which is of a binding that is gone; and a press has an end, unless its binding is in B.
Belongs(t, i, k, e, B) ==
    /\ e.kind = "destroy" => e.b = None
    /\ e.kind # "destroy" => e.b \in Ids /\ t.lease[e.b].inst = i
    /\ e.kind = "detach" =>
         e.b \notin St(t) /\ \A j \in DOMAIN t.queue[i] : j > k => t.queue[i][j].b # e.b
    /\ e.kind = "down" /\ e.b \notin B => Ends(t, e.b, k)

\* Every queued effect is where it belongs.
InOrder(t, B) ==
    \A i \in Instances : \A k \in DOMAIN t.queue[i] : Belongs(t, i, k, t.queue[i][k], B)

\* Every press has an end, but for those of B: what is held is attached, the provider has
\* presses of what is attached, and it attached what the session takes for active.
Tidy(t, B) ==
    /\ InOrder(t, B)
    /\ \A c \in Controls : t.held[c] # None => t.lease[t.held[c]].attached
    /\ \A b \in p.pressed \ B : Ends(t, b, 0)
    /\ p.pressed \subseteq p.attached \union t.lossy
    /\ \A b \in St(t) : t.lease[b].ready /\ UsesCurrentContract(t.lease[b]) => b \in p.attached

\* What is owed is the same with e submitted, or e settles it for its binding.
Settling(t, e, B, C) ==
    \/ C = B
    \/ C = B \ {e.b} /\ (e.kind = "cancel" \/ (e.kind = "up" /\ Room(t, e)))

\* No detach of b is queued.
Undetached(t, b) ==
    \A i \in Instances : \A k \in DOMAIN t.queue[i] :
        t.queue[i][k].kind = "detach" => t.queue[i][k].b # b

\* A detach of b is queued before the k-th effect of its instance.
Detached(t, b, k) ==
    \E j \in DOMAIN t.queue[t.lease[b].inst] :
        LET e == t.queue[t.lease[b].inst][j] IN j < k /\ e.kind = "detach" /\ e.b = b

\* The instance of b exists, and b is installed or will be detached; unless a message
\* that tells the provider was refused or lost.
Sheltered(t, b) ==
    \/ b \in t.lossy
    \/ /\ t.lease[b].inst \in p.created
       /\ (b \in St(t) /\ t.lease[b].attached) \/ (\E k \in Nat : Detached(t, b, k))

\* The preparation e is in the ledger, and of the agreement of now.
IsDue(t, e) == <<e.op, e.b>> \in t.ops /\ UsesCurrentContract(t.lease[e.b])

\* A destruction that is the k-th of the queue of i finds none of the bindings of A there,
\* and no preparation before it starts the instance again.
Emptied(t, A, i, k) ==
    /\ ~t.rec[i].started
    /\ \A b \in A : t.lease[b].inst = i => b \in t.lossy \/ Detached(t, b, k)
    /\ \A j \in DOMAIN t.queue[i] :
         LET e == t.queue[i][j] IN
         (j < k /\ e.kind = "prepare") => (<<e.op, e.b>> \notin t.ops /\ e.meta # t.rec[i].meta)

\* The effect e is the k-th of the queue of i: what it destroys is empty, what it prepares
\* is under the agreement of now if the preparation is due.
InPlace(t, A, i, k, e) ==
    /\ e.kind = "destroy" => Emptied(t, A, i, k)
    /\ e.kind = "prepare" =>
         /\ e.meta # None
         /\ (IsDue(t, e) /\ e.meta = t.rec[i].meta) => t.rec[i].contract = agreement

\* The record of i: what has been started under the agreement of now exists, and what a
\* preparation has had created as well.
Registered(t, i) ==
    /\ t.rec[i].contract \in 0..agreed.last
    /\ (t.rec[i].started /\ agreement # None /\ t.rec[i].contract = agreement) => i \in p.created
    /\ at[i] = "accept" =>
         /\ t.queue[i] # <<>> /\ Head(t.queue[i]).kind = "prepare"
         /\ LET e == Head(t.queue[i]) IN
            (\/ IsDue(t, e)
             \/ e.meta = t.rec[i].meta /\ agreement # None /\ t.rec[i].contract = agreement)
            => i \in p.created

\* Of the bindings A that the provider has attached, each has its instance.
Housed(t, A) ==
    /\ \A b \in A : Sheltered(t, b)
    /\ \A i \in Instances : \A k \in DOMAIN t.queue[i] : InPlace(t, A, i, k, t.queue[i][k])
    /\ \A i \in Instances : Registered(t, i)

\* What is attached at the provider before and after a step.
Standing == p.attached \intersect p'.attached

\* The record of i is that of t, or a new one that no queued preparation is of.
Registers(t, u, i) ==
    /\ u.rec[i].contract \in 0..agreed.last
    /\ \/ /\ u.rec[i].meta = t.rec[i].meta /\ u.rec[i].contract = t.rec[i].contract
          /\ u.rec[i].started => t.rec[i].started
       \/ /\ ~u.rec[i].started
          /\ \A k \in DOMAIN t.queue[i] :
               LET e == t.queue[i][k] IN
               (e.kind = "prepare" /\ e.meta # None) => e.meta # u.rec[i].meta

\* No destruction of i is queued.
Undestroyed(t, i) == \A k \in DOMAIN t.queue[i] : t.queue[i][k].kind # "destroy"

\* The preparations under way go on, no press is left open, and what stays attached at the
\* provider keeps its instance.
Follows(t, u) ==
    /\ Continues(t, u)
    /\ Tidy(t, {}) => Tidy(u, {})
    /\ Tidy(t, {}) /\ Housed(t, Standing) => Housed(u, Standing)

\* A session with no binding more, and none of the others' identities used up.
Leaves(t, u) ==
    /\ Sound(u, {}) /\ St(u) \subseteq St(t) /\ u.lease = t.lease
    /\ u.page = t.page /\ u.stopped = t.stopped /\ u.recovery = t.recovery
    /\ FreeIds(t) \subseteq FreeIds(u) /\ Follows(t, u)

\* What reconciling one control leaves.
Reconciles(t, u) ==
    /\ Sound(u, {}) /\ u.page = t.page /\ u.stopped = t.stopped
    /\ \E b \in Ids : FreeIds(t) \ {b} \subseteq FreeIds(u)
    /\ Follows(t, u)

\* Without a page, or when it has stopped, a session has no bindings.
Idle(t) == t.page = None \/ t.stopped => t.stored = <<>>

\* What every section of the boundary leaves of the session t.
Handled(t, u) == Sound(u, {}) /\ Idle(u) /\ Follows(t, u)

\* Within a section a press may still be owed its end.
Kept(t, u) ==
    /\ Sound(u, {}) /\ Idle(u) /\ Continues(t, u)
    /\ Housed(t, Standing) => Housed(u, Standing)

\* The session called back when there is room: nobody waits any more.
Woken(t) == [t EXCEPT !.wake = FALSE, !.deferred = {}]

\* What the activation of b makes of the session t.
Settles(t, b, Y, u) ==
    /\ Sound(u, Y \ {b}) /\ u.stored = t.stored /\ u.page = t.page
    /\ u.stopped = t.stopped /\ Follows(t, u)

----------------------------------------------------------------------------
(* Sections *)

\* Other interactions are held, and releases ignored.
Hands(t, u) ==
    /\ u.stored = t.stored /\ u.lease = t.lease /\ u.status = t.status
    /\ u.input = t.input /\ u.authority = t.authority
    /\ u.ops = t.ops /\ u.deferred = t.deferred /\ u.wake = t.wake /\ u.queue = t.queue
    /\ u.stopped = t.stopped /\ u.page = t.page /\ u.lossy = t.lossy

\* The control of b is held by it.
Holding(t, b) == [t EXCEPT !.held[t.lease[b].ctl] = b]

\* The binding b is attached, and may command and be pressed.
Attach(t, b) == Enable([t EXCEPT !.lease[b].attached = TRUE], b)

\* The lease of b is written, but not what has been granted with it.
Rewrites(t, u, b) ==
    /\ u.stored = t.stored /\ u.input = t.input /\ u.authority = t.authority
    /\ u.held = t.held /\ u.queue = t.queue /\ u.page = t.page /\ u.stopped = t.stopped
    /\ u.deferred = t.deferred /\ u.wake = t.wake /\ u.lossy = t.lossy
    /\ SameGrants(t, u)
    /\ \A d \in Ids : d # b =>
          u.lease[d].ready = t.lease[d].ready /\ u.status[d] = t.status[d]

\* The preparation e is complete.
Complete(t, e) ==
    [t EXCEPT !.lease[e.b].ready = TRUE, !.status[e.b] = "active", !.ops = @ \ {<<e.op, e.b>>}]

\* The session t without the effect at the head of i's queue.
Popped(t, u, i) ==
    /\ u.stored = t.stored /\ u.lease = t.lease /\ u.status = t.status
    /\ u.input = t.input /\ u.authority = t.authority /\ u.held = t.held
    /\ u.ops = t.ops /\ u.deferred = t.deferred /\ u.wake = t.wake
    /\ u.stopped = t.stopped /\ u.page = t.page
    /\ u.queue = [t.queue EXCEPT ![i] = Tail(@)] /\ t.lossy \subseteq u.lossy
    /\ u.rec = t.rec

\* What the provider learns when the effect e is done, and the session has become u: a
\* press of what is attached, a detach; and what is not ended or detached then is lost.
Reaches(u, e) ==
    /\ p'.attached \subseteq p.attached
    /\ e.kind = "detach" /\ e.b \in p'.attached => e.b \in u.lossy
    /\ \A b \in p.attached \ p'.attached : b = e.b /\ e.kind = "detach"
    /\ \A b \in p'.pressed \ p.pressed : b = e.b /\ e.kind = "down" /\ b \in p'.attached
    /\ e.kind \in {"up", "cancel"} /\ e.b \in p'.pressed => e.b \in u.lossy

\* The provider parts only with bindings that the session u has given up.
Parted(u) ==
    /\ p'.pressed \subseteq p.pressed
    /\ \A b \in p.attached \ p'.attached : b \notin St(u) /\ b \notin p'.pressed

\* The preparation at the head of i's queue will be taken for one that has its instance.
Awaited(u, i) ==
    LET e == Head(u.queue[i]) IN
    \/ IsDue(u, e)
    \/ e.meta = u.rec[i].meta /\ agreement # None /\ u.rec[i].contract = agreement

\* What the provider attaches has its instance, which the session u will not destroy; and
\* it parts with no instance that u needs.
Provided(u) ==
    /\ \A b \in p'.attached \ p.attached :
         /\ u.lease[b].inst \in Instances /\ u.lease[b].inst \in p'.created
         /\ b \in St(u) /\ u.lease[b].attached /\ Undestroyed(u, u.lease[b].inst)
    /\ \A i \in p.created \ p'.created :
         /\ ~u.rec[i].started
         /\ \A b \in Standing : u.lease[b].inst = i => b \in u.lossy
         /\ at'[i] = "accept" => ~Awaited(u, i)

\* How far a preparation is.
Stages == {"begin", "accept", "ready", "end"}

\* Only a preparation at the head of its queue is under way.
Underway ==
    at \in [Instances -> Stages] /\ \A i \in Instances : at[i] # "begin" => HeadIs(i, {"prepare"})

\* The binding b is attached, at the provider as well if it is of the agreement of now.
AttachedOnBothSides(t, b) ==
    t.lease[b].attached /\ (UsesCurrentContract(t.lease[b]) => b \in p.attached)

\* A preparation that is about to complete has attached its binding.
ReadyIsAttached ==
    \A i \in Instances : at[i] = "ready" =>
        LET e == Head(s.queue[i]) IN <<e.op, e.b>> \in s.ops => AttachedOnBothSides(s, e.b)

\* The inductive invariant.
Inv ==
    /\ World /\ Sound(s, {}) /\ Tidy(s, {}) /\ Housed(s, p.attached)
    /\ Idle(s) /\ Underway /\ ReadyIsAttached
    /\ May("stall") \/ Outstanding(s)

----------------------------------------------------------------------------
(* Sequences, queues and loads *)

\* A set of naturals has a first one: of the intervals up to its elements none is
\* within all others but the least.
LEMMA LeastNatural ==
    ASSUME NEW N \in SUBSET Nat, N # {}
    PROVE  \E n \in N : \A m \in N : n <= m
  <1> DEFINE T == {1..n : n \in N}
  <1>1. T \subseteq FiniteSubsetsOf(Nat) /\ T # {}
    <2>1. \A n \in N : IsFiniteSet(1..n) /\ 1..n \in SUBSET Nat
      BY FS_Interval
    <2> QED BY <2>1 DEF FiniteSubsetsOf
  <1>2. \E x \in T : \A y \in T : ~(<<y, x>> \in StrictSubsetOrdering(Nat))
    BY <1>1, WFMin, FS_StrictSubsetOrderingWellFounded
  <1>3. PICK n \in N : \A m \in N : ~(<<1..m, 1..n>> \in StrictSubsetOrdering(Nat))
    BY <1>2
  <1>4. ASSUME NEW m \in N, m < n PROVE FALSE
    <2>1. 1..m \in SUBSET Nat /\ 1..n \in SUBSET Nat /\ 1..m \subseteq 1..n /\ 1..m # 1..n
      BY <1>4
    <2> QED BY <1>3, <2>1 DEF StrictSubsetOrdering
  <1> QED BY <1>4

\* A sequence contains the members of its set.
LEMMA ContainsIsMember ==
    ASSUME NEW S, NEW q \in Seq(S), NEW x
    PROVE  Contains(q, x) <=> x \in ToSet(q)
  BY DEF Contains, ToSet

\* Appending adds one element, and keeps the elements of a sequence distinct.
LEMMA AppendAddsElement ==
    ASSUME NEW S, NEW q \in Seq(S), NEW x \in S
    PROVE  /\ Append(q, x) \in Seq(S)
           /\ ToSet(Append(q, x)) = ToSet(q) \union {x}
           /\ IsInjective(q) /\ x \notin ToSet(q) => IsInjective(Append(q, x))
  <1> DEFINE r == Append(q, x)
  <1>1. r \in Seq(S) /\ Len(r) = Len(q) + 1 /\ r[Len(q) + 1] = x
        /\ \A k \in 1..Len(q) : r[k] = q[k]
    OBVIOUS
  <1> HIDE DEF r
  <1>2. ToSet(r) = ToSet(q) \union {x}
    <2>1. DOMAIN r = 1..(Len(q) + 1) /\ DOMAIN q = 1..Len(q) /\ Len(q) \in Nat
      BY <1>1
    <2>2. \A k \in DOMAIN r : k \in DOMAIN q \/ k = Len(q) + 1
      BY <2>1
    <2> QED BY <1>1, <2>1, <2>2 DEF ToSet
  <1>3. ASSUME IsInjective(q), x \notin ToSet(q) PROVE IsInjective(r)
    BY <1>1, <1>3 DEF ToSet, IsInjective
  <1> QED BY <1>1, <1>2, <1>3 DEF r

\* The least of a set of numbers.
LEMMA MinIsLeast ==
    ASSUME NEW n \in Nat, NEW S \in SUBSET (1..n), S # {}
    PROVE  Min(S) \in S /\ \A y \in S : Min(S) <= y
  <1>1. \E x \in S : \A y \in S : x <= y
    BY LeastNatural
  <1> QED BY <1>1 DEF Min

\* An injective sequence is left without x, in the order it was in.
LEMMA RemoveFirstRemoves ==
    ASSUME NEW S, NEW q \in Seq(S), IsInjective(q), NEW x
    PROVE  /\ RemoveFirst(q, x) \in Seq(S)
           /\ ToSet(RemoveFirst(q, x)) = ToSet(q) \ {x}
           /\ IsInjective(RemoveFirst(q, x))
  <1>1. CASE ~ \E i \in 1..Len(q) : q[i] = x
    BY <1>1 DEF RemoveFirst, ToSet
  <1>2. CASE \E i \in 1..Len(q) : q[i] = x
    <2>1. PICK i \in 1..Len(q) : q[i] = x
      BY <1>2
    <2>2. \A j \in 1..Len(q) : q[j] = x <=> j = i
      BY <2>1 DEF IsInjective
    <2>3. {j \in 1..Len(q) : q[j] = x} = {i}
      BY <2>2
    <2>4. Min({i}) = i
      BY DEF Min
    <2>5. SelectInSeq(q, LAMBDA v : v = x) = i
      BY <2>3, <2>4 DEF SelectInSeq
    <2>6. RemoveFirst(q, x) = SubSeq(q, 1, i - 1) \o SubSeq(q, i + 1, Len(q))
      BY <1>2, <2>5 DEF RemoveFirst, RemoveAt
    <2> DEFINE r == [j \in 1..(Len(q) - 1) |-> IF j < i THEN q[j] ELSE q[j + 1]]
    <2>7. RemoveFirst(q, x) = r
      <3> DEFINE before == SubSeq(q, 1, i - 1)
                 after == SubSeq(q, i + 1, Len(q))
      <3>1. before \in Seq(S) /\ Len(before) = i - 1 /\ \A j \in 1..(i - 1) : before[j] = q[j]
        OBVIOUS
      <3>2. after \in Seq(S) /\ Len(after) = Len(q) - i
            /\ \A j \in 1..(Len(q) - i) : after[j] = q[i + j]
        OBVIOUS
      <3> HIDE DEF before, after
      <3>3. before \o after \in Seq(S) /\ Len(before \o after) = Len(q) - 1
            /\ \A j \in 1..(Len(q) - 1) : (before \o after)[j] = r[j]
        <4>1. /\ before \o after \in Seq(S) /\ Len(before \o after) = Len(q) - 1
              /\ \A j \in 1..(Len(q) - 1) :
                    (before \o after)[j] = IF j <= i - 1 THEN before[j] ELSE after[j - (i - 1)]
          <5>1. before \in Seq(S) /\ after \in Seq(S) /\ Len(before) + Len(after) = Len(q) - 1
            BY <3>1, <3>2
          <5>2. /\ before \o after \in Seq(S)
                /\ Len(before \o after) = Len(before) + Len(after)
                /\ \A j \in 1..(Len(before) + Len(after)) : (before \o after)[j] =
                       IF j <= Len(before) THEN before[j] ELSE after[j - Len(before)]
            BY <5>1, ConcatProperties
          <5> QED BY <3>1, <5>1, <5>2
        <4>2. ASSUME NEW j \in 1..(Len(q) - 1) PROVE (before \o after)[j] = r[j]
          <5>1. CASE j < i
            <6>1. j <= i - 1 /\ j \in 1..(i - 1)
              BY <5>1
            <6>2. (before \o after)[j] = before[j] /\ before[j] = q[j]
              BY <3>1, <4>1, <6>1
            <6> QED BY <5>1, <6>2
          <5>2. CASE j >= i
            <6>1. j - (i - 1) \in 1..(Len(q) - i)
              BY <5>2
            <6>2. after[j - (i - 1)] = q[i + (j - (i - 1))]
              BY <3>2, <6>1
            <6>3. i + (j - (i - 1)) = j + 1 /\ ~(j <= i - 1) /\ ~(j < i)
              BY <5>2
            <6> QED BY <4>1, <6>2, <6>3
          <5>3. j < i \/ j >= i
            OBVIOUS
          <5> HIDE DEF r
          <5> QED BY <5>1, <5>2, <5>3
        <4> QED BY <4>1, <4>2
      <3>4. r \in Seq(S) /\ Len(r) = Len(q) - 1
        OBVIOUS
      <3> HIDE DEF r
      <3>5. before \o after = r
        BY <3>3, <3>4, SeqEqual
      <3> QED BY <2>6, <3>5 DEF before, after
    <2>8. r \in Seq(S)
      OBVIOUS
    <2>9. ToSet(r) = ToSet(q) \ {x}
      <3>1. ASSUME NEW j \in DOMAIN r PROVE r[j] \in ToSet(q) \ {x}
        BY <2>2 DEF ToSet
      <3>2. ASSUME NEW j \in 1..Len(q), j # i PROVE q[j] \in ToSet(r)
        <4>1. CASE j < i
          <5>1. j \in DOMAIN r /\ r[j] = q[j]
            BY <4>1
          <5> QED BY <5>1 DEF ToSet
        <4>2. CASE j > i
          <5>1. j - 1 \in DOMAIN r /\ r[j - 1] = q[j]
            BY <4>2
          <5> QED BY <5>1 DEF ToSet
        <4> QED BY <3>2, <4>1, <4>2
      <3>3. \A j \in 1..Len(q) : q[j] # x => j # i
        BY <2>2
      <3>4. DOMAIN q = 1..Len(q)
        OBVIOUS
      <3> HIDE DEF r
      <3>5. ToSet(r) \subseteq ToSet(q) \ {x}
        BY <3>1 DEF ToSet
      <3>6. \A v \in ToSet(q) : v # x => v \in ToSet(r)
        BY <3>2, <3>3, <3>4 DEF ToSet
      <3> QED BY <3>5, <3>6
    <2>10. IsInjective(r)
      BY DEF IsInjective
    <2> QED BY <2>7, <2>8, <2>9, <2>10
  <1> QED BY <1>1, <1>2

\* The image of a finite set is finite.
LEMMA ImageIsFinite ==
    ASSUME NEW S, IsFiniteSet(S), NEW f
    PROVE  /\ IsFiniteSet({f[x] : x \in S})
           /\ Cardinality({f[x] : x \in S}) <= Cardinality(S)
  <1> DEFINE T == {f[x] : x \in S}
             g == [x \in S |-> f[x]]
  <1>1. g \in Surjection(S, T)
    BY DEF Surjection
  <1> HIDE DEF g, T
  <1>2. IsFiniteSet(T) /\ Cardinality(T) <= Cardinality(S)
    BY <1>1, FS_Surjection
  <1> QED BY <1>2 DEF T

\* The queues of finitely many instances have finitely many positions.
LEMMA PositionsAreFinite ==
    ASSUME NEW q \in [Instances -> Seq(Effects)]
    PROVE  IsFiniteSet(Positions(q))
  <1> DEFINE f == [i \in Instances |-> {i} \X DOMAIN q[i]]
  <1>1. \A i \in Instances : IsFiniteSet({i} \X DOMAIN q[i])
    <2> SUFFICES ASSUME NEW i \in Instances PROVE IsFiniteSet({i} \X DOMAIN q[i])
      OBVIOUS
    <2>1. IsFiniteSet({i})
      BY FS_Singleton
    <2>2. DOMAIN q[i] = 1..Len(q[i]) /\ Len(q[i]) \in Nat
      OBVIOUS
    <2>3. IsFiniteSet(DOMAIN q[i])
      BY <2>2, FS_Interval
    <2> QED BY <2>1, <2>3, FS_Product
  <1>2. IsFiniteSet({f[i] : i \in Instances})
    <2> HIDE DEF f
    <2> QED
      <3>1. IsFiniteSet(Instances)
        BY LifecycleAssumption
      <3> QED BY <3>1, ImageIsFinite
  <1>3. {f[i] : i \in Instances} = {{i} \X DOMAIN q[i] : i \in Instances}
    OBVIOUS
  <1>4. \A T \in {{i} \X DOMAIN q[i] : i \in Instances} : IsFiniteSet(T)
    BY <1>1
  <1> HIDE DEF f
  <1>5. IsFiniteSet({{i} \X DOMAIN q[i] : i \in Instances})
    BY <1>2, <1>3
  <1> QED BY <1>4, <1>5, FS_UNION DEF Positions

\* A position is an instance and a place in its queue.
LEMMA PositionsMembers ==
    ASSUME NEW q, NEW x
    PROVE  x \in Positions(q) <=> \E i \in Instances : \E k \in DOMAIN q[i] : x = <<i, k>>
  BY DEF Positions

\* The load of a session counts positions of its queues.
LEMMA LoadCounts ==
    ASSUME NEW t, NEW kinds PROVE Load(t, kinds) = Cardinality(Loaded(t.queue, kinds))
  BY DEF Load, Places, Loaded, Positions

\* An effect appended adds one to the load of its kind, and none to the other's.
LEMMA AppendLoads ==
    ASSUME NEW q, NEW i, NEW e, NEW r, Appended(q, i, e, r), NEW kinds
    PROVE  /\ Cardinality(Loaded(q, kinds)) \in Nat
           /\ e.kind \in kinds =>
                Cardinality(Loaded(r, kinds)) = Cardinality(Loaded(q, kinds)) + 1
           /\ e.kind \notin kinds =>
                Cardinality(Loaded(r, kinds)) = Cardinality(Loaded(q, kinds))
  <1> DEFINE n == Len(q[i]) + 1
  <1>1. /\ r \in [Instances -> Seq(Effects)]
        /\ \A j \in Instances : j # i => r[j] = q[j]
        /\ r[i] = Append(q[i], e)
    BY DEF Appended
  <1>2. q \in [Instances -> Seq(Effects)] /\ i \in Instances /\ e \in Effects
    BY DEF Appended
  <1>3. /\ n \in Nat /\ DOMAIN r[i] = DOMAIN q[i] \union {n} /\ n \notin DOMAIN q[i]
        /\ r[i][n] = e /\ \A k \in DOMAIN q[i] : r[i][k] = q[i][k]
    BY <1>1
  <1> HIDE DEF n
  <1>4. Positions(r) = Positions(q) \union {<<i, n>>}
    <2>1. ASSUME NEW j \in Instances PROVE DOMAIN q[j] \subseteq DOMAIN r[j]
      BY <1>1, <1>3
    <2>2. ASSUME NEW j \in Instances, NEW k \in DOMAIN r[j], ~(j = i /\ k = n)
          PROVE  k \in DOMAIN q[j]
      BY <1>1, <1>3, <2>2
    <2>3. n \in DOMAIN r[i]
      BY <1>3
    <2>4. \A x \in Positions(r) : x \in Positions(q) \/ x = <<i, n>>
      <3> SUFFICES ASSUME NEW x \in Positions(r) PROVE x \in Positions(q) \/ x = <<i, n>>
        OBVIOUS
      <3>1. PICK j \in Instances : \E k \in DOMAIN r[j] : x = <<j, k>>
        BY PositionsMembers
      <3>2. PICK k \in DOMAIN r[j] : x = <<j, k>>
        BY <3>1
      <3>3. ~(j = i /\ k = n) => x \in Positions(q)
        BY <2>2, <3>2, PositionsMembers
      <3> QED BY <3>2, <3>3
    <2>5. \A x \in Positions(q) : x \in Positions(r)
      <3> SUFFICES ASSUME NEW x \in Positions(q) PROVE x \in Positions(r)
        OBVIOUS
      <3>1. PICK j \in Instances : \E k \in DOMAIN q[j] : x = <<j, k>>
        BY PositionsMembers
      <3> QED BY <2>1, <3>1, PositionsMembers
    <2>6. <<i, n>> \in Positions(r)
      BY <1>2, <2>3, PositionsMembers
    <2> QED BY <2>4, <2>5, <2>6
  <1>5. \A x \in Positions(q) : x # <<i, n>> /\ r[x[1]][x[2]] = q[x[1]][x[2]]
    <2> SUFFICES ASSUME NEW x \in Positions(q)
                 PROVE  x # <<i, n>> /\ r[x[1]][x[2]] = q[x[1]][x[2]]
      OBVIOUS
    <2>1. PICK j \in Instances : \E k \in DOMAIN q[j] : x = <<j, k>>
      BY PositionsMembers
    <2>2. PICK k \in DOMAIN q[j] : x = <<j, k>>
      BY <2>1
    <2> QED BY <1>1, <1>3, <2>2
  <1>6. Loaded(r, kinds) = Loaded(q, kinds) \union
                               (IF e.kind \in kinds THEN {<<i, n>>} ELSE {})
    <2>1. r[<<i, n>>[1]][<<i, n>>[2]] = e
      BY <1>3
    <2>2. \A x \in Positions(q) :
              x \in Loaded(r, kinds) <=> x \in Loaded(q, kinds)
      BY <1>4, <1>5 DEF Loaded
    <2>3. <<i, n>> \in Loaded(r, kinds) <=> e.kind \in kinds
      BY <1>4, <2>1 DEF Loaded
    <2>4. Loaded(r, kinds) \subseteq Positions(q) \union {<<i, n>>}
          /\ Loaded(q, kinds) \subseteq Positions(q)
      BY <1>4 DEF Loaded
    <2> QED BY <2>2, <2>3, <2>4
  <1>7. IsFiniteSet(Loaded(q, kinds)) /\ <<i, n>> \notin Loaded(q, kinds)
    <2>1. IsFiniteSet(Positions(q)) /\ Loaded(q, kinds) \subseteq Positions(q)
      BY <1>2, PositionsAreFinite DEF Loaded
    <2> QED BY <1>5, <2>1, FS_Subset
  <1>8. /\ Cardinality(Loaded(q, kinds)) \in Nat
        /\ Cardinality(Loaded(q, kinds) \union {<<i, n>>}) = Cardinality(Loaded(q, kinds)) + 1
    BY <1>7, FS_AddElement, FS_CardinalityType
  <1>9. CASE e.kind \in kinds
    BY <1>6, <1>8, <1>9
  <1>10. CASE e.kind \notin kinds
    <2>1. Loaded(r, kinds) = Loaded(q, kinds)
      BY <1>6, <1>10
    <2> QED BY <1>8, <1>10, <2>1
  <1> QED BY <1>9, <1>10

\* An effect taken from the head of a queue loads nothing more.
LEMMA TailUnloads ==
    ASSUME NEW q \in [Instances -> Seq(Effects)],
           NEW i \in Instances, q[i] # <<>>, NEW kinds,
           NEW r \in [Instances -> Seq(Effects)], r[i] = Tail(q[i]),
           \A j \in Instances : j # i => r[j] = q[j]
    PROVE  /\ Cardinality(Loaded(q, kinds)) \in Nat
           /\ Cardinality(Loaded(r, kinds)) \in Nat
           /\ Cardinality(Loaded(r, kinds)) <= Cardinality(Loaded(q, kinds))
  <1> DEFINE f == [x \in Loaded(r, kinds) |->
                     IF x[1] = i THEN <<i, x[2] + 1>> ELSE x]
  <1>1. /\ r \in [Instances -> Seq(Effects)]
        /\ \A j \in Instances : j # i => r[j] = q[j]
        /\ r[i] = Tail(q[i])
    OBVIOUS
  <1>2. \A k \in DOMAIN r[i] : k \in Nat /\ k + 1 \in DOMAIN q[i] /\ r[i][k] = q[i][k + 1]
    BY <1>1
  <1>3. ASSUME NEW x \in Loaded(r, kinds) PROVE f[x] \in Loaded(q, kinds)
    <2>0. PICK j \in Instances : \E k \in DOMAIN r[j] : x = <<j, k>>
      BY PositionsMembers DEF Loaded
    <2>1. PICK k \in DOMAIN r[j] : x = <<j, k>>
      BY <2>0
    <2>2. r[j][k].kind \in kinds
      BY <2>1 DEF Loaded
    <2>3. CASE j = i
      <3>1. f[x] = <<i, k + 1>>
        BY <2>1, <2>3
      <3>2. k + 1 \in DOMAIN q[i] /\ q[i][k + 1] = r[i][k]
        BY <1>2, <2>1, <2>3
      <3>3. <<i, k + 1>> \in Positions(q)
        BY <3>2, PositionsMembers
      <3> HIDE DEF f
      <3> QED BY <2>2, <2>3, <3>1, <3>2, <3>3 DEF Loaded
    <2>4. CASE j # i
      <3>1. f[x] = <<j, k>> /\ r[j] = q[j]
        BY <1>1, <2>1, <2>4
      <3> QED BY ZenonT(60), <2>1, <2>2, <3>1, PositionsMembers DEF Loaded
    <2> QED BY <2>3, <2>4
  <1>4. f \in Injection(Loaded(r, kinds), Loaded(q, kinds))
    <2>1. ASSUME NEW x \in Loaded(r, kinds)
          PROVE  x = <<x[1], x[2]>> /\ (x[1] = i => x[2] \in Nat)
      <3>1. PICK j \in Instances : \E k \in DOMAIN r[j] : x = <<j, k>>
        BY PositionsMembers DEF Loaded
      <3>2. PICK k \in DOMAIN r[j] : x = <<j, k>>
        BY <3>1
      <3>3. x[1] = j /\ x[2] = k
        BY <3>2
      <3> QED BY <1>2, <3>2, <3>3
    <2>2. ASSUME NEW x \in Loaded(r, kinds), NEW y \in Loaded(r, kinds), f[x] = f[y]
          PROVE  x = y
      <3>1. x = <<x[1], x[2]>> /\ y = <<y[1], y[2]>>
            /\ (x[1] = i => x[2] \in Nat) /\ (y[1] = i => y[2] \in Nat)
        BY <2>1
      <3>2. f[x] = <<x[1], IF x[1] = i THEN x[2] + 1 ELSE x[2]>>
            /\ f[y] = <<y[1], IF y[1] = i THEN y[2] + 1 ELSE y[2]>>
        BY <3>1
      <3>3. x[1] = y[1]
        BY <2>2, <3>2
      <3>4. x[2] = y[2]
        BY <2>2, <3>1, <3>2, <3>3
      <3> QED BY <3>1, <3>3, <3>4
    <2> QED BY <1>3, <2>2 DEF Injection, IsInjective
  <1>5. IsFiniteSet(Loaded(q, kinds)) /\ IsFiniteSet(Loaded(r, kinds))
    <2>1. Loaded(q, kinds) \subseteq Positions(q) /\ Loaded(r, kinds) \subseteq Positions(r)
      BY DEF Loaded
    <2> QED BY <1>1, <2>1, PositionsAreFinite, FS_Subset
  <1> HIDE DEF f
  <1> QED BY <1>4, <1>5, FS_Injection, FS_CardinalityType

----------------------------------------------------------------------------
(* Effects and fresh numbers *)

\* The loads depend on the queues only.
LEMMA SameQueuesSameLoads ==
    ASSUME NEW t, NEW u, u.queue = t.queue
    PROVE  WithinReserves(u) <=> WithinReserves(t)
  BY DEF WithinReserves, Load, Places

\* An effect that finds room stays within its reserve.
LEMMA RoomIsEnough ==
    ASSUME NEW t, Typed(t), NEW i \in Instances, NEW e \in Effects, Room(t, e),
           NEW u, u.queue = [t.queue EXCEPT ![i] = Append(@, e)]
    PROVE  WithinReserves(u)
  <1> DEFINE q == t.queue
             r == u.queue
  <1>2. Appended(q, i, e, r)
    BY DEF Typed, SessionRecords, Appended
  <1>3. \A x : Load(t, x) = Cardinality(Loaded(q, x)) /\ Load(u, x) = Cardinality(Loaded(r, x))
    BY LoadCounts
  <1> HIDE DEF q, r
  <1>4. ASSUME NEW kinds
        PROVE  /\ Load(t, kinds) \in Nat
               /\ e.kind \in kinds => Load(u, kinds) = Load(t, kinds) + 1
               /\ e.kind \notin kinds => Load(u, kinds) = Load(t, kinds)
    <2>1. /\ Cardinality(Loaded(q, kinds)) \in Nat
          /\ e.kind \in kinds => Cardinality(Loaded(r, kinds)) = Cardinality(Loaded(q, kinds)) + 1
          /\ e.kind \notin kinds => Cardinality(Loaded(r, kinds)) = Cardinality(Loaded(q, kinds))
      BY <1>2, AppendLoads
    <2> QED BY <1>3, <2>1
  <1>5. /\ Load(t, Cleanup) \in Nat /\ Load(t, Cleanup) <= CleanupCapacity
        /\ Load(t, Ordinary) \in Nat /\ Load(t, Ordinary) <= Capacity
        /\ Capacity \in Nat /\ CleanupCapacity \in Nat
    BY <1>4, LifecycleAssumption DEF Typed, WithinReserves
  <1>6. e.kind \in Cleanup <=> e.kind \notin Ordinary
    BY DEF Effects, Cleanup, Ordinary
  <1>8. CASE IsCleanup(e)
    BY <1>4, <1>5, <1>6, <1>8 DEF WithinReserves, Room, IsCleanup
  <1>9. CASE ~IsCleanup(e)
    BY <1>4, <1>5, <1>6, <1>9 DEF WithinReserves, Room, IsCleanup
  <1> QED BY <1>8, <1>9

\* Submit does one of these, and stays within the reserves.
LEMMA SubmitResult ==
    ASSUME NEW t, Typed(t), NEW i \in Instances, NEW e \in Effects
    PROVE  LET u == Submit(t, i, e) IN
           Typed(u) /\ OnlyQueues(t, u) /\ Submitted(t, u, i, e)
  <1>1. CASE Room(t, e)
    <2> DEFINE u == [t EXCEPT !.queue[i] = Append(@, e)]
    <2>1. Append(t.queue[i], e) \in Seq(Effects)
      BY DEF Typed, SessionRecords
    <2>2. u \in SessionRecords /\ OnlyQueues(t, u)
          /\ u.queue = [t.queue EXCEPT ![i] = Append(@, e)] /\ u.lossy = t.lossy
      BY <2>1 DEF Typed, SessionRecords, OnlyQueues
    <2> HIDE DEF u
    <2>3. u = Submit(t, i, e)
      BY <1>1 DEF Submit, u
    <2>4. WithinReserves(u)
      BY <1>1, <2>2, RoomIsEnough
    <2> QED BY <2>2, <2>3, <2>4 DEF Typed, Submitted, OnlyQueues
  <1>2. CASE ~Room(t, e) /\ IsCleanup(e)
    <2> DEFINE u == [t EXCEPT !.lossy = @ \union {e.b}]
    <2>1. u \in SessionRecords /\ OnlyQueues(t, u)
          /\ u.queue = t.queue /\ u.lossy = t.lossy \union {e.b}
      BY ZenonT(60) DEF Typed, SessionRecords, OnlyQueues, Effects
    <2> HIDE DEF u
    <2>2. u = Submit(t, i, e)
      BY <1>2 DEF Submit, u
    <2> QED BY <1>2, <2>1, <2>2, SameQueuesSameLoads DEF Typed, Submitted, OnlyQueues
  <1>3. CASE ~Room(t, e) /\ ~IsCleanup(e)
    BY <1>3 DEF Submit, Submitted, OnlyQueues
  <1> QED BY <1>1, <1>2, <1>3

\* What enabling a binding's authority changes.
LEMMA EnableResult ==
    ASSUME NEW t, Typed(t), NEW b \in Ids, t.lease[b].ctl \in Controls
    PROVE  LET u == Enable(t, b) IN
           /\ Typed(u)
           /\ u = [t EXCEPT !.input = [t.input EXCEPT ![t.lease[b].ctl] = b],
                            !.authority = t.authority \union {b}]
  <1> DEFINE u == Enable(t, b)
  <1>1. /\ u \in SessionRecords /\ u.stored = t.stored /\ u.queue = t.queue /\ u.ops = t.ops
        /\ u = [t EXCEPT !.input = [t.input EXCEPT ![t.lease[b].ctl] = b],
                         !.authority = t.authority \union {b}]
    BY ZenonT(60) DEF Typed, SessionRecords, Enable
  <1> HIDE DEF u
  <1> QED BY <1>1, SameQueuesSameLoads DEF Typed, u

\* The effects that concern a binding only are effects.
LEMMA OfIsEffect ==
    ASSUME NEW kind \in {"prepare", "down", "up", "cancel", "detach", "destroy"}, NEW b \in Ids
    PROVE  Of(kind, b) \in Effects /\ Of(kind, b).kind = kind /\ Of(kind, b).b = b
  BY DEF Of, Effect, Effects, None

\* What a submission does to what is queued.
LEMMA SubmitQueues ==
    ASSUME NEW t, Typed(t), NEW u, NEW i \in Instances, NEW e \in Effects,
           Submitted(t, u, i, e)
    PROVE  /\ Queued(t) \subseteq Queued(u)
           /\ Queued(u) \subseteq Queued(t) \union {e}
  <1>1. t.queue \in [Instances -> Seq(Effects)]
    BY DEF Typed, SessionRecords
  <1>2. CASE u.queue = [t.queue EXCEPT ![i] = Append(@, e)]
    <2>1. \A j \in Instances : ToSet(t.queue[j]) \subseteq ToSet(u.queue[j])
                               /\ ToSet(u.queue[j]) \subseteq ToSet(t.queue[j]) \union {e}
      <3> SUFFICES ASSUME NEW j \in Instances
                   PROVE  ToSet(t.queue[j]) \subseteq ToSet(u.queue[j])
                          /\ ToSet(u.queue[j]) \subseteq ToSet(t.queue[j]) \union {e}
        OBVIOUS
      <3> DEFINE q == t.queue[i]
      <3>1. q \in Seq(Effects)
        BY <1>1
      <3> HIDE DEF q
      <3>2. ToSet(Append(q, e)) = ToSet(q) \union {e}
        BY <3>1, AppendAddsElement
      <3>3. CASE j = i
        <4>1. u.queue[j] = Append(q, e)
          BY <1>1, <1>2, <3>3 DEF q
        <4> QED BY <3>2, <3>3, <4>1 DEF q
      <3>4. CASE j # i
        BY <1>1, <1>2, <3>4
      <3> QED BY <3>3, <3>4
    <2> QED BY <2>1 DEF Queued
  <1>3. CASE u.queue = t.queue
    BY <1>3 DEF Queued
  <1> QED BY <1>2, <1>3 DEF Submitted

\* The operations that a session has and has had to do.
LEMMA QueuedAreEffects ==
    ASSUME NEW t, Typed(t)
    PROVE  /\ IsFiniteSet(Queued(t)) /\ Queued(t) \subseteq Effects
           /\ \A e : e \in Queued(t) <=> \E i \in Instances : \E k \in DOMAIN t.queue[i] :
                                             e = t.queue[i][k]
  <1>1. t.queue \in [Instances -> Seq(Effects)]
    BY DEF Typed, SessionRecords
  <1> DEFINE f == [i \in Instances |-> ToSet(t.queue[i])]
  <1>2. \A i \in Instances : f[i] \subseteq Effects /\ IsFiniteSet(f[i])
    <2> SUFFICES ASSUME NEW i \in Instances
                 PROVE  ToSet(t.queue[i]) \subseteq Effects /\ IsFiniteSet(ToSet(t.queue[i]))
      OBVIOUS
    <2>1. t.queue[i] \in Seq(Effects) /\ DOMAIN t.queue[i] = 1..Len(t.queue[i])
          /\ Len(t.queue[i]) \in Nat
      BY <1>1
    <2>2. IsFiniteSet(DOMAIN t.queue[i])
      BY <2>1, FS_Interval
    <2>3. IsFiniteSet({t.queue[i][k] : k \in DOMAIN t.queue[i]})
      BY <2>2, ImageIsFinite
    <2> QED BY <2>1, <2>3 DEF ToSet
  <1>3. Queued(t) = UNION {f[i] : i \in Instances}
    BY DEF Queued
  <1>4. \A e : e \in Queued(t) <=> \E i \in Instances : \E k \in DOMAIN t.queue[i] :
                                       e = t.queue[i][k]
    BY <1>3 DEF ToSet
  <1> HIDE DEF f
  <1>5. IsFiniteSet({f[i] : i \in Instances})
    <2>1. IsFiniteSet(Instances)
      BY LifecycleAssumption
    <2> QED BY <2>1, ImageIsFinite
  <1>6. IsFiniteSet(UNION {f[i] : i \in Instances})
    <2>1. \A T \in {f[i] : i \in Instances} : IsFiniteSet(T)
      BY <1>2
    <2> QED BY <1>5, <2>1, FS_UNION
  <1> QED BY <1>2, <1>3, <1>4, <1>6

\* A fresh number is not in use.
LEMMA FreshIsNew ==
    ASSUME NEW used, IsFiniteSet(used)
    PROVE  Fresh(used) \in Nat \ {0} /\ Fresh(used) \notin used
  <1> DEFINE n == Cardinality(used)
             S == (1..(n + 1)) \ used
  <1>1. n \in Nat
    BY FS_CardinalityType
  <1>2. S # {}
    <2>1. SUFFICES ASSUME 1..(n + 1) \subseteq used PROVE FALSE
      OBVIOUS
    <2>2. Cardinality(1..(n + 1)) <= n
      BY <2>1, FS_Subset
    <2>3. Cardinality(1..(n + 1)) = n + 1
      BY <1>1, FS_Interval
    <2> QED BY <1>1, <2>2, <2>3
  <1>3. S \in SUBSET (1..(n + 1)) /\ n + 1 \in Nat
    BY <1>1
  <1>4. Min(S) \in S
    BY <1>2, <1>3, MinIsLeast
  <1>5. Fresh(used) = Min(S)
    BY DEF Fresh
  <1>6. \A x \in S : x \in Nat \ {0} /\ x \notin used
    BY <1>1
  <1> HIDE DEF S
  <1> QED BY <1>4, <1>5, <1>6

\* Nothing in the session has the operation or the metadata that is made next.
LEMMA FreshNumbers ==
    ASSUME NEW t, Typed(t), IsFiniteSet(t.ops)
    PROVE  /\ FreshOp(t) \in Nat \ {0} /\ FreshMeta(t) \in Nat \ {0}
           /\ \A o \in t.ops : o[1] # FreshOp(t)
           /\ \A i \in Instances : t.rec[i].meta # FreshMeta(t)
           /\ \A e \in Queued(t) : e.op # FreshOp(t) /\ e.meta # FreshMeta(t)
  <1> DEFINE op == [e \in Queued(t) |-> e.op]
             meta == [e \in Queued(t) |-> e.meta]
             first == [o \in t.ops |-> o[1]]
             mine == [i \in Instances |-> t.rec[i].meta]
             Q == Queued(t)
  <1>1. IsFiniteSet(Q) /\ IsFiniteSet(Instances)
    BY QueuedAreEffects, LifecycleAssumption
  <1>2. /\ {e.op : e \in Q} = {op[e] : e \in Q} /\ {e.meta : e \in Q} = {meta[e] : e \in Q}
        /\ {o[1] : o \in t.ops} = {first[o] : o \in t.ops}
        /\ {t.rec[i].meta : i \in Instances} = {mine[i] : i \in Instances}
    OBVIOUS
  <1> HIDE DEF op, meta, first, mine, Q
  <1>3. /\ IsFiniteSet({op[e] : e \in Q}) /\ IsFiniteSet({meta[e] : e \in Q})
        /\ IsFiniteSet({first[o] : o \in t.ops}) /\ IsFiniteSet({mine[i] : i \in Instances})
    BY <1>1, ImageIsFinite
  <1> DEFINE ops == {o[1] : o \in t.ops} \union {e.op : e \in Q}
             metas == {t.rec[i].meta : i \in Instances} \union {e.meta : e \in Q}
  <1>4. IsFiniteSet(ops) /\ IsFiniteSet(metas)
    BY <1>2, <1>3, FS_Union
  <1>5. FreshOp(t) = Fresh(ops) /\ FreshMeta(t) = Fresh(metas)
    BY DEF FreshOp, FreshMeta, Q
  <1>6. /\ \A o \in t.ops : o[1] \in ops
        /\ \A i \in Instances : t.rec[i].meta \in metas
        /\ \A e \in Q : e.op \in ops /\ e.meta \in metas
    OBVIOUS
  <1> HIDE DEF ops, metas
  <1>7. /\ Fresh(ops) \in Nat \ {0} /\ Fresh(ops) \notin ops
        /\ Fresh(metas) \in Nat \ {0} /\ Fresh(metas) \notin metas
    BY <1>4, FreshIsNew
  <1> QED BY <1>5, <1>6, <1>7 DEF Q

----------------------------------------------------------------------------
(* Revocation *)

\* The identities that are free are those not referred to.
LEMMA FreeIsUnused ==
    ASSUME NEW t, Typed(t) PROVE FreeIds(t) = {b \in Ids : ~InUse(t, b)}
  <1>1. t.stored \in Seq(Ids)
    BY DEF Typed, SessionRecords
  <1>2. \A b : Contains(t.stored, b) <=> b \in St(t)
    BY <1>1, ContainsIsMember DEF St
  <1> QED BY <1>2 DEF FreeIds, InUse

\* Submitting an effect leaves a sound session sound.
LEMMA SubmitKeeps ==
    ASSUME World, NEW t, NEW Y, Sound(t, Y), NEW i \in Instances, NEW e \in Effects,
           e.b = None \/ (e.b \in Ids /\ Granted(t.lease[e.b]))
    PROVE  LET u == Submit(t, i, e) IN
           /\ Sound(u, Y) /\ OnlyQueues(t, u) /\ Submitted(t, u, i, e)
           /\ FreeIds(t) \ {e.b} \subseteq FreeIds(u)
  <1> DEFINE u == Submit(t, i, e)
  <1>1. Typed(u) /\ OnlyQueues(t, u) /\ Submitted(t, u, i, e)
    BY SubmitResult DEF Sound
  <1> HIDE DEF u
  <1>2. Queued(t) \subseteq Queued(u) /\ Queued(u) \subseteq Queued(t) \union {e}
    BY <1>1, SubmitQueues DEF Sound
  <1>3. u.stored = t.stored /\ u.lease = t.lease
    BY <1>1 DEF OnlyQueues
  <1>4. \A b \in Ids : InUse(u, b) => InUse(t, b) \/ b = e.b
    BY <1>2, <1>3 DEF InUse, St
  <1>5. Grants(u)
    <2>1. \A b \in Ids : b # None
      BY DEF Ids, None
    <2> QED BY <1>3, <1>4, <2>1 DEF Sound, Grants
  <1>6. FreeIds(t) \ {e.b} \subseteq FreeIds(u)
    BY <1>1, <1>4, FreeIsUnused DEF Sound
  <1>7. Routes(u) /\ Crosses(u) /\ Ledger(u, Y)
    <2>1. St(u) = St(t) /\ (HardwareCurrent(u) <=> HardwareCurrent(t))
      BY <1>1 DEF OnlyQueues, St, HardwareCurrent
    <2>2. Routes(u) /\ Crosses(u)
      BY <1>1, <2>1 DEF Sound, OnlyQueues, Routes, Crosses
    <2>3. Ledger(t, Y) /\ u.lease = t.lease /\ u.status = t.status /\ u.ops = t.ops
          /\ u.deferred = t.deferred /\ u.wake = t.wake
      BY <1>1 DEF Sound, OnlyQueues
    <2>4. Ledger(u, Y)
      BY <2>1, <2>3 DEF Ledger
    <2> QED BY <2>2, <2>4
  <1> QED BY <1>1, <1>5, <1>6, <1>7 DEF Sound, u

\* A sound session from which a binding is removed is sound.
LEMMA RemovedResult ==
    ASSUME World, NEW t, NEW Y, Sound(t, Y), NEW b \in St(t)
    PROVE  LET u == Removed(t, b) IN
           /\ Sound(u, Y) /\ St(u) = St(t) \ {b}
           /\ u.lease = t.lease /\ u.queue = t.queue /\ u.lossy = t.lossy /\ u.rec = t.rec
           /\ u.page = t.page /\ u.stopped = t.stopped /\ u.recovery = t.recovery
           /\ FreeIds(t) \subseteq FreeIds(u)
  <1> DEFINE u == Removed(t, b)
             c == t.lease[b].ctl
  <1>0. t.stored \in Seq(Ids) /\ IsInjective(t.stored) /\ t \in SessionRecords /\ b \in Ids
    BY DEF Sound, Typed, SessionRecords, St, ToSet
  <1>1. /\ RemoveFirst(t.stored, b) \in Seq(Ids) /\ IsInjective(RemoveFirst(t.stored, b))
        /\ ToSet(RemoveFirst(t.stored, b)) = ToSet(t.stored) \ {b}
    BY <1>0, RemoveFirstRemoves
  <1>2. c \in Controls
    BY <1>0 DEF Sound, Grants, Granted, InUse
  <1>3. /\ u \in SessionRecords /\ u.stored = RemoveFirst(t.stored, b)
        /\ u.status = [t.status EXCEPT ![b] = "retired"]
        /\ u.input = [t.input EXCEPT ![c] = IF @ = b THEN None ELSE @]
        /\ u.authority = t.authority \ {b}
        /\ u.held = [t.held EXCEPT ![c] = IF @ = b THEN None ELSE @]
        /\ u.ops = {o \in t.ops : o[2] # b} /\ u.deferred = {d \in t.deferred : d[1] # b}
        /\ u.wake = t.wake /\ u.lease = t.lease /\ u.queue = t.queue /\ u.lossy = t.lossy
        /\ u.rec = t.rec /\ u.page = t.page /\ u.stopped = t.stopped /\ u.recovery = t.recovery
    <2> DEFINE stored == RemoveFirst(t.stored, b)
               status == [t.status EXCEPT ![b] = "retired"]
               input == [t.input EXCEPT ![c] = IF @ = b THEN None ELSE @]
               authority == t.authority \ {b}
               held == [t.held EXCEPT ![c] = IF @ = b THEN None ELSE @]
               suppressed == IF t.held[c] = b THEN t.suppressed \union {c} ELSE t.suppressed
               ops == {o \in t.ops : o[2] # b}
               deferred == {d \in t.deferred : d[1] # b}
    <2>1. /\ stored \in Seq(Ids) /\ authority \in SUBSET Ids
          /\ status \in [Ids -> {"none", "preparing", "active", "unavailable", "retired"}]
          /\ input \in [Controls -> Ids \union {None}]
          /\ held \in [Controls -> Ids \union {None}] /\ suppressed \in SUBSET Controls
          /\ ops \in SUBSET (Nat \X Ids) /\ deferred \in SUBSET (Ids \X BOOLEAN)
      BY <1>0, <1>1, <1>2 DEF SessionRecords
    <2>2. u = [t EXCEPT !.stored = stored, !.status = status, !.input = input,
                        !.authority = authority, !.held = held, !.suppressed = suppressed,
                        !.ops = ops, !.deferred = deferred]
      BY <1>0 DEF SessionRecords, Removed
    <2> HIDE DEF u, stored, status, input, authority, held, suppressed, ops, deferred
    <2>3. /\ u \in SessionRecords /\ u.stored = stored /\ u.status = status /\ u.input = input
          /\ u.authority = authority /\ u.held = held /\ u.ops = ops /\ u.deferred = deferred
          /\ u.wake = t.wake /\ u.lease = t.lease /\ u.queue = t.queue /\ u.lossy = t.lossy
          /\ u.rec = t.rec /\ u.page = t.page /\ u.stopped = t.stopped
          /\ u.recovery = t.recovery
      BY <1>0, <2>1, <2>2 DEF SessionRecords
    <2> QED BY <2>3 DEF stored, status, input, authority, held, ops, deferred
  <1> HIDE DEF u
  <1>4. St(u) = St(t) \ {b}
    BY <1>1, <1>3 DEF St
  <1>5. Typed(u)
    <2>1. u.ops \subseteq t.ops
      BY <1>3
    <2>2. IsFiniteSet(u.ops)
      BY <2>1, FS_Subset DEF Sound, Typed
    <2> QED BY <1>1, <1>3, <2>2, SameQueuesSameLoads DEF Sound, Typed
  <1>6. \A d \in Ids : InUse(u, d) => InUse(t, d)
    BY <1>3, <1>4 DEF InUse, Queued
  <1>7. Grants(u) /\ Crosses(u)
    BY <1>3, <1>6 DEF Sound, Grants, Crosses
  <1>8. FreeIds(t) \subseteq FreeIds(u)
    BY <1>5, <1>6, FreeIsUnused DEF Sound
  <1>9. Routes(u)
    <2>1. \A x \in Controls :
            /\ u.input[x] = IF x = c /\ t.input[c] = b THEN None ELSE t.input[x]
            /\ u.held[x] = IF x = c /\ t.held[c] = b THEN None ELSE t.held[x]
      BY <1>0, <1>2, <1>3 DEF SessionRecords
    <2>2. ASSUME NEW x \in Controls
          PROVE  /\ u.input[x] # None => u.input[x] \in u.authority /\ u.lease[u.input[x]].ctl = x
                 /\ u.held[x] # None => u.held[x] \in St(u) /\ u.lease[u.held[x]].ctl = x
      <3>1. t.input[x] = b \/ t.held[x] = b => x = c
        <4>1. b # None
          BY <1>0 DEF Ids, None
        <4> QED BY <4>1 DEF Sound, Routes
      <3>2. /\ u.input[x] # None => u.input[x] = t.input[x] /\ u.input[x] # b
            /\ u.held[x] # None => u.held[x] = t.held[x] /\ u.held[x] # b
        BY <2>1, <3>1
      <3>3. /\ t.input[x] # None => t.input[x] \in t.authority /\ t.lease[t.input[x]].ctl = x
            /\ t.held[x] # None => t.held[x] \in St(t) /\ t.lease[t.held[x]].ctl = x
        BY DEF Sound, Routes
      <3>4. u.authority = t.authority \ {b} /\ u.lease = t.lease
        BY <1>3
      <3> QED BY ONLY <1>4, <3>2, <3>3, <3>4
    <2>3. /\ \A d \in St(u) : u.lease[d].attached => d \in u.authority
          /\ \A d \in u.authority : d \in St(u) /\ u.lease[d].attached
          /\ \A d, e \in St(u) : u.lease[d].ctl = u.lease[e].ctl => d = e
      BY <1>3, <1>4 DEF Sound, Routes
    <2> QED BY <2>2, <2>3 DEF Routes
  <1>10. Ledger(u, Y)
    <2>0. St(t) \subseteq Ids /\ t.status \in
              [Ids -> {"none", "preparing", "active", "unavailable", "retired"}]
      BY <1>0 DEF SessionRecords, St, ToSet
    <2>1. \A d \in St(u) : d # b /\ u.status[d] = t.status[d]
      BY <1>0, <1>3, <1>4, <2>0
    <2>2. \A d \in St(u) : \A r \in BOOLEAN : <<d, r>> \in t.deferred => <<d, r>> \in u.deferred
      BY <1>3, <2>1
    <2>3. \A o \in u.ops : o \in t.ops /\ o[2] \in St(u)
      BY <1>3, <1>4 DEF Sound, Ledger
    <2>4. \A d \in u.deferred : d \in t.deferred /\ d[1] \in St(u)
      BY <1>3, <1>4 DEF Sound, Ledger
    <2>5. St(u) \subseteq St(t) /\ (HardwareCurrent(u) <=> HardwareCurrent(t))
      BY <1>3, <1>4 DEF HardwareCurrent
    <2>6. Ledger(t, Y)
      BY DEF Sound
    <2>7. /\ \A o \in u.ops : o[2] \in St(u) /\ u.status[o[2]] = "preparing"
          /\ \A o, q \in u.ops : o[2] = q[2] => o = q
          /\ \A d \in u.deferred : d[1] \in St(u) /\ u.status[d[1]] = "unavailable" /\ u.wake
      BY <1>3, <2>1, <2>3, <2>4, <2>6 DEF Ledger
    <2>8. \A d \in St(u) :
            /\ u.status[d] \in {"none", "preparing", "active", "unavailable"}
            /\ u.status[d] = "active" <=> u.lease[d].ready
            /\ u.lease[d].ready => u.lease[d].attached
      BY <1>3, <2>1, <2>5, <2>6 DEF Ledger
    <2>9. \A d \in St(u) \ Y :
            /\ u.status[d] # "none"
            /\ u.status[d] = "unavailable" =>
                 \/ \E r \in BOOLEAN : <<d, r>> \in u.deferred
                 \/ ~UsesCurrentContract(u.lease[d]) \/ ~HardwareCurrent(u)
      BY <1>3, <2>1, <2>2, <2>5, <2>6 DEF Ledger
    <2> QED BY <2>7, <2>8, <2>9 DEF Ledger
  <1> QED BY <1>3, <1>4, <1>5, <1>7, <1>8, <1>9, <1>10 DEF Sound, u

\* A submission does not depend on what is stored.
LEMMA SubmitCommutes ==
    ASSUME NEW t \in SessionRecords, NEW i \in Instances, NEW e, NEW q
    PROVE  [Submit(t, i, e) EXCEPT !.stored = q] = Submit([t EXCEPT !.stored = q], i, e)
  <1> DEFINE v == [t EXCEPT !.stored = q]
  <1>1. v.queue = t.queue
    BY DEF SessionRecords
  <1>2. Room(v, e) <=> Room(t, e)
    BY <1>1 DEF Room, Load, Places
  <1>3. CASE Room(t, e)
    <2>1. Submit(t, i, e) = [t EXCEPT !.queue = [t.queue EXCEPT ![i] = Append(@, e)]]
      BY <1>3 DEF Submit, SessionRecords
    <2>2. Submit(v, i, e) = [v EXCEPT !.queue = [t.queue EXCEPT ![i] = Append(@, e)]]
      BY <1>1, <1>2, <1>3 DEF Submit, SessionRecords
    <2> DEFINE r == [t.queue EXCEPT ![i] = Append(@, e)]
    <2> HIDE DEF r
    <2>3. [[t EXCEPT !.queue = r] EXCEPT !.stored = q] = [[t EXCEPT !.stored = q] EXCEPT !.queue = r]
      BY DEF SessionRecords
    <2> QED BY <2>1, <2>2, <2>3 DEF r
  <1>4. CASE ~Room(t, e) /\ IsCleanup(e)
    <2>1. Submit(t, i, e) = [t EXCEPT !.lossy = t.lossy \union {e.b}]
      BY <1>4 DEF Submit
    <2>2. Submit(v, i, e) = [v EXCEPT !.lossy = t.lossy \union {e.b}]
      BY <1>2, <1>4 DEF Submit, SessionRecords
    <2> DEFINE r == t.lossy \union {e.b}
    <2> HIDE DEF r
    <2>3. [[t EXCEPT !.lossy = r] EXCEPT !.stored = q] = [[t EXCEPT !.stored = q] EXCEPT !.lossy = r]
      BY DEF SessionRecords
    <2> QED BY <2>1, <2>2, <2>3 DEF r
  <1>5. CASE ~Room(t, e) /\ ~IsCleanup(e)
    BY <1>2, <1>5 DEF Submit
  <1> QED BY <1>3, <1>4, <1>5

\* The order in which a revocation takes a binding out of the session's maps and
\* submits its effects makes no difference to the result.
LEMMA RevokeIsRevoked ==
    ASSUME World, NEW t, NEW Y, Sound(t, Y), NEW b \in St(t), NEW notify
    PROVE  Revoke(t, b, notify) = Revoked(t, b, notify)
  <1> DEFINE c == t.lease[b].ctl
             i == t.lease[b].inst
             e == Of("cancel", b)
             v == Disable(Retire(t, b), b)
             w == [v EXCEPT !.held[c] = None, !.suppressed = @ \union {c}]
             q == RemoveFirst(t.stored, b)
             u == CancelHeld(v, b)
  <1>0. t.stored \in Seq(Ids) /\ t \in SessionRecords /\ b \in Ids /\ Contains(t.stored, b)
    <2>1. t.stored \in Seq(Ids)
      BY DEF Sound, Typed, SessionRecords
    <2> QED BY <2>1, ContainsIsMember DEF Sound, Typed, St, ToSet
  <1>1. c \in Controls /\ i \in Instances
    BY <1>0 DEF Sound, Grants, Granted, InUse
  <1>2. v = [t EXCEPT !.status[b] = "retired", !.input[c] = IF @ = b THEN None ELSE @,
                      !.authority = @ \ {b}, !.ops = {o \in @ : o[2] # b},
                      !.deferred = {d \in @ : d[1] # b}]
    BY ZenonT(60), <1>0 DEF SessionRecords, Disable, Retire
  <1>3. /\ v \in SessionRecords /\ v.stored = t.stored /\ v.held = t.held /\ v.lease = t.lease
        /\ v.suppressed = t.suppressed
    <2> DEFINE status == [t.status EXCEPT ![b] = "retired"]
               input == [t.input EXCEPT ![c] = IF @ = b THEN None ELSE @]
               authority == t.authority \ {b}
               ops == {o \in t.ops : o[2] # b}
               deferred == {d \in t.deferred : d[1] # b}
    <2>1. /\ status \in [Ids -> {"none", "preparing", "active", "unavailable", "retired"}]
          /\ input \in [Controls -> Ids \union {None}] /\ authority \in SUBSET Ids
          /\ ops \in SUBSET (Nat \X Ids) /\ deferred \in SUBSET (Ids \X BOOLEAN)
      BY <1>0, <1>1 DEF SessionRecords
    <2>2. v = [t EXCEPT !.status = status, !.input = input, !.authority = authority,
                        !.ops = ops, !.deferred = deferred]
      BY <1>2
    <2> HIDE DEF v, status, input, authority, ops, deferred
    <2> QED BY <1>0, <2>1, <2>2 DEF SessionRecords
  <1>4. /\ t.held[c] # b => [v EXCEPT !.stored = q] = Removed(t, b)
        /\ t.held[c] = b => [w EXCEPT !.stored = q] = Removed(t, b)
    <2>1. ASSUME t.held[c] # b PROVE [v EXCEPT !.stored = q] = Removed(t, b)
      <3>1. t.held = [t.held EXCEPT ![c] = IF @ = b THEN None ELSE @]
        BY <1>0, <2>1 DEF SessionRecords
      <3> DEFINE held == [t.held EXCEPT ![c] = IF @ = b THEN None ELSE @]
      <3>2. Removed(t, b) =
              [t EXCEPT !.stored = q, !.status = [t.status EXCEPT ![b] = "retired"],
                        !.input = [t.input EXCEPT ![c] = IF @ = b THEN None ELSE @],
                        !.authority = t.authority \ {b}, !.held = held,
                        !.suppressed = t.suppressed, !.ops = {o \in t.ops : o[2] # b},
                        !.deferred = {d \in t.deferred : d[1] # b}]
        BY <1>0, <2>1 DEF SessionRecords, Removed
      <3>3. held = t.held
        BY <3>1
      <3> DEFINE status == [t.status EXCEPT ![b] = "retired"]
                 input == [t.input EXCEPT ![c] = IF @ = b THEN None ELSE @]
                 authority == t.authority \ {b}
                 ops == {o \in t.ops : o[2] # b}
                 deferred == {d \in t.deferred : d[1] # b}
      <3>4. v = [t EXCEPT !.status = status, !.input = input, !.authority = authority,
                          !.ops = ops, !.deferred = deferred]
        BY <1>2
      <3>5. Removed(t, b) =
              [t EXCEPT !.stored = q, !.status = status, !.input = input,
                        !.authority = authority, !.held = t.held,
                        !.suppressed = t.suppressed, !.ops = ops, !.deferred = deferred]
        BY ZenonT(60), <3>2, <3>3
      <3> HIDE DEF v, held, q, status, input, authority, ops, deferred
      <3> QED BY ZenonT(60), <1>0, <3>4, <3>5 DEF SessionRecords
    <2>2. ASSUME t.held[c] = b PROVE [w EXCEPT !.stored = q] = Removed(t, b)
      BY ZenonT(60), <1>0, <1>1, <1>2, <2>2 DEF SessionRecords, Removed
    <2> QED BY <2>1, <2>2
  <1>5. w \in SessionRecords /\ w.stored = t.stored
    BY ZenonT(60), <1>1, <1>3 DEF SessionRecords
  <1>6. u = IF t.held[c] # b THEN v ELSE IF ~t.lease[b].attached THEN w ELSE Submit(w, i, e)
    BY <1>3 DEF CancelHeld
  <1>7. u.stored = t.stored
    <2>1. Submit(w, i, e).stored = t.stored
      BY <1>5 DEF Submit, SessionRecords
    <2> QED BY <1>3, <1>5, <1>6, <2>1
  <1>8. [u EXCEPT !.stored = RemoveFirst(@, b)] = Cancelled(t, b)
    <2>1. [u EXCEPT !.stored = RemoveFirst(@, b)] = [u EXCEPT !.stored = q]
      BY <1>7
    <2> HIDE DEF u, v, w, q, e, i
    <2>2. [Submit(w, i, e) EXCEPT !.stored = q] = Submit([w EXCEPT !.stored = q], i, e)
      BY <1>1, <1>5, SubmitCommutes
    <2> QED BY ZenonT(60), <1>4, <1>6, <2>1, <2>2 DEF Cancelled, e, i
  <1> QED BY <1>0, <1>8 DEF Revoke, Revoked

\* The revocation of a binding that is not installed does nothing.
LEMMA RevokeKeeps ==
    ASSUME World, NEW t, NEW Y, Sound(t, Y), NEW b, NEW notify
    PROVE  LET u == Revoke(t, b, notify) IN
           /\ Sound(u, Y) /\ St(u) = St(t) \ {b} /\ u.lease = t.lease
           /\ u.page = t.page /\ u.stopped = t.stopped /\ u.recovery = t.recovery
           /\ FreeIds(t) \subseteq FreeIds(u)
  <1>0. t.stored \in Seq(Ids)
    BY DEF Sound, Typed, SessionRecords
  <1>1. CASE b \notin St(t)
    <2>1. Revoke(t, b, notify) = t
      BY <1>0, <1>1, ContainsIsMember DEF Revoke, St
    <2> QED BY <1>1, <2>1
  <1>2. CASE b \in St(t)
    <2> DEFINE x == Removed(t, b)
               y == Cancelled(t, b)
               z == Revoked(t, b, notify)
               i == t.lease[b].inst
    <2>1. /\ Sound(x, Y) /\ St(x) = St(t) \ {b} /\ x.lease = t.lease
          /\ x.page = t.page /\ x.stopped = t.stopped /\ x.recovery = t.recovery
          /\ FreeIds(t) \subseteq FreeIds(x)
      BY <1>2, RemovedResult
    <2>2. b \in Ids /\ InUse(t, b) /\ Granted(t.lease[b]) /\ i \in Instances
      BY <1>0, <1>2 DEF Sound, Grants, Granted, InUse, St, ToSet
    <2>3. b \notin FreeIds(t)
      BY <2>2, FreeIsUnused DEF Sound
    <2>4. /\ Of("cancel", b) \in Effects /\ Of("cancel", b).b = b
          /\ Of("detach", b) \in Effects /\ Of("detach", b).b = b
      BY <2>2, OfIsEffect
    <2>5. /\ Sound(y, Y) /\ St(y) = St(t) \ {b} /\ y.lease = t.lease
          /\ y.page = t.page /\ y.stopped = t.stopped /\ y.recovery = t.recovery
          /\ FreeIds(t) \subseteq FreeIds(y)
      <3> DEFINE w == Submit(x, i, Of("cancel", b))
      <3>1. Sound(w, Y) /\ OnlyQueues(x, w) /\ FreeIds(x) \ {b} \subseteq FreeIds(w)
        BY <2>1, <2>2, <2>4, SubmitKeeps
      <3>2. y = x \/ y = w
        BY DEF Cancelled
      <3> HIDE DEF w, x, y
      <3> QED BY <2>1, <2>3, <3>1, <3>2 DEF OnlyQueues, St
    <2>6. /\ Sound(z, Y) /\ St(z) = St(t) \ {b} /\ z.lease = t.lease
          /\ z.page = t.page /\ z.stopped = t.stopped /\ z.recovery = t.recovery
          /\ FreeIds(t) \subseteq FreeIds(z)
      <3> DEFINE w == Submit(y, i, Of("detach", b))
      <3>1. Sound(w, Y) /\ OnlyQueues(y, w) /\ FreeIds(y) \ {b} \subseteq FreeIds(w)
        BY <2>2, <2>4, <2>5, SubmitKeeps
      <3>2. z = y \/ z = w
        BY DEF Revoked
      <3> HIDE DEF w, y, z
      <3> QED BY <2>3, <2>5, <3>1, <3>2 DEF OnlyQueues, St
    <2> QED BY <1>2, <2>6, RevokeIsRevoked
  <1> QED BY <1>1, <1>2

----------------------------------------------------------------------------
(* Activation *)

\* A binding that is preparing or active needs no activation.
LEMMA Settled ==
    ASSUME NEW t, NEW Y, Ledger(t, Y), NEW b, t.status[b] \in {"preparing", "active"}
    PROVE  Ledger(t, Y \ {b})
  <1>1. \A d \in St(t) \ (Y \ {b}) : d \in St(t) \ Y \/ d = b
    OBVIOUS
  <1> QED BY <1>1 DEF Ledger

\* An attached binding may be given its authority again.
LEMMA EnableKeeps ==
    ASSUME World, NEW t, NEW Y, Sound(t, Y), NEW b \in St(t), t.lease[b].attached
    PROVE  LET u == Enable(t, b) IN
           /\ Sound(u, Y) /\ u.stored = t.stored /\ u.lease = t.lease
           /\ u.page = t.page /\ u.stopped = t.stopped /\ u.recovery = t.recovery
           /\ FreeIds(t) \subseteq FreeIds(u)
  <1> DEFINE u == Enable(t, b)
             c == t.lease[b].ctl
             input == [t.input EXCEPT ![c] = b]
             authority == t.authority \union {b}
  <1>0. t \in SessionRecords /\ t.stored \in Seq(Ids) /\ b \in Ids
    BY DEF Sound, Typed, SessionRecords, St, ToSet
  <1>1. c \in Controls
    BY <1>0 DEF Sound, Grants, Granted, InUse
  <1>2. Typed(u) /\ u = [t EXCEPT !.input = input, !.authority = authority]
    BY ZenonT(60), <1>0, <1>1, EnableResult DEF Sound
  <1> HIDE DEF u, input, authority
  <1>3. /\ u.stored = t.stored /\ u.lease = t.lease /\ u.status = t.status /\ u.held = t.held
        /\ u.ops = t.ops /\ u.deferred = t.deferred /\ u.wake = t.wake /\ u.queue = t.queue
        /\ u.page = t.page /\ u.stopped = t.stopped /\ u.recovery = t.recovery
        /\ u.input = input /\ u.authority = authority
    BY <1>0, <1>2 DEF SessionRecords
  <1>4. St(u) = St(t) /\ (HardwareCurrent(u) <=> HardwareCurrent(t))
    BY <1>3 DEF St, HardwareCurrent
  <1>5. \A d \in Ids : InUse(u, d) <=> InUse(t, d)
    BY <1>3, <1>4 DEF InUse, Queued
  <1>6. Grants(u) /\ Crosses(u) /\ FreeIds(u) = FreeIds(t)
    BY <1>2, <1>3, <1>5, FreeIsUnused DEF Sound, Grants, Crosses
  <1>7. Ledger(u, Y)
    <2>1. Ledger(t, Y)
      BY DEF Sound
    <2> QED BY SMTT(30), <1>3, <1>4, <2>1 DEF Ledger
  <1>8. Routes(u)
    <2>1. \A x \in Controls : input[x] = IF x = c THEN b ELSE t.input[x]
      BY <1>0, <1>1 DEF SessionRecords, input
    <2> QED BY <1>3, <1>4, <2>1 DEF Sound, Routes, authority
  <1> QED BY <1>2, <1>3, <1>6, <1>7, <1>8 DEF Sound, u

\* The contract of a provider session is an agreement, if there is one.
LEMMA ContractsAreAgreements ==
    ASSUME World, NEW session
    PROVE  CurrentContract(session) \in Agreements \union {None}
  BY DEF World, CurrentContract, agreement

\* Arranging a preparation of a stored binding changes just that.
LEMMA ArrangedResult ==
    ASSUME World, NEW t, NEW Y, Sound(t, Y), NEW b \in St(t), NEW restart \in BOOLEAN
    PROVE  IsArranged(t, b, restart, Arranged(t, b, restart))
  <1> DEFINE l == t.lease[b]
             i == l.inst
             session == SessionOfLease(l)
             fresh == [meta |-> FreshMeta(t), session |-> session,
                       contract |-> CurrentContract(session), started |-> FALSE]
             old == t.rec[i]
             same == old.meta # None /\ old.session = session
                     /\ old.contract = CurrentContract(session)
             r == IF same THEN old ELSE fresh
             q == [r EXCEPT !.started = @ /\ ~restart]
             u == Arranged(t, b, restart)
             lease == [t.lease EXCEPT ![b] = [l EXCEPT !.ready = FALSE]]
             deferred == {d \in t.deferred : d[1] # b}
  <1>0. t \in SessionRecords /\ b \in Ids /\ IsFiniteSet(t.ops) /\ Typed(t)
    BY DEF Sound, Typed, SessionRecords, St, ToSet
  <1>1. i \in Instances /\ l.contract \in Agreements
    <2>1. l.contract \in 1..agreed.last /\ i \in Instances
      BY <1>0 DEF Sound, Grants, Granted, InUse
    <2> QED BY <2>1, LifecycleAssumption DEF World, Agreements
  <1>2. fresh \in Records
    <2>1. FreshMeta(t) \in Nat
      BY <1>0, FreshNumbers
    <2>2. session \in Sessions
      BY <1>1 DEF Sessions, SessionOfLease
    <2> QED BY <2>1, <2>2, ContractsAreAgreements DEF Records
  <1>3. old \in Records
    BY <1>0, <1>1 DEF SessionRecords
  <1>4. FreshMeta(t) # None
    BY <1>0, FreshNumbers DEF None
  <1>5. Arrangement(t, i, session, restart, q)
    <2>1. CASE same
      <3>1. r = old
        BY <2>1
      <3>2. CASE restart
        <4>1. q = [old EXCEPT !.started = FALSE]
          BY ZenonT(60), <3>1, <3>2
        <4>2. q \in Records /\ q.meta = old.meta /\ q.session = old.session
              /\ q.contract = old.contract /\ ~q.started
          BY ZenonT(60), <1>3, <4>1 DEF Records
        <4> HIDE DEF q
        <4> QED BY <2>1, <4>2 DEF Arrangement
      <3>3. CASE ~restart
        <4>1. q = [old EXCEPT !.started = old.started]
          BY ZenonT(60), <1>3, <3>1, <3>3 DEF Records
        <4>2. q = old
          BY ZenonT(60), <1>3, <4>1 DEF Records
        <4> HIDE DEF q
        <4> QED BY <1>3, <2>1, <3>3, <4>2 DEF Arrangement
      <3> QED BY ZenonT(60), <3>2, <3>3
    <2>2. CASE ~same
      <3>1. q = [fresh EXCEPT !.started = FALSE]
        BY ZenonT(60), <2>2
      <3> HIDE DEF q, same, r
      <3>2. q = fresh
        BY <3>1
      <3>3. q.meta = FreshMeta(t) /\ q.session = session /\ ~q.started
            /\ q.contract = CurrentContract(session)
        BY <3>2
      <3>4. q \in Records
        BY <1>2, <3>2
      <3> QED BY <1>4, <3>3, <3>4 DEF Arrangement
    <2> QED BY ZenonT(60), <2>1, <2>2
  <1>6. /\ u = [t EXCEPT !.rec = [t.rec EXCEPT ![i] = q], !.lease = lease, !.deferred = deferred]
        /\ Reserve(t, i, session).rec[i].meta = q.meta
    <2> DEFINE v == Reserve(t, i, session)
    <2>1. v = [t EXCEPT !.rec = [t.rec EXCEPT ![i] = r]]
      <3>1. CASE same
        <4>1. t.rec = [t.rec EXCEPT ![i] = old]
          BY <1>0, <1>1 DEF SessionRecords
        <4>2. v = t
          BY <3>1 DEF Reserve
        <4> QED BY <1>0, <3>1, <4>1, <4>2 DEF SessionRecords
      <3>2. CASE ~same
        BY <1>0, <1>1, <3>2 DEF SessionRecords, Reserve
      <3> QED BY SMTT(30), <3>1, <3>2
    <2> HIDE DEF r
    <2>2. /\ v.rec = [t.rec EXCEPT ![i] = r] /\ v.rec[i] = r /\ v.lease = t.lease
          /\ v.deferred = t.deferred
      BY <1>0, <1>1, <2>1 DEF SessionRecords
    <2>3. [v.rec EXCEPT ![i] = [r EXCEPT !.started = @ /\ ~restart]] = [t.rec EXCEPT ![i] = q]
      BY <1>0, <1>1, <2>2 DEF SessionRecords
    <2>4. r \in Records
      BY <1>2, <1>3 DEF r
    <2>5. v.rec[i].meta = q.meta
      BY <2>2, <2>4 DEF Records
    <2>6. u = [v EXCEPT !.rec[i].started = @ /\ ~restart,
                        !.lease[b].ready = FALSE,
                        !.deferred = {d \in @ : d[1] # b}]
      BY DEF Arranged
    <2> HIDE DEF v, q, u
    <2>7. u = [v EXCEPT !.rec = [t.rec EXCEPT ![i] = q], !.lease = lease, !.deferred = deferred]
      BY ZenonT(60), <2>2, <2>3, <2>6
    <2> DEFINE recs == [t.rec EXCEPT ![i] = q]
               before == [t.rec EXCEPT ![i] = r]
    <2> HIDE DEF recs, lease, deferred, before
    <2> QED BY ZenonT(60), <1>0, <2>1, <2>7, <2>5 DEF SessionRecords, recs, before, v
  <1>7. u.rec[i] = q
    <2> DEFINE recs == [t.rec EXCEPT ![i] = q]
    <2>1. recs[i] = q
      BY ZenonT(60), <1>0, <1>1 DEF SessionRecords
    <2>2. u = [t EXCEPT !.rec = recs, !.lease = lease, !.deferred = deferred]
      BY ZenonT(60), <1>6
    <2> HIDE DEF u, q, recs, lease, deferred
    <2> QED BY <1>0, <2>1, <2>2 DEF SessionRecords
  <1> HIDE DEF u, q
  <1> QED BY <1>5, <1>6, <1>7 DEF IsArranged, u

\* The ways an activation ends.
LEMMA ActivateIs ==
    ASSUME NEW t, NEW b, NEW force \in BOOLEAN
    PROVE  LET l == t.lease[b]
               restart == force \/ <<b, TRUE>> \in t.deferred
               u == Activate(t, b, force)
           IN \/ l.attached /\ l.ready /\ ~restart /\ u = Enable(t, b)
              \/ HasOperation(t, b) /\ u = t
              \/ /\ ~HasOperation(t, b) /\ ~(l.attached /\ l.ready /\ ~restart)
                 /\ \/ /\ Room(Arranged(t, b, restart), Preparation(t, b, restart))
                       /\ u = Submit(Planned(t, b, restart), l.inst, Preparation(t, b, restart))
                    \/ u = Refused(Arranged(t, b, restart), b, restart)
  <1> DEFINE l == t.lease[b]
             restart == force \/ <<b, TRUE>> \in t.deferred
  <1>1. Activate(t, b, force) =
          IF l.attached /\ l.ready /\ ~restart THEN Enable(t, b)
          ELSE IF HasOperation(t, b) THEN t
          ELSE IF Room(Arranged(t, b, restart), Preparation(t, b, restart))
            THEN Submit(Planned(t, b, restart), l.inst, Preparation(t, b, restart))
            ELSE Refused(Arranged(t, b, restart), b, restart)
    BY DEF Activate, Arranged, Planned, Preparation
  <1> QED BY <1>1

\* Planning a preparation, or having it wait, settles the binding: an operation in
\* the ledger or a deferral that will be called back.
LEMMA DecidedKeeps ==
    ASSUME World, NEW t, NEW Y, Sound(t, Y), NEW b \in St(t), NEW restart \in BOOLEAN,
           ~HasOperation(t, b), NEW u, Decided(t, b, restart, u), Typed(u)
    PROVE  Sound(u, Y \ {b}) /\ FreeIds(u) = FreeIds(t) /\ SameGrants(t, u)
  <1>0. t \in SessionRecords /\ St(t) \subseteq Ids /\ t.lease \in [Ids -> Leases]
        /\ t.status \in [Ids -> {"none", "preparing", "active", "unavailable", "retired"}]
    BY DEF Sound, Typed, SessionRecords, St, ToSet
  <1>1. \A d \in Ids : /\ u.lease[d].ctl = t.lease[d].ctl /\ u.lease[d].page = t.lease[d].page
                       /\ u.lease[d].inst = t.lease[d].inst
                       /\ u.lease[d].contract = t.lease[d].contract
                       /\ u.lease[d].attached = t.lease[d].attached
                       /\ u.lease[d].ready = IF d = b THEN FALSE ELSE t.lease[d].ready
    <2>1. u.lease = [t.lease EXCEPT ![b] = [t.lease[b] EXCEPT !.ready = FALSE]]
      BY DEF Decided
    <2> SUFFICES ASSUME NEW d \in Ids
                 PROVE  /\ u.lease[d].ctl = t.lease[d].ctl /\ u.lease[d].page = t.lease[d].page
                        /\ u.lease[d].inst = t.lease[d].inst
                        /\ u.lease[d].contract = t.lease[d].contract
                        /\ u.lease[d].attached = t.lease[d].attached
                        /\ u.lease[d].ready = IF d = b THEN FALSE ELSE t.lease[d].ready
      OBVIOUS
    <2>2. t.lease[d] \in Leases
      BY <1>0
    <2>3. u.lease[d] = IF d = b THEN [t.lease[d] EXCEPT !.ready = FALSE] ELSE t.lease[d]
      BY <1>0, <2>1
    <2>4. CASE d = b
      BY <2>2, <2>3, <2>4 DEF Leases
    <2>5. CASE d # b
      BY <2>3, <2>5
    <2> QED BY <2>4, <2>5
  <1>2. St(u) = St(t) /\ u.queue = t.queue /\ (HardwareCurrent(u) <=> HardwareCurrent(t))
    BY DEF Decided, St, HardwareCurrent
  <1>3. \A d \in Ids : InUse(u, d) <=> InUse(t, d)
    BY <1>2 DEF InUse, Queued
  <1>4. FreeIds(u) = FreeIds(t)
    BY <1>3, FreeIsUnused DEF Sound
  <1>5. Grants(u)
    BY <1>1, <1>3 DEF Sound, Grants, Granted
  <1>6. Crosses(u)
    <2>1. p.attached \union p.pressed \subseteq Ids
      BY DEF World
    <2> QED BY <1>1, <2>1 DEF Sound, Crosses, UsesCurrentContract
  <1>7. Routes(u)
    <2>1. /\ u.authority = t.authority /\ u.input = t.input /\ u.held = t.held
      BY DEF Decided
    <2>2. Routes(t)
      BY DEF Sound
    <2>3. t.authority \subseteq Ids /\ \A c \in Controls : /\ t.input[c] # None => t.input[c] \in Ids
                                                          /\ t.held[c] # None => t.held[c] \in Ids
      BY <1>0, <2>2 DEF Routes
    <2>4. /\ \A d \in St(u) : u.lease[d].attached => d \in u.authority
          /\ \A d \in u.authority : d \in St(u) /\ u.lease[d].attached
      BY <1>0, <1>1, <1>2, <2>1, <2>2, <2>3 DEF Routes
    <2>5. \A c \in Controls :
            /\ u.input[c] # None => u.input[c] \in u.authority /\ u.lease[u.input[c]].ctl = c
            /\ u.held[c] # None => u.held[c] \in St(u) /\ u.lease[u.held[c]].ctl = c
      <3> SUFFICES ASSUME NEW c \in Controls
                   PROVE  /\ t.input[c] # None => /\ t.input[c] \in t.authority
                                                  /\ u.lease[t.input[c]].ctl = c
                          /\ t.held[c] # None => /\ t.held[c] \in St(t)
                                                 /\ u.lease[t.held[c]].ctl = c
        BY <1>2, <2>1
      <3>1. \A d \in Ids : u.lease[d].ctl = t.lease[d].ctl
        BY <1>1
      <3>2. /\ t.input[c] # None => t.input[c] \in t.authority /\ t.lease[t.input[c]].ctl = c
            /\ t.held[c] # None => t.held[c] \in St(t) /\ t.lease[t.held[c]].ctl = c
        BY <2>2 DEF Routes
      <3> QED BY <2>3, <3>1, <3>2
    <2>6. \A d, e \in St(u) : u.lease[d].ctl = u.lease[e].ctl => d = e
      <3>1. \A d \in St(t) : u.lease[d].ctl = t.lease[d].ctl
        BY <1>0, <1>1
      <3>2. \A d, e \in St(t) : t.lease[d].ctl = t.lease[e].ctl => d = e
        BY <2>2 DEF Routes
      <3> QED BY <1>2, <3>1, <3>2
    <2> QED BY <2>4, <2>5, <2>6 DEF Routes
  <1>8. Ledger(u, Y \ {b})
    <2>1. Ledger(t, Y)
      BY DEF Sound
    <2>2. \A o \in t.ops : o[2] # b
      BY DEF HasOperation
    <2>3. u.status[b] \in {"preparing", "unavailable"}
          /\ \A d \in St(t) : d # b => u.status[d] = t.status[d]
      BY <1>0 DEF Decided
    <2>4. \A o \in u.ops : o \in t.ops \/ (o = <<FreshOp(t), b>> /\ u.status[b] = "preparing")
      BY <1>0 DEF Decided
    <2>5. \A d \in u.deferred : \/ d \in t.deferred /\ d[1] # b /\ (t.wake => u.wake)
                                \/ d = <<b, restart>> /\ u.status[b] = "unavailable" /\ u.wake
      BY <1>0 DEF Decided
    <2>6. /\ \A o \in u.ops : o[2] \in St(u) /\ u.status[o[2]] = "preparing"
          /\ \A o, q \in u.ops : o[2] = q[2] => o = q
      BY <1>2, <2>1, <2>2, <2>3, <2>4 DEF Ledger
    <2>7. \A d \in u.deferred : d[1] \in St(u) /\ u.status[d[1]] = "unavailable" /\ u.wake
      BY <1>2, <2>1, <2>3, <2>5 DEF Ledger
    <2>8. \A d \in St(u) :
            /\ u.status[d] \in {"none", "preparing", "active", "unavailable"}
            /\ u.status[d] = "active" <=> u.lease[d].ready
            /\ u.lease[d].ready => u.lease[d].attached
      BY ZenonT(60), <1>0, <1>1, <1>2, <2>1, <2>3 DEF Ledger
    <2>9. u.status[b] = "unavailable" => <<b, restart>> \in u.deferred
      BY <1>0 DEF Decided
    <2>10. \A d : \A r \in BOOLEAN : d # b /\ <<d, r>> \in t.deferred => <<d, r>> \in u.deferred
      BY DEF Decided
    <2>11. \A d \in St(u) \ (Y \ {b}) :
            /\ u.status[d] # "none"
            /\ u.status[d] = "unavailable" =>
                 \/ \E r \in BOOLEAN : <<d, r>> \in u.deferred
                 \/ ~UsesCurrentContract(u.lease[d]) \/ ~HardwareCurrent(u)
      <3> SUFFICES ASSUME NEW d \in St(u) \ (Y \ {b})
                   PROVE  /\ u.status[d] # "none"
                          /\ u.status[d] = "unavailable" =>
                               \/ \E r \in BOOLEAN : <<d, r>> \in u.deferred
                               \/ ~UsesCurrentContract(u.lease[d]) \/ ~HardwareCurrent(u)
        OBVIOUS
      <3>1. CASE d = b
        BY <2>3, <2>9, <3>1
      <3>2. CASE d # b
        <4>1. d \in St(t) \ Y /\ d \in Ids
          BY <1>0, <1>2, <3>2
        <4>2. UsesCurrentContract(u.lease[d]) <=> UsesCurrentContract(t.lease[d])
          BY <1>1, <4>1 DEF UsesCurrentContract
        <4> QED BY <1>2, <2>1, <2>3, <2>10, <3>2, <4>1, <4>2 DEF Ledger
      <3> QED BY <3>1, <3>2
    <2> QED BY <2>6, <2>7, <2>8, <2>11 DEF Ledger
  <1> QED BY <1>1, <1>4, <1>5, <1>6, <1>7, <1>8 DEF Sound, SameGrants

\* Both ends of the decision are of that form, and the effect carries the operation.
LEMMA DecisionResult ==
    ASSUME World, NEW t, NEW Y, Sound(t, Y), NEW b \in St(t), NEW restart \in BOOLEAN
    PROVE  LET v == Planned(t, b, restart)
               w == Refused(Arranged(t, b, restart), b, restart)
               e == Preparation(t, b, restart)
           IN /\ Typed(v) /\ Decided(t, b, restart, v)
              /\ Typed(w) /\ Decided(t, b, restart, w)
              /\ e \in Effects /\ e.kind = "prepare" /\ e.b = b /\ e.op = FreshOp(t)
              /\ e.restart = restart /\ e.meta = v.rec[t.lease[b].inst].meta
              /\ v.ops = t.ops \union {<<FreshOp(t), b>>}
              /\ Room(v, e) <=> Room(Arranged(t, b, restart), e)
  <1> DEFINE l == t.lease[b]
             i == l.inst
             u == Arranged(t, b, restart)
             r == u.rec[i]
             v == Planned(t, b, restart)
             w == Refused(u, b, restart)
             op == FreshOp(t)
             rec == [t.rec EXCEPT ![i] = r]
             lease == [t.lease EXCEPT ![b] = [l EXCEPT !.ready = FALSE]]
             deferred == {d \in t.deferred : d[1] # b}
             deferredW == {d \in t.deferred : d[1] # b} \union {<<b, restart>>}
             opsV == t.ops \union {<<op, b>>}
             statusV == [t.status EXCEPT ![b] = "preparing"]
             statusW == [t.status EXCEPT ![b] = "unavailable"]
  <1>0. /\ t \in SessionRecords /\ b \in Ids /\ IsFiniteSet(t.ops) /\ Typed(t)
        /\ IsInjective(t.stored) /\ WithinReserves(t)
    BY DEF Sound, Typed, SessionRecords, St, ToSet
  <1>1. i \in Instances
    BY <1>0 DEF Sound, Grants, Granted, InUse
  <1>2. /\ Arrangement(t, i, SessionOfLease(l), restart, r)
        /\ Reserve(t, i, SessionOfLease(l)).rec[i].meta = r.meta
        /\ u = [t EXCEPT !.rec = rec, !.lease = lease, !.deferred = deferred]
    <2>1. IsArranged(t, b, restart, Arranged(t, b, restart))
      BY ArrangedResult
    <2> QED BY <2>1 DEF IsArranged
  <1>3. op \in Nat
    BY <1>0, FreshNumbers
  <1>4. /\ rec \in [Instances -> Records] /\ lease \in [Ids -> Leases] /\ rec[i] = r
        /\ deferred \in SUBSET (Ids \X BOOLEAN) /\ deferredW \in SUBSET (Ids \X BOOLEAN)
        /\ opsV \in SUBSET (Nat \X Ids)
        /\ statusV \in [Ids -> {"none", "preparing", "active", "unavailable", "retired"}]
        /\ statusW \in [Ids -> {"none", "preparing", "active", "unavailable", "retired"}]
    <2>1. r \in Records
      BY SMTT(30), <1>2 DEF Arrangement
    <2>2. [l EXCEPT !.ready = FALSE] \in Leases
      <3>1. l \in Leases
        BY <1>0 DEF SessionRecords
      <3> QED BY <3>1 DEF Leases
    <2> HIDE DEF r
    <2>3. rec \in [Instances -> Records] /\ rec[i] = r
      BY <1>0, <1>1, <2>1 DEF SessionRecords
    <2>4. lease \in [Ids -> Leases]
      BY <1>0, <2>2 DEF SessionRecords
    <2> QED BY <1>0, <1>3, <2>3, <2>4 DEF SessionRecords
  <1>5. IsFiniteSet(opsV)
    BY <1>0, FS_AddElement
  <1>6. Preparation(t, b, restart) = Effect("prepare", b, op, restart, r.meta, None)
    BY <1>2 DEF Preparation
  <1>7. v = [u EXCEPT !.ops = u.ops \union {<<op, b>>}, !.status = [u.status EXCEPT ![b] = "preparing"]]
    BY DEF Planned
  <1>8. w = [u EXCEPT !.status = [u.status EXCEPT ![b] = "unavailable"],
                      !.deferred = u.deferred \union {<<b, restart>>}, !.wake = TRUE]
    BY DEF Refused
  <1> HIDE DEF u, v, w, rec, lease, r, op
  <1>9. /\ u.ops = t.ops /\ u.status = t.status /\ u.deferred = deferred /\ u.queue = t.queue
    BY <1>0, <1>2 DEF SessionRecords
  <1>10. /\ v = [u EXCEPT !.ops = opsV, !.status = statusV]
         /\ w = [u EXCEPT !.status = statusW, !.deferred = deferredW, !.wake = TRUE]
    BY <1>7, <1>8, <1>9
  <1> HIDE DEF opsV, statusV, statusW, deferred, deferredW
  <1>11. /\ v \in SessionRecords /\ v.lease = lease /\ v.rec = rec
         /\ v.stored = t.stored /\ v.input = t.input /\ v.authority = t.authority
         /\ v.held = t.held /\ v.suppressed = t.suppressed
         /\ v.queue = t.queue /\ v.page = t.page /\ v.stopped = t.stopped
         /\ v.recovery = t.recovery /\ v.lossy = t.lossy
         /\ v.ops = opsV /\ v.deferred = deferred /\ v.status = statusV /\ v.wake = t.wake
    BY ZenonT(60), <1>0, <1>2, <1>4, <1>10 DEF SessionRecords
  <1>12. /\ w \in SessionRecords /\ w.lease = lease /\ w.rec = rec
         /\ w.stored = t.stored /\ w.input = t.input /\ w.authority = t.authority
         /\ w.held = t.held /\ w.suppressed = t.suppressed
         /\ w.queue = t.queue /\ w.page = t.page /\ w.stopped = t.stopped
         /\ w.recovery = t.recovery /\ w.lossy = t.lossy
         /\ w.ops = t.ops /\ w.deferred = deferredW /\ w.status = statusW /\ w.wake = TRUE
    BY ZenonT(60), <1>0, <1>2, <1>4, <1>10 DEF SessionRecords
  <1>13. Typed(v) /\ Typed(w)
    BY <1>0, <1>5, <1>11, <1>12, SameQueuesSameLoads DEF Typed
  <1>14. Decided(t, b, restart, v)
    <2>1. v.rec[l.inst] = r
      BY <1>4, <1>11
    <2> QED BY <1>2, <1>11, <2>1 DEF Decided, rec, lease, opsV, statusV, deferred, op
  <1>15. Decided(t, b, restart, w)
    <2>1. w.rec[l.inst] = r
      BY <1>4, <1>12
    <2> QED BY <1>2, <1>12, <2>1 DEF Decided, rec, lease, statusW, deferredW
  <1>16. Room(v, Preparation(t, b, restart)) <=> Room(u, Preparation(t, b, restart))
    BY <1>9, <1>11 DEF Room, Load, Places
  <1>17. r.meta \in Nat
    BY <1>2 DEF Arrangement, Records
  <1>18. Effect("prepare", b, op, restart, r.meta, None) \in Effects
    BY <1>0, <1>3, <1>17 DEF Effect, Effects
  <1>19. v.rec[i].meta = r.meta
    BY <1>4, <1>11
  <1> QED BY <1>6, <1>11, <1>13, <1>14, <1>15, <1>16, <1>18, <1>19 DEF Effect, u, v, w, op, opsV

\* An activation keeps the session sound, and settles the binding.
LEMMA ActivateKeeps ==
    ASSUME World, NEW t, NEW Y, Sound(t, Y), NEW b \in St(t), NEW force \in BOOLEAN
    PROVE  LET u == Activate(t, b, force) IN
           /\ Sound(u, Y \ {b}) /\ u.stored = t.stored
           /\ u.page = t.page /\ u.stopped = t.stopped /\ u.recovery = t.recovery
           /\ FreeIds(t) \subseteq FreeIds(u)
           /\ SameGrants(t, u)
  <1> DEFINE restart == force \/ <<b, TRUE>> \in t.deferred
             u == Activate(t, b, force)
             l == t.lease[b]
             v == Planned(t, b, restart)
             w == Refused(Arranged(t, b, restart), b, restart)
             e == Preparation(t, b, restart)
  <1>0. b \in Ids /\ l.inst \in Instances /\ b \notin FreeIds(t)
    <2>1. b \in Ids /\ InUse(t, b)
      BY DEF Sound, Typed, SessionRecords, St, ToSet, InUse
    <2> QED BY <2>1, FreeIsUnused DEF Sound, Grants, Granted
  <1>1. \/ l.attached /\ l.ready /\ ~restart /\ u = Enable(t, b)
        \/ HasOperation(t, b) /\ u = t
        \/ /\ ~HasOperation(t, b) /\ ~(l.attached /\ l.ready /\ ~restart)
           /\ \/ Room(Arranged(t, b, restart), e) /\ u = Submit(v, l.inst, e)
              \/ u = w
    BY ActivateIs
  <1>2. restart \in BOOLEAN
    OBVIOUS
  <1> HIDE DEF u, v, w, e, restart
  <1>3. CASE l.attached /\ l.ready /\ u = Enable(t, b)
    <2>1. /\ Sound(u, Y) /\ u.stored = t.stored /\ u.lease = t.lease
          /\ u.page = t.page /\ u.stopped = t.stopped /\ u.recovery = t.recovery
          /\ FreeIds(t) \subseteq FreeIds(u)
      BY <1>3, EnableKeeps
    <2>2. u.status[b] = "active"
      BY <1>3, <2>1 DEF Sound, Ledger, St
    <2> QED BY <2>1, <2>2, Settled DEF Sound, u, SameGrants
  <1>4. CASE HasOperation(t, b) /\ u = t
    <2>1. t.status[b] = "preparing"
      BY <1>4 DEF HasOperation, Sound, Ledger
    <2> QED BY <1>4, <2>1, Settled DEF Sound, u, SameGrants
  <1>5. CASE ~HasOperation(t, b) /\ (u = Submit(v, l.inst, e) \/ u = w)
    <2>1. /\ Typed(v) /\ Decided(t, b, restart, v) /\ Typed(w) /\ Decided(t, b, restart, w)
          /\ e \in Effects /\ e.b = b
      BY <1>2, DecisionResult DEF v, w, e
    <2>2. /\ Sound(v, Y \ {b}) /\ FreeIds(v) = FreeIds(t)
          /\ SameGrants(t, v)
      BY <1>2, <1>5, <2>1, DecidedKeeps
    <2>3. /\ Sound(w, Y \ {b}) /\ FreeIds(w) = FreeIds(t)
          /\ SameGrants(t, w)
      BY SMTT(30), <1>2, <1>5, <2>1, DecidedKeeps
    <2>4. CASE u = w
      BY SMTT(30), <2>1, <2>3, <2>4 DEF Decided, u
    <2>5. CASE u = Submit(v, l.inst, e)
      <3>1. Granted(v.lease[b])
        <4>1. Granted(t.lease[b])
          BY <1>0 DEF Sound, Grants, InUse
        <4> QED BY <1>0, <2>2, <4>1 DEF Granted, SameGrants
      <3>2. /\ Sound(u, Y \ {b}) /\ OnlyQueues(v, u) /\ FreeIds(v) \ {b} \subseteq FreeIds(u)
        BY <1>0, <2>1, <2>2, <2>5, <3>1, SubmitKeeps
      <3>3. /\ v.stored = t.stored /\ v.page = t.page /\ v.stopped = t.stopped
            /\ v.recovery = t.recovery
        BY <2>1 DEF Decided
      <3>4. /\ u.stored = t.stored /\ u.page = t.page /\ u.stopped = t.stopped
            /\ u.recovery = t.recovery /\ u.lease = v.lease
        BY <3>2, <3>3 DEF OnlyQueues
      <3>5. FreeIds(t) \subseteq FreeIds(u)
        BY <1>0, <2>2, <3>2
      <3> QED BY <2>2, <3>2, <3>4, <3>5 DEF u, SameGrants
    <2> QED BY <1>5, <2>4, <2>5
  <1> QED BY <1>1, <1>3, <1>4, <1>5

----------------------------------------------------------------------------
(* Installation *)

\* The new lease is granted under the agreement of now.
LEMMA NewLeaseIsGranted ==
    ASSUME World, NEW g \in Pages, NEW c \in Controls, CurrentContract(listed) # None
    PROVE  LET l == NewLease(g, c) IN
           /\ l \in Leases /\ Granted(l) /\ ~l.attached /\ ~l.ready
           /\ l.ctl = c /\ l.page = g /\ l.inst = InstanceOf[g][c] /\ l.contract = agreement
           /\ SessionOfLease(l) = listed /\ UsesCurrentContract(l)
  <1>1. /\ agreement \in Agreements /\ agreement = agreed.last /\ SessionOf[agreement] = listed
    BY DEF World, CurrentContract, agreement
  <1>2. agreed.last \in 1..agreed.last
    BY <1>1, LifecycleAssumption DEF Agreements
  <1>3. InstanceOf[g][c] \in Instances
    BY LifecycleAssumption
  <1>4. NoLease \in Leases /\ ~NoLease.attached /\ ~NoLease.ready
    BY DEF NoLease, Leases, None
  <1>5. NewLease(g, c) \in Leases
    BY <1>1, <1>3, <1>4 DEF Leases, NewLease
  <1>6. /\ ~NewLease(g, c).attached /\ ~NewLease(g, c).ready /\ NewLease(g, c).ctl = c
        /\ NewLease(g, c).page = g /\ NewLease(g, c).inst = InstanceOf[g][c]
        /\ NewLease(g, c).contract = agreement
    BY <1>4 DEF Leases, NewLease
  <1> QED BY <1>1, <1>2, <1>3, <1>5, <1>6 DEF Granted, SessionOfLease, UsesCurrentContract

\* A new lease on a control without one leaves the session sound, b to be activated.
LEMMA ResolvedKeeps ==
    ASSUME World, NEW t, Sound(t, {}), NEW g \in Pages, NEW c \in Controls,
           CurrentContract(listed) # None, NEW b \in FreeIds(t),
           \A d \in St(t) : t.lease[d].ctl # c
    PROVE  LET u == Resolved(t, b, g, c) IN
           /\ Sound(u, {b}) /\ St(u) = St(t) \union {b}
           /\ u.lease[b] = NewLease(g, c) /\ \A d \in Ids \ {b} : u.lease[d] = t.lease[d]
           /\ u.page = t.page /\ u.stopped = t.stopped /\ u.recovery = t.recovery
           /\ u.queue = t.queue /\ FreeIds(t) \ {b} \subseteq FreeIds(u)
  <1> DEFINE u == Resolved(t, b, g, c)
             stored == Append(t.stored, b)
             status == [t.status EXCEPT ![b] = "none"]
             lossy == t.lossy \ {b}
             lease == [t.lease EXCEPT ![b] = NewLease(g, c)]
  <1>0. /\ t \in SessionRecords /\ b \in Ids /\ ~InUse(t, b) /\ t.stored \in Seq(Ids)
        /\ IsInjective(t.stored) /\ St(t) \subseteq Ids
    <2>1. t \in SessionRecords /\ t.stored \in Seq(Ids) /\ IsInjective(t.stored) /\ Typed(t)
      BY DEF Sound, Typed, SessionRecords
    <2>2. b \in Ids /\ ~InUse(t, b)
      BY <2>1, FreeIsUnused
    <2>3. St(t) \subseteq Ids
      BY <2>1 DEF St, ToSet
    <2> QED BY <2>1, <2>2, <2>3
  <1>1. /\ b \notin St(t) /\ b \notin p.attached \union p.pressed
        /\ \A e \in Queued(t) : e.b # b
    BY <1>0 DEF InUse
  <1>2. stored \in Seq(Ids) /\ IsInjective(stored) /\ ToSet(stored) = St(t) \union {b}
    BY <1>0, <1>1, AppendAddsElement DEF St
  <1>3. /\ NewLease(g, c) \in Leases /\ Granted(NewLease(g, c)) /\ ~NewLease(g, c).attached
        /\ ~NewLease(g, c).ready /\ NewLease(g, c).ctl = c
    BY NewLeaseIsGranted
  <1>4. /\ status \in [Ids -> {"none", "preparing", "active", "unavailable", "retired"}]
        /\ lease \in [Ids -> Leases] /\ lossy \in SUBSET (Ids \union {None})
        /\ lease[b] = NewLease(g, c) /\ \A d \in Ids \ {b} : lease[d] = t.lease[d]
        /\ status[b] = "none" /\ \A d \in Ids \ {b} : status[d] = t.status[d]
    BY <1>0, <1>3 DEF SessionRecords
  <1>5. u = [t EXCEPT !.stored = stored, !.status = status, !.lossy = lossy, !.lease = lease]
    BY DEF Resolved
  <1> HIDE DEF u, stored, status, lossy, lease
  <1>6. /\ u \in SessionRecords /\ u.stored = stored /\ u.status = status /\ u.lease = lease
        /\ u.input = t.input /\ u.authority = t.authority /\ u.held = t.held
        /\ u.ops = t.ops /\ u.deferred = t.deferred /\ u.wake = t.wake
        /\ u.queue = t.queue /\ u.page = t.page /\ u.stopped = t.stopped
        /\ u.recovery = t.recovery
    BY <1>0, <1>2, <1>4, <1>5 DEF SessionRecords
  <1>7. St(u) = St(t) \union {b} /\ (HardwareCurrent(u) <=> HardwareCurrent(t))
    BY <1>2, <1>6 DEF St, HardwareCurrent
  <1>8. Typed(u)
    BY <1>2, <1>6, SameQueuesSameLoads DEF Sound, Typed
  <1>9. \A d \in Ids : InUse(u, d) => InUse(t, d) \/ d = b
    BY <1>6, <1>7 DEF InUse, Queued
  <1>10. FreeIds(t) \ {b} \subseteq FreeIds(u)
    BY <1>8, <1>9, FreeIsUnused DEF Sound
  <1>11. Grants(u)
    BY <1>3, <1>4, <1>6, <1>9 DEF Sound, Grants
  <1>12. Crosses(u)
    <2>1. p.attached \union p.pressed \subseteq Ids
      BY DEF World
    <2> QED BY <1>1, <1>4, <1>6, <2>1 DEF Sound, Crosses
  <1>13. Routes(u)
    <2>1. Routes(t)
      BY DEF Sound
    <2>2. \A d \in St(t) : u.lease[d] = t.lease[d] /\ d # b
      BY <1>0, <1>1, <1>4, <1>6
    <2>3. u.lease[b].ctl = c /\ ~u.lease[b].attached
      BY <1>3, <1>4, <1>6
    <2>4. /\ \A d \in St(u) : u.lease[d].attached => d \in u.authority
          /\ \A d \in u.authority : d \in St(u) /\ u.lease[d].attached
      BY <1>6, <1>7, <2>1, <2>2, <2>3 DEF Routes
    <2>5. \A x \in Controls :
            /\ u.input[x] # None => u.input[x] \in u.authority /\ u.lease[u.input[x]].ctl = x
            /\ u.held[x] # None => u.held[x] \in St(u) /\ u.lease[u.held[x]].ctl = x
      BY <1>6, <1>7, <2>1, <2>2 DEF Routes
    <2>6. \A d, e \in St(u) : u.lease[d].ctl = u.lease[e].ctl => d = e
      BY <1>6, <1>7, <2>1, <2>2, <2>3 DEF Routes
    <2> QED BY <2>4, <2>5, <2>6 DEF Routes
  <1>14. Ledger(u, {b})
    <2>1. Ledger(t, {})
      BY DEF Sound
    <2>2. \A d \in St(t) : u.lease[d] = t.lease[d] /\ u.status[d] = t.status[d] /\ d # b
      BY <1>0, <1>1, <1>4, <1>6
    <2>3. u.status[b] = "none" /\ ~u.lease[b].ready
      BY <1>3, <1>4, <1>6
    <2>4. /\ \A o \in u.ops : o[2] \in St(u) /\ u.status[o[2]] = "preparing"
          /\ \A o, q \in u.ops : o[2] = q[2] => o = q
          /\ \A d \in u.deferred : d[1] \in St(u) /\ u.status[d[1]] = "unavailable" /\ u.wake
      BY <1>6, <1>7, <2>1, <2>2 DEF Ledger
    <2>5. \A d \in St(u) :
            /\ u.status[d] \in {"none", "preparing", "active", "unavailable"}
            /\ u.status[d] = "active" <=> u.lease[d].ready
            /\ u.lease[d].ready => u.lease[d].attached
      BY <1>7, <2>1, <2>2, <2>3 DEF Ledger
    <2>6. \A d \in St(u) \ {b} :
            /\ u.status[d] # "none"
            /\ u.status[d] = "unavailable" =>
                 \/ \E r \in BOOLEAN : <<d, r>> \in u.deferred
                 \/ ~UsesCurrentContract(u.lease[d]) \/ ~HardwareCurrent(u)
      BY SMTT(30), <1>6, <1>7, <2>1, <2>2 DEF Ledger
    <2> QED BY <2>4, <2>5, <2>6 DEF Ledger
  <1> QED BY <1>4, <1>6, <1>7, <1>8, <1>10, <1>11, <1>12, <1>13, <1>14 DEF Sound, u

\* The identity that is taken is free.
LEMMA FirstFree ==
    ASSUME World, NEW t, FreeIds(t) # {} PROVE Min(FreeIds(t)) \in FreeIds(t)
  <1>1. FreeIds(t) \in SUBSET (1..MaxBindings) /\ MaxBindings \in Nat
    BY LifecycleAssumption DEF FreeIds, Ids
  <1> QED BY <1>1, MinIsLeast

\* Resolving a binding installs one of that control and page, at most.
LEMMA TryResolveKeeps ==
    ASSUME World, NEW t, Sound(t, {}), NEW g \in Pages, NEW c \in Controls, FreeIds(t) # {},
           \A d \in St(t) : t.lease[d].ctl # c
    PROVE  Installs(t, g, c, TryResolve(t, g, c))
  <1> DEFINE b == Min(FreeIds(t))
             v == Resolved(t, b, g, c)
             u == Activate(v, b, FALSE)
  <1>1. b \in FreeIds(t) /\ b \in Ids
    BY FirstFree DEF FreeIds
  <1>2. CASE CurrentContract(listed) = None
    BY <1>1, <1>2 DEF TryResolve, Installs, Around
  <1>3. CASE CurrentContract(listed) # None
    <2>1. TryResolve(t, g, c) = u
      BY <1>3 DEF TryResolve, Resolved, NewLease
    <2> HIDE DEF b
    <2>2. /\ Sound(v, {b}) /\ St(v) = St(t) \union {b}
          /\ v.lease[b] = NewLease(g, c) /\ \A d \in Ids \ {b} : v.lease[d] = t.lease[d]
          /\ v.page = t.page /\ v.stopped = t.stopped /\ v.recovery = t.recovery
          /\ FreeIds(t) \ {b} \subseteq FreeIds(v)
      BY <1>1, <1>3, ResolvedKeeps
    <2> HIDE DEF v
    <2>3. /\ Sound(u, {b} \ {b}) /\ u.stored = v.stored
          /\ u.page = v.page /\ u.stopped = v.stopped /\ u.recovery = v.recovery
          /\ FreeIds(v) \subseteq FreeIds(u)
          /\ SameGrants(v, u)
      <3>1. b \in St(v) /\ FALSE \in BOOLEAN
        BY <2>2
      <3> QED BY <2>2, <3>1, ActivateKeeps
    <2> HIDE DEF u
    <2>4. St(u) = St(t) \union {b} /\ b \notin St(t) /\ St(t) \subseteq Ids /\ {b} \ {b} = {}
      <3>1. b \notin St(t)
        BY <1>1, FreeIsUnused DEF Sound, InUse
      <3>2. St(t) \subseteq Ids
        BY DEF Sound, Typed, SessionRecords, St, ToSet
      <3>3. St(u) = St(v)
        BY <2>3 DEF St
      <3> QED BY <2>2, <3>1, <3>2, <3>3
    <2>5. /\ u.lease[b].ctl = c /\ u.lease[b].page = g /\ SessionOfLease(u.lease[b]) = listed
      <3>1. NewLease(g, c).ctl = c /\ NewLease(g, c).page = g
            /\ SessionOfLease(NewLease(g, c)) = listed
        BY <1>3, NewLeaseIsGranted
      <3> QED BY <1>1, <2>2, <2>3, <3>1 DEF SessionOfLease, SameGrants
    <2>6. Around(t, u)
      BY <2>2, <2>3, <2>4 DEF Around, SameGrants
    <2>7. FreeIds(t) \ {b} \subseteq FreeIds(u)
      BY <2>2, <2>3
    <2> QED BY <1>1, <2>1, <2>3, <2>4, <2>5, <2>6, <2>7 DEF Installs
  <1> QED BY <1>2, <1>3

\* The first stored binding of a set that has one is in it.
LEMMA FirstIsIn ==
    ASSUME NEW t, Typed(t), NEW S
    PROVE  /\ S \intersect St(t) # {} => First(t, S) \in S \intersect St(t)
           /\ S \intersect St(t) = {} => First(t, S) = None
  <1> DEFINE places == {k \in DOMAIN t.stored : t.stored[k] \in S}
  <1>1. t.stored \in Seq(Ids)
    BY DEF Typed, SessionRecords
  <1>2. places \in SUBSET (1..Len(t.stored)) /\ Len(t.stored) \in Nat
    BY <1>1
  <1>3. places = {} <=> S \intersect St(t) = {}
    BY DEF St, ToSet
  <1>4. First(t, S) = IF places = {} THEN None ELSE t.stored[Min(places)]
    BY DEF First
  <1>5. places # {} => Min(places) \in places
    BY <1>2, MinIsLeast
  <1>6. \A k \in places : t.stored[k] \in S \intersect St(t)
    BY DEF St, ToSet
  <1> HIDE DEF places
  <1> QED BY <1>3, <1>4, <1>5, <1>6

\* The installed bindings that fit a plan.
LEMMA ExistingAreStored ==
    ASSUME NEW t, NEW g, NEW c, NEW d
    PROVE  d \in Existing(t, g, c) <=>
             /\ d \in St(t) /\ t.lease[d].ctl = c /\ t.lease[d].page = g
             /\ SessionOfLease(t.lease[d]) = listed
  BY DEF Existing, St

\* So does installing a planned binding, when the bindings of its control are those
\* that fit the plan.
LEMMA InstallKeeps ==
    ASSUME World, NEW t, Sound(t, {}), NEW g \in Pages, NEW c \in Controls, FreeIds(t) # {},
           Existing(t, g, c) = {} => \A d \in St(t) : t.lease[d].ctl # c
    PROVE  Installs(t, g, c, Install(t, g, c))
  <1>0. Installs(t, g, c, t)
    <2>1. PICK b \in Ids : TRUE
      BY DEF FreeIds
    <2> QED BY <2>1 DEF Installs, Around
  <1>1. CASE offer # "bound"
    BY <1>0, <1>1 DEF Install
  <1>2. CASE offer = "bound" /\ Existing(t, g, c) = {}
    BY <1>2, TryResolveKeeps DEF Install
  <1>3. CASE offer = "bound" /\ Existing(t, g, c) # {}
    <2> DEFINE b == First(t, Existing(t, g, c))
               u == Activate(t, b, FALSE)
    <2>1. b \in St(t)
      <3>1. Existing(t, g, c) \intersect St(t) # {}
        BY <1>3, ExistingAreStored
      <3> QED BY <3>1, FirstIsIn DEF Sound
    <2>2. Install(t, g, c) = u
      BY <1>3 DEF Install
    <2> HIDE DEF b
    <2>3. /\ Sound(u, {} \ {b}) /\ u.stored = t.stored
          /\ u.page = t.page /\ u.stopped = t.stopped /\ u.recovery = t.recovery
          /\ FreeIds(t) \subseteq FreeIds(u) /\ SameGrants(t, u)
      <3>1. FALSE \in BOOLEAN
        OBVIOUS
      <3> QED BY <2>1, <3>1, ActivateKeeps
    <2> HIDE DEF u
    <2>4. {} \ {b} = {} /\ St(t) \subseteq Ids /\ b \in Ids /\ St(u) = St(t)
      BY <2>1, <2>3 DEF Sound, Typed, SessionRecords, St, ToSet
    <2> QED BY <2>2, <2>3, <2>4 DEF Installs, Around, SameGrants
  <1> QED BY <1>1, <1>2, <1>3

\* The ledger depends on the bindings, their operations and their deferrals only.
LEMMA SameLedger ==
    ASSUME NEW t, NEW u, NEW Y, Ledger(t, Y), St(u) = St(t),
           HardwareCurrent(u) => HardwareCurrent(t), u.lease = t.lease,
           u.status = t.status, u.ops = t.ops, u.deferred = t.deferred, u.wake = t.wake
    PROVE  Ledger(u, Y)
  <1>1. /\ \A o \in u.ops : o[2] \in St(u) /\ u.status[o[2]] = "preparing"
        /\ \A o, q \in u.ops : o[2] = q[2] => o = q
    BY DEF Ledger
  <1>2. \A d \in u.deferred : d[1] \in St(u) /\ u.status[d[1]] = "unavailable" /\ u.wake
    BY DEF Ledger
  <1>3. \A b \in St(u) :
           /\ u.status[b] \in {"none", "preparing", "active", "unavailable"}
           /\ u.status[b] = "active" <=> u.lease[b].ready
           /\ u.lease[b].ready => u.lease[b].attached
    BY DEF Ledger
  <1>4. \A b \in St(u) \ Y :
           /\ u.status[b] # "none"
           /\ u.status[b] = "unavailable" =>
                \/ \E r \in BOOLEAN : <<b, r>> \in u.deferred
                \/ ~UsesCurrentContract(u.lease[b]) \/ ~HardwareCurrent(u)
    <2> SUFFICES ASSUME NEW b \in St(u) \ Y, u.status[b] = "unavailable"
                 PROVE  \/ \E r \in BOOLEAN : <<b, r>> \in u.deferred
                        \/ ~UsesCurrentContract(u.lease[b]) \/ ~HardwareCurrent(u)
      BY DEF Ledger
    <2>1. \/ \E r \in BOOLEAN : <<b, r>> \in t.deferred
          \/ ~UsesCurrentContract(t.lease[b]) \/ ~HardwareCurrent(t)
      BY DEF Ledger
    <2> QED BY <2>1
  <1> QED BY <1>1, <1>2, <1>3, <1>4 DEF Ledger

\* Fields the properties do not look at do not matter.
LEMMA AlikeKeeps ==
    ASSUME NEW t, NEW Y, Sound(t, Y), NEW u \in SessionRecords, Alike(t, u)
    PROVE  Sound(u, Y) /\ FreeIds(u) = FreeIds(t) /\ St(u) = St(t)
  <1>1. St(u) = St(t) /\ Queued(u) = Queued(t) /\ (HardwareCurrent(u) <=> HardwareCurrent(t))
        /\ FreeIds(u) = FreeIds(t)
    BY DEF Alike, St, Queued, HardwareCurrent, FreeIds
  <1>2. Typed(u)
    BY SameQueuesSameLoads DEF Alike, Sound, Typed
  <1>3. Grants(u) /\ Crosses(u) /\ Routes(u)
    BY <1>1 DEF Alike, Sound, Grants, InUse, Crosses, Routes
  <1>4. Ledger(u, Y)
    <2>1. Ledger(t, Y)
      BY DEF Sound
    <2> QED BY <1>1, <2>1, SameLedger DEF Alike
  <1> QED BY <1>1, <1>2, <1>3, <1>4 DEF Sound

\* The end of a held interaction.
LEMMA CancelHeldKeeps ==
    ASSUME World, NEW t, NEW Y, Sound(t, Y), NEW b \in St(t)
    PROVE  LET u == CancelHeld(t, b) IN
           /\ Sound(u, Y) /\ u.stored = t.stored /\ u.lease = t.lease
           /\ u.page = t.page /\ u.stopped = t.stopped /\ u.recovery = t.recovery
           /\ FreeIds(t) \subseteq FreeIds(u)
  <1> DEFINE c == t.lease[b].ctl
             i == t.lease[b].inst
             held == [t.held EXCEPT ![c] = None]
             suppressed == t.suppressed \union {c}
             v == [t EXCEPT !.held = held, !.suppressed = suppressed]
             u == Submit(v, i, Of("cancel", b))
  <1>0. /\ t \in SessionRecords /\ b \in Ids /\ Granted(t.lease[b]) /\ b \notin FreeIds(t)
        /\ c \in Controls /\ i \in Instances
    <2>1. t \in SessionRecords /\ b \in Ids /\ InUse(t, b) /\ Typed(t)
      BY DEF Sound, Typed, SessionRecords, St, ToSet, InUse
    <2> QED BY <2>1, FreeIsUnused DEF Sound, Grants, Granted
  <1>1. CancelHeld(t, b) = IF t.held[c] # b THEN t ELSE IF ~t.lease[b].attached THEN v ELSE u
    BY DEF CancelHeld
  <1>2. held \in [Controls -> Ids \union {None}] /\ suppressed \in SUBSET Controls
        /\ \A x \in Controls : held[x] = None \/ held[x] = t.held[x]
    BY <1>0 DEF SessionRecords
  <1> HIDE DEF held, suppressed
  <1>3. /\ v \in SessionRecords
        /\ v.stored = t.stored /\ v.lease = t.lease /\ v.status = t.status
        /\ v.input = t.input /\ v.authority = t.authority /\ v.held = held
        /\ v.ops = t.ops /\ v.deferred = t.deferred /\ v.wake = t.wake /\ v.queue = t.queue
        /\ v.stopped = t.stopped /\ v.page = t.page /\ v.recovery = t.recovery
    BY <1>0, <1>2 DEF SessionRecords
  <1> HIDE DEF v
  <1>4. Sound(v, Y) /\ FreeIds(v) = FreeIds(t)
    <2>1. St(v) = St(t) /\ Queued(v) = Queued(t) /\ (HardwareCurrent(v) <=> HardwareCurrent(t))
          /\ FreeIds(v) = FreeIds(t)
      BY <1>3 DEF St, Queued, HardwareCurrent, FreeIds
    <2>2. Typed(v)
      BY <1>3, SameQueuesSameLoads DEF Sound, Typed
    <2>3. Grants(v) /\ Crosses(v)
      BY <1>3, <2>1 DEF Sound, Grants, InUse, Crosses
    <2>4. Routes(v)
      BY <1>2, <1>3, <2>1 DEF Sound, Routes
    <2>5. Ledger(t, Y)
      BY DEF Sound
    <2>6. Ledger(v, Y)
      BY <1>3, <2>1, <2>5, SameLedger
    <2> QED BY <2>1, <2>2, <2>3, <2>4, <2>6 DEF Sound
  <1>5. Sound(u, Y) /\ OnlyQueues(v, u) /\ FreeIds(v) \ {b} \subseteq FreeIds(u)
    <2>1. Of("cancel", b) \in Effects /\ Of("cancel", b).b = b
      BY <1>0, OfIsEffect
    <2> QED BY <1>0, <1>3, <1>4, <2>1, SubmitKeeps
  <1>6. /\ u.stored = t.stored /\ u.lease = t.lease
        /\ u.page = t.page /\ u.stopped = t.stopped /\ u.recovery = t.recovery
        /\ FreeIds(t) \subseteq FreeIds(u)
    BY <1>0, <1>3, <1>4, <1>5 DEF OnlyQueues
  <1> HIDE DEF u
  <1> QED BY <1>1, <1>3, <1>4, <1>5, <1>6

\* The end of an action instance.
LEMMA DestroyKeeps ==
    ASSUME World, NEW t, NEW Y, Sound(t, Y), NEW i \in Instances, NEW notify
    PROVE  LET u == Destroy(t, i, notify) IN
           /\ Sound(u, Y) /\ u.stored = t.stored /\ u.lease = t.lease
           /\ u.page = t.page /\ u.stopped = t.stopped /\ u.recovery = t.recovery
           /\ FreeIds(t) \subseteq FreeIds(u)
  <1> DEFINE r == t.rec[i]
             rec == [t.rec EXCEPT ![i] = NoRecord]
             v == [t EXCEPT !.rec = rec]
             e == Effect("destroy", None, None, FALSE, r.meta, r.contract)
             u == Submit(v, i, e)
             tells == /\ r.meta # None /\ notify
                      /\ r.contract # None /\ CurrentContract(r.session) = r.contract
  <1>0. t \in SessionRecords
    BY DEF Sound, Typed
  <1>1. Destroy(t, i, notify) = IF tells THEN u ELSE v
    BY DEF Destroy
  <1>2. NoRecord \in Records
    BY DEF NoRecord, Records, Sessions, None
  <1>3. rec \in [Instances -> Records]
    BY <1>0, <1>2 DEF SessionRecords
  <1>4. e \in Effects /\ e.b = None
    <2>1. r \in Records
      BY <1>0 DEF SessionRecords
    <2> HIDE DEF r
    <2> QED BY <2>1 DEF Effect, Effects, Records, None
  <1> HIDE DEF rec, e, tells
  <1>5. /\ v \in SessionRecords
        /\ v.stored = t.stored /\ v.lease = t.lease /\ v.status = t.status
        /\ v.input = t.input /\ v.authority = t.authority /\ v.held = t.held
        /\ v.ops = t.ops /\ v.deferred = t.deferred /\ v.wake = t.wake /\ v.queue = t.queue
        /\ v.stopped = t.stopped /\ v.page = t.page /\ v.recovery = t.recovery
    BY <1>0, <1>3 DEF SessionRecords
  <1> HIDE DEF v
  <1>6. Sound(v, Y) /\ FreeIds(v) = FreeIds(t)
    <2>1. St(v) = St(t) /\ Queued(v) = Queued(t) /\ (HardwareCurrent(v) <=> HardwareCurrent(t))
          /\ FreeIds(v) = FreeIds(t)
      BY <1>5 DEF St, Queued, HardwareCurrent, FreeIds
    <2>2. Typed(v)
      BY <1>5, SameQueuesSameLoads DEF Sound, Typed
    <2>3. Grants(v) /\ Crosses(v) /\ Routes(v)
      BY <1>5, <2>1 DEF Sound, Grants, InUse, Crosses, Routes
    <2>5. Ledger(t, Y)
      BY DEF Sound
    <2>6. Ledger(v, Y)
      BY <1>5, <2>1, <2>5, SameLedger
    <2> QED BY <2>1, <2>2, <2>3, <2>6 DEF Sound
  <1>7. Sound(u, Y) /\ OnlyQueues(v, u) /\ FreeIds(v) \ {None} \subseteq FreeIds(u)
    BY <1>4, <1>6, SubmitKeeps
  <1>8. /\ u.stored = t.stored /\ u.lease = t.lease
        /\ u.page = t.page /\ u.stopped = t.stopped /\ u.recovery = t.recovery
        /\ FreeIds(t) \subseteq FreeIds(u)
    <2>1. None \notin FreeIds(t)
      BY DEF FreeIds, Ids, None
    <2> QED BY <1>5, <1>6, <1>7, <2>1 DEF OnlyQueues
  <1> HIDE DEF u
  <1> QED BY <1>1, <1>5, <1>6, <1>7, <1>8

----------------------------------------------------------------------------
(* What the preparations under way rely on *)

\* Queues that are extended have lost nothing.
LEMMA ExtendsQueued ==
    ASSUME NEW t, NEW u, t.queue \in [Instances -> Seq(Effects)],
           u.queue \in [Instances -> Seq(Effects)], Extends(t, u)
    PROVE  Queued(t) \subseteq Queued(u)
  <1>1. \A i \in Instances : ToSet(t.queue[i]) \subseteq ToSet(u.queue[i])
    <2> SUFFICES ASSUME NEW i \in Instances PROVE ToSet(t.queue[i]) \subseteq ToSet(u.queue[i])
      OBVIOUS
    <2> DEFINE q == t.queue[i]
               r == u.queue[i]
    <2>1. /\ q \in Seq(Effects) /\ r \in Seq(Effects) /\ Len(q) <= Len(r)
          /\ \A k \in 1..Len(q) : r[k] = q[k]
      BY DEF Extends
    <2> HIDE DEF q, r
    <2>2. ToSet(q) \subseteq ToSet(r)
      BY <2>1 DEF ToSet
    <2> QED BY <2>2 DEF q, r
  <1> QED BY <1>1 DEF Queued

\* Queues may be extended again.
LEMMA ExtendsTransitively ==
    ASSUME NEW t, NEW u, NEW v, t.queue \in [Instances -> Seq(Effects)],
           u.queue \in [Instances -> Seq(Effects)], v.queue \in [Instances -> Seq(Effects)],
           Extends(t, u), Extends(u, v)
    PROVE  Extends(t, v)
  <1> SUFFICES ASSUME NEW i \in Instances
               PROVE  /\ Len(t.queue[i]) <= Len(v.queue[i])
                      /\ \A k \in 1..Len(t.queue[i]) : v.queue[i][k] = t.queue[i][k]
    BY DEF Extends
  <1> DEFINE q == t.queue[i]
             r == u.queue[i]
             x == v.queue[i]
  <1>1. /\ Len(q) \in Nat /\ Len(r) \in Nat /\ Len(x) \in Nat /\ Len(q) <= Len(r)
        /\ Len(r) <= Len(x) /\ \A k \in 1..Len(q) : r[k] = q[k]
        /\ \A k \in 1..Len(r) : x[k] = r[k]
    BY DEF Extends
  <1> HIDE DEF q, r, x
  <1>2. Len(q) <= Len(x) /\ \A k \in 1..Len(q) : x[k] = q[k]
    BY <1>1
  <1> QED BY <1>2 DEF q, r, x

\* Sessions follow one another.
LEMMA ContinuesTransitively ==
    ASSUME NEW t, NEW u, NEW v, Typed(t), Typed(u), Typed(v), Continues(t, u), Continues(u, v)
    PROVE  Continues(t, v)
  <1>1. /\ t.queue \in [Instances -> Seq(Effects)]
        /\ u.queue \in [Instances -> Seq(Effects)] /\ v.queue \in [Instances -> Seq(Effects)]
    BY DEF Typed, SessionRecords
  <1>2. Extends(t, v) /\ Queued(t) \subseteq Queued(u)
    BY <1>1, ExtendsTransitively, ExtendsQueued DEF Continues
  <1>3. Recognises(t, v)
    BY <1>2 DEF Continues, Recognises
  <1> QED BY <1>2, <1>3 DEF Continues

\* A session with more effects, and no operation less but those of bindings that are
\* gone or prepared.
LEMMA MoreContinues ==
    ASSUME NEW t, NEW u, Typed(t), Typed(u), Extends(t, u),
           \A o \in t.ops : o[2] \in St(u) /\ u.status[o[2]] = "preparing" => o \in u.ops,
           \A e \in Queued(t) : <<e.op, e.b>> \in u.ops =>
               /\ <<e.op, e.b>> \in t.ops
               /\ u.lease[e.b].contract = t.lease[e.b].contract
               /\ t.lease[e.b].attached => u.lease[e.b].attached,
           \A b \in St(u) : u.status[b] = "preparing" =>
               (b \in St(t) /\ t.status[b] = "preparing") \/ Prepares(u, b)
    PROVE  Continues(t, u)
  <1>0. Queued(t) \subseteq Queued(u)
    BY ExtendsQueued DEF Typed, SessionRecords
  <1>1. ASSUME Outstanding(t), NEW b \in St(u), u.status[b] = "preparing" PROVE Prepares(u, b)
    <2>1. CASE b \in St(t) /\ t.status[b] = "preparing"
      <3>1. Prepares(t, b)
        BY <1>1, <2>1 DEF Outstanding
      <3>2. PICK o \in t.ops : \E e \in Queued(t) :
                o[2] = b /\ e.kind = "prepare" /\ e.op = o[1] /\ e.b = b
        BY <3>1 DEF Prepares
      <3>3. o \in u.ops
        BY <1>1, <3>2
      <3> QED BY <1>0, <3>2, <3>3 DEF Prepares
    <2>2. CASE Prepares(u, b)
      BY <2>2
    <2> QED BY <1>1, <2>1, <2>2
  <1>2. Outstanding(t) => Outstanding(u)
    BY <1>1 DEF Outstanding
  <1> QED BY <1>2 DEF Continues, Recognises

\* A session with the same queues extends them.
LEMMA SameQueueExtends ==
    ASSUME NEW t, NEW u, t.queue \in [Instances -> Seq(Effects)], u.queue = t.queue
    PROVE  Extends(t, u)
  <1>1. \A i \in Instances : Len(t.queue[i]) \in Nat
    OBVIOUS
  <1> QED BY <1>1 DEF Extends

\* One with an effect more does, too.
LEMMA AppendExtends ==
    ASSUME NEW t, NEW u, t.queue \in [Instances -> Seq(Effects)], NEW i \in Instances,
           NEW e \in Effects, u.queue = [t.queue EXCEPT ![i] = Append(@, e)]
    PROVE  Extends(t, u)
  <1> SUFFICES ASSUME NEW j \in Instances
               PROVE  /\ Len(t.queue[j]) <= Len(u.queue[j])
                      /\ \A k \in 1..Len(t.queue[j]) : u.queue[j][k] = t.queue[j][k]
    BY DEF Extends
  <1> DEFINE q == t.queue[j]
             r == u.queue[j]
  <1>1. q \in Seq(Effects) /\ (r = q \/ r = Append(q, e))
    OBVIOUS
  <1> HIDE DEF q, r
  <1>2. Len(q) <= Len(r) /\ \A k \in 1..Len(q) : r[k] = q[k]
    BY <1>1
  <1> QED BY <1>2 DEF q, r

\* An effect that is submitted comes after all others, and takes no preparation away.
LEMMA SubmitContinues ==
    ASSUME NEW t, Typed(t), NEW i \in Instances, NEW e \in Effects
    PROVE  Continues(t, Submit(t, i, e))
  <1> DEFINE u == Submit(t, i, e)
  <1>1. Typed(u) /\ OnlyQueues(t, u) /\ Submitted(t, u, i, e)
    BY SubmitResult
  <1> HIDE DEF u
  <1>2. t.queue \in [Instances -> Seq(Effects)]
    BY DEF Typed, SessionRecords
  <1>3. Extends(t, u)
    BY <1>1, <1>2, SameQueueExtends, AppendExtends DEF Submitted
  <1>4. Continues(t, u)
    BY <1>1, <1>3, MoreContinues DEF OnlyQueues, St
  <1> QED BY <1>4 DEF u

\* A binding that is removed leaves the preparations of others alone.
LEMMA RemovedContinues ==
    ASSUME World, NEW t, NEW Y, Sound(t, Y), NEW b \in St(t)
    PROVE  Continues(t, Removed(t, b))
  <1> DEFINE u == Removed(t, b)
  <1>0. Typed(t) /\ t.queue \in [Instances -> Seq(Effects)]
    BY DEF Sound, Typed, SessionRecords
  <1>1. /\ St(u) = St(t) \ {b} /\ u.queue = t.queue /\ u.lease = t.lease /\ Typed(u)
    BY RemovedResult DEF Sound
  <1>2. /\ u.ops = {o \in t.ops : o[2] # b}
        /\ \A d \in Ids \ {b} : u.status[d] = t.status[d]
    BY DEF Sound, Typed, SessionRecords, Removed
  <1>3. St(t) \subseteq Ids
    BY DEF Sound, Typed, SessionRecords, St, ToSet
  <1> HIDE DEF u
  <1>4. Extends(t, u)
    BY <1>0, <1>1, SameQueueExtends
  <1>5. Continues(t, u)
    BY <1>0, <1>1, <1>2, <1>3, <1>4, MoreContinues
  <1> QED BY <1>5 DEF u

\* A session follows itself.
LEMMA ContinuesItself ==
    ASSUME NEW t, Typed(t) PROVE Continues(t, t)
  <1>1. Extends(t, t)
    BY SameQueueExtends DEF Typed, SessionRecords
  <1> QED BY <1>1 DEF Continues, Recognises

\* A revocation leaves the preparations of other bindings alone.
LEMMA RevokeContinues ==
    ASSUME World, NEW t, NEW Y, Sound(t, Y), NEW b, NEW notify
    PROVE  Continues(t, Revoke(t, b, notify))
  <1>1. t.stored \in Seq(Ids) /\ Typed(t)
    BY DEF Sound, Typed, SessionRecords
  <1>2. CASE b \notin St(t)
    <2>1. Revoke(t, b, notify) = t
      BY <1>1, <1>2, ContainsIsMember DEF Revoke, St
    <2> QED BY <1>1, <2>1, ContinuesItself
  <1>3. CASE b \in St(t)
    <2> DEFINE x == Removed(t, b)
               y == Cancelled(t, b)
               z == Revoked(t, b, notify)
               i == t.lease[b].inst
    <2>1. Sound(x, Y) /\ Continues(t, x)
      BY <1>3, RemovedResult, RemovedContinues
    <2>2. b \in Ids /\ InUse(t, b) /\ i \in Instances
      BY <1>1, <1>3 DEF Sound, Grants, Granted, InUse, St, ToSet
    <2>3. Of("cancel", b) \in Effects /\ Of("detach", b) \in Effects
      BY <2>2, OfIsEffect
    <2>4. y = x \/ y = Submit(x, i, Of("cancel", b))
      BY DEF Cancelled
    <2>5. z = y \/ z = Submit(y, i, Of("detach", b))
      BY DEF Revoked
    <2> HIDE DEF x, y, z, i
    <2>6. Typed(x) /\ Typed(y) /\ Continues(t, y)
      <3>1. Typed(x)
        BY <2>1 DEF Sound
      <3> DEFINE w == Submit(x, i, Of("cancel", b))
      <3>2. Typed(w) /\ Continues(x, w)
        BY <2>2, <2>3, <3>1, SubmitContinues, SubmitResult
      <3> HIDE DEF w
      <3>3. Continues(t, w)
        BY <1>1, <2>1, <3>1, <3>2, ContinuesTransitively
      <3> QED BY <2>1, <2>4, <3>1, <3>2, <3>3 DEF w
    <2>7. Continues(t, z)
      <3> DEFINE w == Submit(y, i, Of("detach", b))
      <3>1. Typed(w) /\ Continues(y, w)
        BY <2>2, <2>3, <2>6, SubmitContinues, SubmitResult
      <3> HIDE DEF w
      <3>2. Continues(t, w)
        BY <1>1, <2>6, <3>1, ContinuesTransitively
      <3> QED BY <2>5, <2>6, <3>2 DEF w
    <2> QED BY <1>3, <2>7, RevokeIsRevoked DEF z
  <1> QED BY <1>2, <1>3

\* An activation makes an operation nobody knows, and queues its preparation with it,
\* or makes none.
LEMMA ActivateContinues ==
    ASSUME World, NEW t, NEW Y, Sound(t, Y), NEW b \in St(t), NEW force \in BOOLEAN
    PROVE  Continues(t, Activate(t, b, force))
  <1> DEFINE restart == force \/ <<b, TRUE>> \in t.deferred
             u == Activate(t, b, force)
             l == t.lease[b]
             v == Planned(t, b, restart)
             w == Refused(Arranged(t, b, restart), b, restart)
             e == Preparation(t, b, restart)
  <1>0. b \in Ids /\ l.inst \in Instances /\ Typed(t)
    <2>1. b \in Ids /\ InUse(t, b)
      BY DEF Sound, Typed, SessionRecords, St, ToSet, InUse
    <2> QED BY <2>1 DEF Sound, Grants, Granted
  <1>1. \/ l.attached /\ l.ready /\ ~restart /\ u = Enable(t, b)
        \/ HasOperation(t, b) /\ u = t
        \/ /\ ~HasOperation(t, b) /\ ~(l.attached /\ l.ready /\ ~restart)
           /\ \/ Room(Arranged(t, b, restart), e) /\ u = Submit(v, l.inst, e)
              \/ u = w
    BY ActivateIs
  <1>2. restart \in BOOLEAN
    OBVIOUS
  <1>3. CASE u = Enable(t, b)
    <2>1. u.stored = t.stored /\ u.status = t.status /\ u.ops = t.ops /\ u.queue = t.queue
          /\ u.lease = t.lease
      BY <1>3 DEF Enable, Sound, Typed, SessionRecords
    <2>2. Typed(u)
      <3>1. t.lease[b].ctl \in Controls
        BY <1>0 DEF Sound, Grants, Granted, InUse
      <3> QED BY ZenonT(60), <1>0, <1>3, <3>1, EnableResult
    <2> HIDE DEF u
    <2>3. Extends(t, u)
      BY <2>1, SameQueueExtends DEF Sound, Typed, SessionRecords
    <2>4. Continues(t, u)
      BY <1>0, <2>1, <2>2, <2>3, MoreContinues DEF St
    <2> QED BY <2>4 DEF u
  <1>4. CASE u = t
    BY <1>0, <1>4, ContinuesItself
  <1> HIDE DEF u, v, w, e, restart
  <1>5. /\ Typed(v) /\ Decided(t, b, restart, v) /\ Typed(w) /\ Decided(t, b, restart, w)
        /\ e \in Effects /\ e.kind = "prepare" /\ e.b = b /\ e.op = FreshOp(t)
    BY <1>2, DecisionResult DEF v, w, e
  <1>6. /\ v.status = [t.status EXCEPT ![b] = "preparing"]
        /\ w.status = [t.status EXCEPT ![b] = "unavailable"] /\ w.ops = t.ops
        /\ v.ops = t.ops \union {<<FreshOp(t), b>>}
    <2> DEFINE a == Arranged(t, b, restart)
               rec == [t.rec EXCEPT ![l.inst] = a.rec[l.inst]]
               lease == [t.lease EXCEPT ![b] = [l EXCEPT !.ready = FALSE]]
               deferred == {d \in t.deferred : d[1] # b}
    <2>1. a = [t EXCEPT !.rec = rec, !.lease = lease, !.deferred = deferred]
      <3>1. IsArranged(t, b, restart, Arranged(t, b, restart))
        BY <1>2, ArrangedResult
      <3> QED BY <3>1 DEF IsArranged
    <2>2. t \in SessionRecords
      BY DEF Sound, Typed
    <2>3. /\ v = [a EXCEPT !.ops = @ \union {<<FreshOp(t), b>>}, !.status[b] = "preparing"]
          /\ w = [a EXCEPT !.status[b] = "unavailable", !.deferred = @ \union {<<b, restart>>},
                           !.wake = TRUE]
      BY DEF v, w, Planned, Refused
    <2> HIDE DEF a, rec, lease, deferred
    <2>4. /\ DOMAIN a = DOMAIN t /\ {"ops", "status", "deferred", "wake"} \subseteq DOMAIN t
          /\ a.ops = t.ops /\ a.status = t.status
      BY <2>1, <2>2 DEF SessionRecords
    <2> QED BY <1>0, <2>3, <2>4
  <1>7. /\ v.stored = t.stored /\ v.queue = t.queue /\ w.stored = t.stored /\ w.queue = t.queue
    BY <1>5 DEF Decided
  <1>8. St(t) \subseteq Ids /\ DOMAIN t.status = Ids /\ t.queue \in [Instances -> Seq(Effects)]
    BY DEF Sound, Typed, SessionRecords, St, ToSet
  <1>9. /\ \A d \in Ids : /\ v.lease[d].attached = t.lease[d].attached
                          /\ v.lease[d].contract = t.lease[d].contract
                          /\ w.lease[d].attached = t.lease[d].attached
                          /\ w.lease[d].contract = t.lease[d].contract
        /\ \A o \in t.ops : o[2] \in Ids
        /\ \A x \in Queued(t) : x.op # FreshOp(t)
    <2>1. \A x \in Queued(t) : x.op # FreshOp(t)
      BY <1>0, FreshNumbers DEF Typed
    <2>2. \A o \in t.ops : o[2] \in Ids
      BY DEF Sound, Typed, SessionRecords
    <2>3. t.lease \in [Ids -> Leases]
      BY DEF Sound, Typed, SessionRecords
    <2>4. \A x : Decided(t, b, restart, x) =>
              \A d \in Ids : /\ x.lease[d].attached = t.lease[d].attached
                             /\ x.lease[d].contract = t.lease[d].contract
      <3> SUFFICES ASSUME NEW x, Decided(t, b, restart, x), NEW d \in Ids
                   PROVE  /\ x.lease[d].attached = t.lease[d].attached
                          /\ x.lease[d].contract = t.lease[d].contract
        OBVIOUS
      <3>1. x.lease = [t.lease EXCEPT ![b] = [t.lease[b] EXCEPT !.ready = FALSE]]
        BY DEF Decided
      <3>2. t.lease[d] \in Leases
        BY <2>3
      <3> QED BY <1>0, <2>3, <3>1, <3>2 DEF Leases
    <2> QED BY <1>5, <2>1, <2>2, <2>4
  <1>10. CASE u = w
    <2>1. Extends(t, w)
      BY <1>7, <1>8, SameQueueExtends
    <2>2. \A x \in Queued(t) : <<x.op, x.b>> \in w.ops =>
              /\ <<x.op, x.b>> \in t.ops /\ w.lease[x.b].attached = t.lease[x.b].attached
              /\ w.lease[x.b].contract = t.lease[x.b].contract
      BY <1>6, <1>9
    <2>3. Continues(t, w)
      BY <1>0, <1>5, <1>6, <1>7, <1>8, <2>1, <2>2, MoreContinues DEF St
    <2> QED BY <1>10, <2>3 DEF u
  <1>11. CASE Room(Arranged(t, b, restart), e) /\ u = Submit(v, l.inst, e)
    <2>1. Room(v, e)
      BY <1>2, <1>11, DecisionResult DEF v, e
    <2>2. u.queue = [v.queue EXCEPT ![l.inst] = Append(@, e)]
          /\ u.stored = v.stored /\ u.status = v.status /\ u.ops = v.ops /\ u.lease = v.lease
      BY <1>5, <1>11, <2>1 DEF Submit, Typed, SessionRecords
    <2>3. Typed(u)
      BY <1>0, <1>5, <1>11, SubmitResult
    <2>4. Extends(t, u)
      <3> DEFINE j == l.inst
      <3>1. j \in Instances /\ e \in Effects /\ t.queue \in [Instances -> Seq(Effects)]
            /\ u.queue = [t.queue EXCEPT ![j] = Append(@, e)]
        BY <1>0, <1>5, <1>7, <1>8, <2>2
      <3> HIDE DEF j
      <3> QED BY <3>1, AppendExtends
    <2>5. e \in Queued(u)
      <3>1. v.queue \in [Instances -> Seq(Effects)]
        BY SMTT(30), <1>7, <1>8
      <3>2. u.queue[l.inst] = Append(v.queue[l.inst], e) /\ v.queue[l.inst] \in Seq(Effects)
        BY SMTT(30), <1>0, <2>2, <3>1
      <3>3. ToSet(u.queue[l.inst]) = ToSet(v.queue[l.inst]) \union {e}
        BY SMTT(30), <1>5, <3>2, AppendAddsElement
      <3> QED BY <1>0, <3>3 DEF Queued
    <2>6. <<FreshOp(t), b>> \in u.ops
      <3>1. u.ops = t.ops \union {<<FreshOp(t), b>>}
        BY <1>6, <2>2
      <3> QED BY <3>1
    <2>7. Prepares(u, b)
      BY <1>5, <2>5, <2>6 DEF Prepares
    <2>8. \A x \in Queued(t) : <<x.op, x.b>> \in u.ops =>
              /\ <<x.op, x.b>> \in t.ops /\ u.lease[x.b].attached = t.lease[x.b].attached
              /\ u.lease[x.b].contract = t.lease[x.b].contract
      BY <1>6, <1>9, <2>2
    <2>9. \A o \in t.ops : o \in u.ops
      BY <1>6, <2>2
    <2>10. St(u) = St(t) /\ \A d \in Ids \ {b} : u.status[d] = t.status[d]
      BY <1>6, <1>7, <1>8, <2>2 DEF St
    <2>11. \A d \in St(u) : u.status[d] = "preparing" =>
               (d \in St(t) /\ t.status[d] = "preparing") \/ Prepares(u, d)
      BY <1>8, <2>7, <2>10
    <2>12. Continues(t, u)
      BY <1>0, <2>3, <2>4, <2>8, <2>9, <2>11, MoreContinues
    <2> QED BY <2>12 DEF u
  <1> QED BY <1>1, <1>3, <1>4, <1>10, <1>11 DEF u

\* Fields the preparations do not look at do not matter.
LEMMA AlikeContinues ==
    ASSUME NEW t, NEW u, Typed(t), Typed(u), Alike(t, u) PROVE Continues(t, u)
  <1>1. Extends(t, u)
    BY SameQueueExtends DEF Alike, Typed, SessionRecords
  <1> QED BY <1>1, MoreContinues DEF Alike, St

\* A binding that is resolved is not one that is preparing already.
LEMMA TryResolveContinues ==
    ASSUME World, NEW t, Sound(t, {}), NEW g \in Pages, NEW c \in Controls, FreeIds(t) # {},
           \A d \in St(t) : t.lease[d].ctl # c
    PROVE  Continues(t, TryResolve(t, g, c))
  <1> DEFINE b == Min(FreeIds(t))
             v == Resolved(t, b, g, c)
             u == Activate(v, b, FALSE)
  <1>0. Typed(t)
    BY DEF Sound
  <1>1. b \in FreeIds(t) /\ b \in Ids
    BY FirstFree DEF FreeIds
  <1>2. CASE CurrentContract(listed) = None
    BY <1>0, <1>2, ContinuesItself DEF TryResolve
  <1>3. CASE CurrentContract(listed) # None
    <2>1. TryResolve(t, g, c) = u
      BY <1>3 DEF TryResolve, Resolved, NewLease
    <2>2. /\ v.status = [t.status EXCEPT ![b] = "none"] /\ v.ops = t.ops /\ v.queue = t.queue
          /\ t.status \in [Ids -> {"none", "preparing", "active", "unavailable", "retired"}]
          /\ t.ops \in SUBSET (Nat \X Ids)
      BY DEF Sound, Typed, SessionRecords, Resolved
    <2> HIDE DEF b
    <2>3. Sound(v, {b}) /\ St(v) = St(t) \union {b} /\ \A d \in Ids \ {b} : v.lease[d] = t.lease[d]
      BY <1>1, <1>3, ResolvedKeeps
    <2> HIDE DEF v
    <2>4. St(v) \subseteq Ids
      BY <2>3 DEF Sound, Typed, SessionRecords, St, ToSet
    <2>5. b \notin St(t)
      BY <1>0, <1>1, FreeIsUnused DEF InUse
    <2>6. Continues(t, v) /\ Typed(v)
      <3>1. \A d \in St(v) : v.status[d] = "preparing" =>
                d \in St(t) /\ t.status[d] = "preparing"
        BY <1>1, <2>2, <2>3, <2>4
      <3>2. \A e \in Queued(t) : <<e.op, e.b>> \in v.ops =>
                /\ <<e.op, e.b>> \in t.ops /\ (t.lease[e.b].attached => v.lease[e.b].attached)
                /\ v.lease[e.b].contract = t.lease[e.b].contract
        <4>1. \A o \in t.ops : o[2] \in St(t) /\ o[2] \in Ids
          BY <2>2 DEF Sound, Ledger
        <4>2. \A x, y : <<x, y>> \in v.ops => y \in St(t) /\ y \in Ids
          BY <2>2, <4>1
        <4> QED BY <2>2, <2>3, <2>5, <4>2
      <3>3. Extends(t, v)
        BY <2>2, SameQueueExtends DEF Sound, Typed, SessionRecords
      <3>4. Typed(v)
        BY <2>3 DEF Sound
      <3> QED BY <1>0, <2>2, <3>1, <3>2, <3>3, <3>4, MoreContinues
    <2>7. Continues(v, u) /\ Typed(u)
      <3>1. b \in St(v) /\ FALSE \in BOOLEAN
        BY <2>3
      <3>2. Continues(v, u)
        BY <2>3, <3>1, ActivateContinues
      <3>3. Sound(u, {b} \ {b})
        BY <2>3, <3>1, ActivateKeeps
      <3> QED BY <3>2, <3>3 DEF Sound
    <2> HIDE DEF u
    <2> QED BY <1>0, <2>1, <2>6, <2>7, ContinuesTransitively
  <1> QED BY <1>2, <1>3

\* So does the cancellation of a held input,
LEMMA CancelHeldContinues ==
    ASSUME World, NEW t, NEW Y, Sound(t, Y), NEW b \in St(t)
    PROVE  Continues(t, CancelHeld(t, b))
  <1> DEFINE c == t.lease[b].ctl
             i == t.lease[b].inst
             v == [t EXCEPT !.held[c] = None, !.suppressed = @ \union {c}]
             u == Submit(v, i, Of("cancel", b))
  <1>1. /\ t \in SessionRecords /\ WithinReserves(t) /\ IsInjective(t.stored)
        /\ IsFiniteSet(t.ops) /\ b \in Ids /\ i \in Instances /\ c \in Controls /\ Typed(t)
    <2>1. t \in SessionRecords /\ b \in Ids /\ InUse(t, b) /\ Typed(t)
      BY DEF Sound, Typed, SessionRecords, St, ToSet, InUse
    <2> QED BY <2>1 DEF Sound, Grants, Granted, Typed
  <1>2. \/ CancelHeld(t, b) = t \/ CancelHeld(t, b) = v \/ CancelHeld(t, b) = u
    BY DEF CancelHeld
  <1>3. /\ v \in SessionRecords /\ v.stored = t.stored /\ v.status = t.status
        /\ v.ops = t.ops /\ v.queue = t.queue /\ v.lease = t.lease
    BY ZenonT(60), <1>1 DEF SessionRecords
  <1> HIDE DEF v, i
  <1>4. Typed(v)
    BY <1>1, <1>3, SameQueuesSameLoads DEF Typed
  <1>5. Extends(t, v)
    BY <1>1, <1>3, SameQueueExtends DEF SessionRecords
  <1>6. Continues(t, v)
    BY <1>1, <1>3, <1>4, <1>5, MoreContinues DEF St
  <1>7. Of("cancel", b) \in Effects
    BY <1>1, OfIsEffect
  <1>8. Typed(u) /\ Continues(v, u)
    BY <1>1, <1>4, <1>7, SubmitContinues, SubmitResult
  <1> HIDE DEF u
  <1> QED BY <1>1, <1>2, <1>4, <1>6, <1>8, ContinuesItself, ContinuesTransitively

\* and the destruction of an instance.
LEMMA DestroyContinues ==
    ASSUME World, NEW t, NEW Y, Sound(t, Y), NEW i \in Instances, NEW notify
    PROVE  Continues(t, Destroy(t, i, notify))
  <1> DEFINE r == t.rec[i]
             v == [t EXCEPT !.rec[i] = NoRecord]
             e == Effect("destroy", None, None, FALSE, r.meta, r.contract)
             u == Submit(v, i, e)
  <1>1. t \in SessionRecords /\ WithinReserves(t) /\ IsInjective(t.stored) /\ IsFiniteSet(t.ops)
        /\ Typed(t)
    BY DEF Sound, Typed
  <1>2. Destroy(t, i, notify) = v \/ Destroy(t, i, notify) = u
    BY DEF Destroy
  <1>3. NoRecord \in Records
    BY DEF NoRecord, Records, Sessions, None
  <1>4. /\ v \in SessionRecords /\ v.stored = t.stored /\ v.status = t.status
        /\ v.ops = t.ops /\ v.queue = t.queue /\ v.lease = t.lease
    BY <1>1, <1>3 DEF SessionRecords
  <1>5. e \in Effects
    <2>1. r \in Records
      BY <1>1 DEF SessionRecords
    <2> HIDE DEF r
    <2> QED BY <2>1 DEF Effect, Effects, Records, None
  <1> HIDE DEF v, e
  <1>6. Typed(v)
    BY <1>1, <1>4, SameQueuesSameLoads DEF Typed
  <1>7. Extends(t, v)
    BY <1>1, <1>4, SameQueueExtends DEF SessionRecords
  <1>8. Continues(t, v)
    BY <1>1, <1>4, <1>6, <1>7, MoreContinues DEF St
  <1>9. Typed(u) /\ Continues(v, u)
    BY <1>5, <1>6, SubmitContinues, SubmitResult
  <1> HIDE DEF u
  <1> QED BY <1>1, <1>2, <1>6, <1>8, <1>9, ContinuesTransitively

\* Stored bindings have identities.
LEMMA StoredAreIds ==
    ASSUME NEW t, NEW Y, Sound(t, Y) PROVE St(t) \subseteq Ids /\ None \notin St(t)
  <1>1. St(t) \subseteq Ids
    BY DEF Sound, Typed, SessionRecords, St, ToSet
  <1>2. None \notin Ids
    BY DEF Ids, None
  <1> QED BY <1>1, <1>2

\* Bindings that are stored have been granted.
LEMMA StoredAreGranted ==
    ASSUME NEW t, NEW Y, Sound(t, Y), NEW b \in St(t)
    PROVE  b \in Ids /\ Granted(t.lease[b])
  <1>1. b \in Ids
    BY StoredAreIds
  <1> QED BY <1>1 DEF Sound, Grants, InUse

----------------------------------------------------------------------------
(* Every press comes to an end *)

\* What is in a queue is in use.
LEMMA QueuedInUse ==
    ASSUME NEW t, t.queue \in [Instances -> Seq(Effects)], NEW i \in Instances,
           NEW k \in DOMAIN t.queue[i]
    PROVE  /\ t.queue[i][k] \in Effects /\ t.queue[i][k] \in Queued(t)
           /\ InUse(t, t.queue[i][k].b)
  <1>1. t.queue[i] \in Seq(Effects)
    OBVIOUS
  <1>2. t.queue[i][k] \in Effects
    BY <1>1
  <1>3. t.queue[i][k] \in ToSet(t.queue[i])
    BY <1>1 DEF ToSet
  <1>4. t.queue[i][k] \in Queued(t)
    BY <1>3 DEF Queued
  <1> QED BY <1>2, <1>4 DEF InUse

\* An installed binding has not been detached.
LEMMA StoredUndetached ==
    ASSUME NEW t, NEW B, Tidy(t, B), NEW b \in St(t)
    PROVE  Undetached(t, b)
  BY DEF Tidy, InOrder, Belongs, Undetached

\* A section that queues nothing, and lets go of the interactions of C at most.
LEMMA TidyStays ==
    ASSUME World, NEW t, NEW u, Typed(t), u.queue = t.queue, NEW B, NEW C, B \subseteq C,
           Tidy(t, B),
           \A d \in Ids : InUse(t, d) =>
              /\ u.lease[d].inst = t.lease[d].inst /\ u.lease[d].ctl = t.lease[d].ctl
              /\ d \in t.lossy => d \in u.lossy
              /\ d \notin C /\ t.held[t.lease[d].ctl] = d => u.held[t.lease[d].ctl] = d
              /\ d \in St(u) => d \in St(t),
           \A c \in Controls : u.held[c] # None => u.lease[u.held[c]].attached,
           \A d \in St(u) : u.lease[d].ready /\ UsesCurrentContract(u.lease[d]) => d \in p.attached
    PROVE  Tidy(u, C)
  <1>1. t.queue \in [Instances -> Seq(Effects)]
    BY DEF Typed, SessionRecords
  <1>2. ASSUME NEW d \in Ids, InUse(t, d), d \notin C, NEW k, Ends(t, d, k) PROVE Ends(u, d, k)
    BY ZenonT(60), <1>2 DEF Ends, Ended
  <1>3. ASSUME NEW i \in Instances, NEW k \in DOMAIN t.queue[i]
        PROVE  Belongs(u, i, k, u.queue[i][k], C)
    <2> DEFINE e == t.queue[i][k]
    <2>1. Belongs(t, i, k, e, B)
      BY <1>3 DEF Tidy, InOrder
    <2>2. InUse(t, e.b)
      BY <1>1, <1>3, QueuedInUse
    <2>3. e = u.queue[i][k]
      OBVIOUS
    <2>4. e.kind # "destroy" => e.b \in Ids
      BY <2>1 DEF Belongs
    <2> HIDE DEF e
    <2>5. e.kind = "detach" => e.kind # "destroy"
      OBVIOUS
    <2>6. e.kind = "down" => e.kind # "destroy"
      OBVIOUS
    <2>7. e.kind = "down" /\ e.b \notin C => Ends(u, e.b, k)
      BY <1>2, <2>1, <2>2, <2>4, <2>6 DEF Belongs
    <2>8. Belongs(u, i, k, e, C)
      BY <2>1, <2>2, <2>4, <2>5, <2>7 DEF Belongs
    <2> QED BY <2>3, <2>8
  <1>4. InOrder(u, C)
    BY <1>3 DEF InOrder
  <1>5. ASSUME NEW b \in p.pressed PROVE b \in Ids /\ InUse(t, b)
    BY <1>5 DEF World, InUse
  <1>6. \A b \in p.pressed \ C : Ends(u, b, 0)
    BY <1>2, <1>5 DEF Tidy
  <1>7. p.pressed \subseteq p.attached \union u.lossy
    BY <1>5 DEF Tidy
  <1> QED BY <1>4, <1>6, <1>7 DEF Tidy

\* Where an effect goes that is submitted.
LEMMA SubmitCases ==
    ASSUME NEW t, Typed(t), NEW i \in Instances, NEW e \in Effects
    PROVE  LET u == Submit(t, i, e) IN
           /\ Typed(u) /\ OnlyQueues(t, u)
           /\ \/ /\ u.queue = [t.queue EXCEPT ![i] = Append(@, e)] /\ u.lossy = t.lossy
                 /\ Room(t, e)
              \/ /\ u.queue = t.queue /\ u.lossy = t.lossy \union {e.b}
                 /\ IsCleanup(e) /\ ~Room(t, e)
              \/ /\ u.queue = t.queue /\ u.lossy = t.lossy
                 /\ ~IsCleanup(e) /\ ~Room(t, e)
  <1>1. t \in SessionRecords
    BY DEF Typed
  <1>2. Room(t, e) => Submit(t, i, e).queue = [t.queue EXCEPT ![i] = Append(@, e)]
                      /\ Submit(t, i, e).lossy = t.lossy
    BY <1>1 DEF Submit, SessionRecords
  <1>3. ~Room(t, e) /\ IsCleanup(e) => Submit(t, i, e).queue = t.queue
                      /\ Submit(t, i, e).lossy = t.lossy \union {e.b}
    BY <1>1 DEF Submit, SessionRecords
  <1>4. ~Room(t, e) /\ ~IsCleanup(e) => Submit(t, i, e) = t
    BY DEF Submit
  <1> QED BY <1>2, <1>3, <1>4, SubmitResult

\* What is appended to a queue.
LEMMA AppendedAt ==
    ASSUME NEW t, NEW u, t.queue \in [Instances -> Seq(Effects)], NEW i \in Instances,
           NEW e \in Effects, u.queue = [t.queue EXCEPT ![i] = Append(@, e)]
    PROVE  /\ Len(t.queue[i]) \in Nat /\ DOMAIN t.queue[i] = 1..Len(t.queue[i])
           /\ DOMAIN u.queue[i] = 1..(Len(t.queue[i]) + 1)
           /\ u.queue[i][Len(t.queue[i]) + 1] = e
           /\ \A j \in Instances : j # i => u.queue[j] = t.queue[j]
           /\ \A j \in Instances : \A k \in DOMAIN t.queue[j] :
                 /\ k \in Nat /\ k \in DOMAIN u.queue[j] /\ u.queue[j][k] = t.queue[j][k]
  <1>1. t.queue[i] \in Seq(Effects) /\ u.queue[i] = Append(t.queue[i], e)
    OBVIOUS
  <1>2. \A j \in Instances : j # i => u.queue[j] = t.queue[j]
    OBVIOUS
  <1> DEFINE q == t.queue[i]
             r == u.queue[i]
  <1>3. q \in Seq(Effects) /\ r = Append(q, e)
    BY <1>1
  <1> HIDE DEF q, r
  <1>4. /\ Len(q) \in Nat /\ DOMAIN q = 1..Len(q) /\ DOMAIN r = 1..(Len(q) + 1)
        /\ r[Len(q) + 1] = e /\ \A k \in 1..Len(q) : r[k] = q[k]
    BY <1>3
  <1>5. ASSUME NEW j \in Instances, NEW k \in DOMAIN t.queue[j]
        PROVE  k \in Nat /\ k \in DOMAIN u.queue[j] /\ u.queue[j][k] = t.queue[j][k]
    <2>1. CASE j = i
      <3>1. k \in 1..Len(q)
        BY <1>4, <1>5, <2>1 DEF q
      <3>2. k \in Nat /\ k \in DOMAIN r /\ r[k] = q[k]
        BY <1>4, <3>1
      <3> QED BY <2>1, <3>2 DEF q, r
    <2>2. CASE j # i
      <3>1. t.queue[j] \in Seq(Effects)
        OBVIOUS
      <3>2. k \in Nat
        BY <3>1
      <3> QED BY <1>2, <2>2, <3>2
    <2> QED BY <2>1, <2>2
  <1> QED BY <1>2, <1>4, <1>5 DEF q, r

\* An effect that is submitted: one that ends a press settles what is owed to its binding.
LEMMA TidySubmit ==
    ASSUME World, NEW t, Typed(t), Grants(t), NEW i \in Instances, NEW e \in Effects,
           NEW B, NEW C,
           Tidy(t, B),
           e.kind = "destroy" => e.b = None,
           e.kind # "destroy" => e.b \in Ids /\ t.lease[e.b].inst = i /\ Undetached(t, e.b),
           e.kind = "detach" => e.b \notin St(t),
           e.kind = "down" => t.held[t.lease[e.b].ctl] = e.b,
           Settling(t, e, B, C)
    PROVE  Tidy(Submit(t, i, e), C)
  <1> DEFINE u == Submit(t, i, e)
             n == Len(t.queue[i])
  <1>1. /\ OnlyQueues(t, u)
        /\ \/ /\ u.queue = [t.queue EXCEPT ![i] = Append(@, e)] /\ u.lossy = t.lossy
           \/ u.queue = t.queue /\ u.lossy = t.lossy \union {e.b}
           \/ u.queue = t.queue /\ u.lossy = t.lossy /\ ~IsCleanup(e) /\ ~Room(t, e)
    BY SubmitCases
  <1>2. t.queue \in [Instances -> Seq(Effects)]
    BY DEF Typed, SessionRecords
  <1> HIDE DEF u
  <1>3. /\ u.stored = t.stored /\ u.lease = t.lease /\ u.held = t.held
        /\ St(u) = St(t)
    BY <1>1 DEF OnlyQueues, St
  <1>4. CASE u.queue = t.queue /\ u.lossy = t.lossy /\ ~IsCleanup(e) /\ ~Room(t, e)
    <2>1. C = B
      BY <1>4 DEF IsCleanup, Cleanup, Settling
    <2> QED BY <1>3, <1>4, <2>1, TidyStays DEF Tidy, u
  <1>5. CASE u.queue = t.queue /\ u.lossy = t.lossy \union {e.b}
    <2>1. \A d, k : Ends(t, d, k) => Ends(u, d, k)
      BY ZenonT(60), <1>3, <1>5 DEF Ends, Ended
    <2>2. \A k : Ends(u, e.b, k)
      BY <1>5 DEF Ends
    <2>3. \A d, k : d \notin C => d \notin B \/ d = e.b
      BY DEF Settling
    <2>4. ASSUME NEW j \in Instances, NEW k \in DOMAIN u.queue[j]
          PROVE  Belongs(u, j, k, u.queue[j][k], C)
      <3>1. Belongs(t, j, k, t.queue[j][k], B)
        BY <1>5, <2>4 DEF Tidy, InOrder
      <3> QED BY <1>3, <1>5, <2>1, <2>2, <2>3, <3>1 DEF Belongs
    <2>5. \A b \in p.pressed \ C : Ends(u, b, 0)
      BY <2>1, <2>2, <2>3 DEF Tidy
    <2>6. p.pressed \subseteq p.attached \union u.lossy
      BY <1>5 DEF Tidy
    <2>7. InOrder(u, C)
      BY <2>4 DEF InOrder
    <2> QED BY <1>3, <2>5, <2>6, <2>7 DEF Tidy, u
  <1>6. CASE u.queue = [t.queue EXCEPT ![i] = Append(@, e)] /\ u.lossy = t.lossy
    <2>1. /\ n \in Nat /\ DOMAIN t.queue[i] = 1..n /\ DOMAIN u.queue[i] = 1..(n + 1)
          /\ u.queue[i][n + 1] = e
          /\ \A j \in Instances : j # i => u.queue[j] = t.queue[j]
          /\ \A j \in Instances : \A k \in DOMAIN t.queue[j] :
                k \in Nat /\ k \in DOMAIN u.queue[j] /\ u.queue[j][k] = t.queue[j][k]
      BY <1>2, <1>6, AppendedAt
    <2> HIDE DEF n
    <2>2. ASSUME NEW d \in Ids, InUse(t, d), NEW k, Ends(t, d, k) PROVE Ends(u, d, k)
      <3>1. t.lease[d].inst \in Instances
        BY <2>2 DEF Grants, Granted
      <3>2. Ended(t, d, k) => Ended(u, d, k)
        <4> SUFFICES ASSUME NEW j \in DOMAIN t.queue[t.lease[d].inst], j > k,
                            t.queue[t.lease[d].inst][j].b = d,
                            t.queue[t.lease[d].inst][j].kind \in {"up", "cancel"}
                     PROVE  Ended(u, d, k)
          BY DEF Ended
        <4>1. j \in DOMAIN u.queue[t.lease[d].inst]
              /\ u.queue[t.lease[d].inst][j] = t.queue[t.lease[d].inst][j]
          BY <2>1, <3>1
        <4> QED BY ZenonT(60), <1>3, <4>1 DEF Ended
      <3> QED BY <1>3, <1>6, <2>2, <3>2 DEF Ends
    <2>3. ASSUME C # B, NEW k \in Nat, k <= n PROVE Ends(u, e.b, k)
      <3>1. e.kind \in {"up", "cancel"}
        BY <2>3 DEF Settling
      <3>2. u.lease[e.b].inst = i
        BY <1>3, <3>1
      <3>3. n + 1 \in DOMAIN u.queue[i] /\ n + 1 > k
        BY <2>1, <2>3
      <3> QED BY <2>1, <3>1, <3>2, <3>3 DEF Ends, Ended
    <2>4. ASSUME NEW d, d \notin C, d \in B PROVE d = e.b /\ C # B
      BY <2>4 DEF Settling
    <2>5. ASSUME NEW j \in Instances, NEW k \in DOMAIN t.queue[j]
          PROVE  Belongs(u, j, k, u.queue[j][k], C)
      <3> DEFINE x == t.queue[j][k]
      <3>1. Belongs(t, j, k, x, B)
        BY <2>5 DEF Tidy, InOrder
      <3>2. x \in Effects /\ InUse(t, x.b) /\ u.queue[j][k] = x /\ k \in Nat
        BY <1>2, <2>1, <2>5, QueuedInUse
      <3>3. x.kind = "detach" => \A m \in DOMAIN u.queue[j] : m > k => u.queue[j][m].b # x.b
        <4> SUFFICES ASSUME x.kind = "detach", NEW m \in DOMAIN u.queue[j], m > k
                     PROVE  u.queue[j][m].b # x.b
          OBVIOUS
        <4>1. CASE m \in DOMAIN t.queue[j]
          BY <2>1, <3>1, <4>1 DEF Belongs
        <4>2. CASE m \notin DOMAIN t.queue[j]
          <5>1. j = i /\ m = n + 1
            <6>1. j = i
              BY <2>1, <4>2
            <6> QED BY <2>1, <4>2, <6>1
          <5>2. u.queue[j][m] = e
            BY <2>1, <5>1
          <5>3. x.b \in Ids
            BY <3>1 DEF Belongs
          <5>4. e.kind # "destroy" => x.b # e.b
            BY DEF Undetached
          <5>5. None \notin Ids
            BY DEF None, Ids
          <5> QED BY <5>2, <5>3, <5>4, <5>5
        <4> QED BY <4>1, <4>2
      <3>4. x.kind = "down" /\ x.b \notin C => Ends(u, x.b, k)
        <4> SUFFICES ASSUME x.kind = "down", x.b \notin C PROVE Ends(u, x.b, k)
          OBVIOUS
        <4>1. CASE x.b \notin B
          <5>1. x.b \in Ids /\ Ends(t, x.b, k)
            BY <3>1, <4>1 DEF Belongs
          <5> QED BY <2>2, <3>2, <5>1
        <4>2. CASE x.b \in B
          <5>1. x.b = e.b /\ C # B
            BY <2>4, <4>2
          <5>2. e.kind \in {"up", "cancel"} /\ t.lease[x.b].inst = j /\ t.lease[e.b].inst = i
            BY <3>1, <5>1 DEF Belongs, Settling
          <5>3. k <= n
            BY <2>1, <5>1, <5>2
          <5> QED BY <2>3, <3>2, <5>1, <5>3
        <4> QED BY <4>1, <4>2
      <3> HIDE DEF x
      <3> QED BY <1>3, <3>1, <3>2, <3>3, <3>4 DEF Belongs
    <2>6. Belongs(u, i, n + 1, e, C)
      <3>1. \A m \in DOMAIN u.queue[i] : ~(m > n + 1)
        BY <2>1
      <3>2. e.kind = "down" => Ends(u, e.b, n + 1)
        BY <1>3 DEF Ends
      <3> QED BY <1>3, <3>1, <3>2 DEF Belongs
    <2>7. InOrder(u, C)
      <3> SUFFICES ASSUME NEW j \in Instances, NEW k \in DOMAIN u.queue[j]
                   PROVE  Belongs(u, j, k, u.queue[j][k], C)
        BY DEF InOrder
      <3>1. CASE k \in DOMAIN t.queue[j]
        BY <2>5, <3>1
      <3>2. CASE k \notin DOMAIN t.queue[j]
        <4>1. j = i
          BY <2>1, <3>2
        <4>2. k = n + 1
          BY <2>1, <3>2, <4>1
        <4> QED BY <2>1, <2>6, <4>1, <4>2
      <3> QED BY <3>1, <3>2
    <2>8. ASSUME NEW b \in p.pressed \ C PROVE Ends(u, b, 0)
      <3>1. b \in Ids /\ InUse(t, b)
        BY <2>8 DEF World, InUse
      <3>2. CASE b \notin B
        BY <2>2, <2>8, <3>1, <3>2 DEF Tidy
      <3>3. CASE b \in B
        BY <2>1, <2>3, <2>4, <2>8, <3>3
      <3> QED BY <3>2, <3>3
    <2> QED BY <1>3, <1>6, <2>7, <2>8 DEF Tidy, u
  <1> QED BY <1>1, <1>4, <1>5, <1>6

\* Only a detach of b detaches b.
LEMMA SubmitUndetached ==
    ASSUME NEW t, Typed(t), NEW i \in Instances, NEW e \in Effects, NEW d,
           Undetached(t, d), e.kind # "detach"
    PROVE  Undetached(Submit(t, i, e), d)
  <1> DEFINE u == Submit(t, i, e)
  <1>1. u.queue = [t.queue EXCEPT ![i] = Append(@, e)] \/ u.queue = t.queue
    BY SubmitCases
  <1>2. t.queue \in [Instances -> Seq(Effects)]
    BY DEF Typed, SessionRecords
  <1> HIDE DEF u
  <1>3. CASE u.queue = t.queue
    BY <1>3 DEF Undetached, u
  <1>4. CASE u.queue = [t.queue EXCEPT ![i] = Append(@, e)]
    <2> DEFINE n == Len(t.queue[i])
    <2>1. /\ n \in Nat /\ DOMAIN t.queue[i] = 1..n /\ DOMAIN u.queue[i] = 1..(n + 1)
          /\ u.queue[i][n + 1] = e
          /\ \A j \in Instances : j # i => u.queue[j] = t.queue[j]
          /\ \A j \in Instances : \A k \in DOMAIN t.queue[j] :
                k \in Nat /\ k \in DOMAIN u.queue[j] /\ u.queue[j][k] = t.queue[j][k]
      BY <1>2, <1>4, AppendedAt
    <2> HIDE DEF n
    <2>2. ASSUME NEW j \in Instances, NEW k \in DOMAIN u.queue[j], u.queue[j][k].kind = "detach"
          PROVE  u.queue[j][k].b # d
      <3>1. CASE k \in DOMAIN t.queue[j]
        BY <2>1, <2>2, <3>1 DEF Undetached
      <3>2. CASE k \notin DOMAIN t.queue[j]
        <4>1. j = i
          BY <2>1, <3>2
        <4>2. k = n + 1
          BY <2>1, <3>2, <4>1
        <4> QED BY <2>1, <2>2, <4>1, <4>2
      <3> QED BY <3>1, <3>2
    <2> QED BY <2>2 DEF Undetached, u
  <1> QED BY <1>1, <1>3, <1>4

\* The end of a press is submitted,
LEMMA TidyCancel ==
    ASSUME World, NEW t, Typed(t), Grants(t), NEW b \in Ids, NEW i \in Instances,
           t.lease[b].inst = i, Undetached(t, b), Tidy(t, {b})
    PROVE  Tidy(Submit(t, i, Of("cancel", b)), {})
  <1>1. PICK e : e = Of("cancel", b)
    OBVIOUS
  <1>2. e \in Effects /\ e.kind = "cancel" /\ e.b = b
    BY <1>1, OfIsEffect DEF Of, Effect
  <1>3. PICK B : B = {b}
    OBVIOUS
  <1>4. PICK C : C = B \ {e.b}
    OBVIOUS
  <1>5. Settling(t, e, B, C)
    BY <1>2, <1>4 DEF Settling
  <1>6. Tidy(t, B)
    BY <1>3
  <1>7. Tidy(Submit(t, i, e), C)
    BY <1>2, <1>5, <1>6, TidySubmit
  <1>8. C = {}
    BY <1>2, <1>3, <1>4
  <1> QED BY <1>1, <1>7, <1>8

\* and the detach of a binding that is gone.
LEMMA TidyDetach ==
    ASSUME World, NEW t, Typed(t), Grants(t), NEW b \in Ids, NEW i \in Instances,
           t.lease[b].inst = i, Undetached(t, b), b \notin St(t), NEW B, Tidy(t, B)
    PROVE  Tidy(Submit(t, i, Of("detach", b)), B)
  <1>1. PICK e : e = Of("detach", b)
    OBVIOUS
  <1>2. e \in Effects /\ e.kind = "detach" /\ e.b = b
    BY <1>1, OfIsEffect DEF Of, Effect
  <1>3. Tidy(Submit(t, i, e), B)
    BY <1>2, TidySubmit DEF Settling
  <1> QED BY <1>1, <1>3

\* A revocation ends the held interaction and detaches, in this order.
LEMMA RevokedTidy ==
    ASSUME World, NEW t, NEW Y, Sound(t, Y), NEW b \in St(t), NEW notify, Tidy(t, {})
    PROVE  Tidy(Revoked(t, b, notify), {})
  <1> DEFINE c == t.lease[b].ctl
             i == t.lease[b].inst
             x == Removed(t, b)
             y == Cancelled(t, b)
             z == Revoked(t, b, notify)
  <1>1. /\ Sound(x, Y) /\ St(x) = St(t) \ {b} /\ Typed(t)
        /\ x.lease = t.lease /\ x.queue = t.queue /\ x.lossy = t.lossy
    BY RemovedResult DEF Sound
  <1>2. b \in Ids /\ i \in Instances /\ c \in Controls
    BY StoredAreGranted DEF Granted
  <1>3. \A d \in Controls : x.held[d] = IF d = c /\ t.held[c] = b THEN None ELSE t.held[d]
    BY <1>2 DEF Sound, Typed, SessionRecords, Removed
  <1>4. Of("cancel", b) \in Effects /\ Of("detach", b) \in Effects
        /\ Of("cancel", b).kind = "cancel" /\ Of("detach", b).kind = "detach"
        /\ Of("cancel", b).b = b /\ Of("detach", b).b = b
    BY <1>2, OfIsEffect DEF Of, Effect
  <1>5. Undetached(x, b)
    BY <1>1, StoredUndetached DEF Undetached
  <1> HIDE DEF x, c
  <1>6. ASSUME NEW C, t.held[c] = b => b \in C PROVE Tidy(x, C)
    <2>1. ASSUME NEW d \in Ids, d \notin C, t.held[t.lease[d].ctl] = d, InUse(t, d)
          PROVE  x.held[t.lease[d].ctl] = d
      <3>1. t.lease[d].ctl \in Controls
        BY <2>1 DEF Sound, Grants, Granted
      <3> QED BY <1>3, <1>6, <2>1, <3>1
    <2>2. None \notin Ids
      BY DEF None, Ids
    <2>3. \A d \in Controls : x.held[d] # None => x.lease[x.held[d]].attached
      BY <1>1, <1>3 DEF Tidy
    <2>4. \A d \in St(x) : x.lease[d].ready /\ UsesCurrentContract(x.lease[d]) => d \in p.attached
      BY <1>1 DEF Tidy
    <2>5. {} \subseteq C
      OBVIOUS
    <2> QED BY <1>1, <2>1, <2>3, <2>4, <2>5, TidyStays
  <1>7. /\ Sound(y, Y) /\ Tidy(y, {}) /\ Undetached(y, b) /\ y.lease = t.lease
        /\ St(y) = St(x)
    <2>1. CASE t.held[c] = b /\ t.lease[b].attached
      <3>1. y = Submit(x, i, Of("cancel", b))
        BY <2>1 DEF Cancelled, x, c
      <3>2. Tidy(x, {b})
        BY <1>6
      <3>3. Tidy(y, {})
        <4>1. Typed(x) /\ Grants(x) /\ x.lease[b].inst = i
          BY <1>1 DEF Sound
        <4>2. Tidy(Submit(x, i, Of("cancel", b)), {})
          <5> HIDE DEF i
          <5> QED BY <1>2, <1>5, <3>2, <4>1, TidyCancel
        <4> QED BY <3>1, <4>2
      <3>4. Undetached(y, b)
        BY <1>1, <1>2, <1>4, <1>5, <3>1, SubmitUndetached DEF Sound
      <3>5. Sound(y, Y) /\ OnlyQueues(x, y)
        <4>1. Granted(x.lease[b])
          BY <1>1, StoredAreGranted
        <4> HIDE DEF y, i
        <4> QED BY <1>1, <1>2, <1>4, <3>1, <4>1, SubmitKeeps
      <3> QED BY <1>1, <3>3, <3>4, <3>5 DEF OnlyQueues, St
    <2>2. CASE t.held[c] # b
      <3>1. y = x
        BY <2>2 DEF Cancelled, x, c
      <3> QED BY <1>1, <1>5, <1>6, <2>2, <3>1
    <2>3. CASE t.held[c] = b /\ ~t.lease[b].attached
      <3>1. b # None
        BY <1>2 DEF None, Ids
      <3> QED BY <1>2, <2>3, <3>1 DEF Tidy
    <2> QED BY <2>1, <2>2, <2>3
  <1> HIDE DEF y
  <1>8. z = y \/ z = Submit(y, i, Of("detach", b))
    BY DEF Revoked, y
  <1>9. Tidy(Submit(y, i, Of("detach", b)), {})
    <2>1. Typed(y) /\ Grants(y) /\ y.lease[b].inst = i /\ b \notin St(y)
      BY <1>1, <1>7 DEF Sound
    <2> HIDE DEF i
    <2> QED BY <1>2, <1>7, <2>1, TidyDetach
  <1> QED BY <1>7, <1>8, <1>9

\* So does the end of a held interaction.
LEMMA CancelHeldTidy ==
    ASSUME World, NEW t, NEW Y, Sound(t, Y), NEW b \in St(t), NEW B, Tidy(t, B), B \subseteq {b},
           B # {} => t.held[t.lease[b].ctl] = b
    PROVE  Tidy(CancelHeld(t, b), {})
  <1> DEFINE c == t.lease[b].ctl
             i == t.lease[b].inst
             x == [t EXCEPT !.held[c] = None, !.suppressed = @ \union {c}]
             y == Submit(x, i, Of("cancel", b))
             e == Of("cancel", b)
  <1>1. b \in Ids /\ i \in Instances /\ c \in Controls /\ Granted(t.lease[b])
    BY StoredAreGranted DEF Granted
  <1>2. t \in SessionRecords /\ Typed(t)
    BY DEF Sound, Typed
  <1>3. /\ x.lease = t.lease /\ x.queue = t.queue /\ x.lossy = t.lossy /\ x.stored = t.stored
        /\ x.ops = t.ops /\ x.held = [t.held EXCEPT ![c] = None] /\ x \in SessionRecords
    BY ZenonT(60), <1>1, <1>2 DEF SessionRecords
  <1>4. \A d \in Controls : x.held[d] = IF d = c THEN None ELSE t.held[d]
    BY <1>2, <1>3 DEF SessionRecords
  <1>5. CancelHeld(t, b) = IF t.held[c] # b THEN t ELSE IF ~t.lease[b].attached THEN x ELSE y
    BY DEF CancelHeld
  <1>6. e \in Effects /\ e.kind = "cancel" /\ e.b = b
    BY <1>1, OfIsEffect DEF Of, Effect
  <1> HIDE DEF x, c, e
  <1>7. CASE t.held[c] # b
    <2>1. B = {}
      BY <1>7 DEF c
    <2> QED BY <1>5, <1>7, <2>1
  <1>8. CASE t.held[c] = b
    <2>1. t.lease[b].attached
      <3>1. b # None
        BY <1>1 DEF None, Ids
      <3> QED BY <1>1, <1>8, <3>1 DEF Tidy
    <2>2. St(x) = St(t)
      BY <1>3 DEF St
    <2>3. Tidy(x, {b})
      <3>1. ASSUME NEW d \in Ids, d \notin {b}, t.held[t.lease[d].ctl] = d, InUse(t, d)
            PROVE  x.held[t.lease[d].ctl] = d
        <4>1. t.lease[d].ctl \in Controls
          BY <3>1 DEF Sound, Grants, Granted
        <4> QED BY <1>4, <1>8, <3>1, <4>1
      <3>2. \A d \in Controls : x.held[d] # None => x.lease[x.held[d]].attached
        BY <1>3, <1>4 DEF Tidy
      <3>3. \A d \in St(x) : x.lease[d].ready /\ UsesCurrentContract(x.lease[d]) => d \in p.attached
        BY <1>3, <2>2 DEF Tidy
      <3> QED BY <1>2, <1>3, <2>2, <3>1, <3>2, <3>3, TidyStays
    <2>4. Typed(x) /\ Grants(x)
      <3>1. Queued(x) = Queued(t)
        BY <1>3 DEF Queued
      <3>2. Typed(x)
        BY <1>2, <1>3, SameQueuesSameLoads DEF Typed
      <3>3. \A d : InUse(x, d) => InUse(t, d)
        BY <2>2, <3>1 DEF InUse
      <3> QED BY <1>3, <3>2, <3>3 DEF Sound, Grants
    <2>5. Undetached(x, b)
      BY <1>3, StoredUndetached DEF Undetached
    <2>6. x.lease[b].inst = i
      BY <1>3
    <2> HIDE DEF i
    <2>7. Tidy(y, {})
      BY <1>1, <2>3, <2>4, <2>5, <2>6, TidyCancel
    <2> QED BY <1>5, <1>8, <2>1, <2>7
  <1> QED BY <1>7, <1>8

\* What else the session remembers does not matter to the presses.
LEMMA SameIsTidy ==
    ASSUME NEW t, NEW u, NEW B, u.queue = t.queue, u.lossy = t.lossy, u.held = t.held,
           u.lease = t.lease, u.stored = t.stored, Tidy(t, B)
    PROVE  Tidy(u, B)
  <1>1. St(u) = St(t)
    BY DEF St
  <1>2. \A b, k : Ends(u, b, k) <=> Ends(t, b, k)
    BY DEF Ends, Ended
  <1>3. ASSUME NEW i \in Instances, NEW k \in DOMAIN u.queue[i]
        PROVE  Belongs(u, i, k, u.queue[i][k], B)
    <2>1. Belongs(t, i, k, u.queue[i][k], B)
      BY <1>3 DEF Tidy, InOrder
    <2> QED BY <1>1, <1>2, <2>1 DEF Belongs
  <1> QED BY <1>1, <1>2, <1>3 DEF Tidy, InOrder

\* Nor do leases, as long as those in use keep their grants, and what is held is attached.
LEMMA GrantsAreTidy ==
    ASSUME World, NEW t, NEW u, Typed(t), u.queue = t.queue, u.held = t.held, Tidy(t, {}),
           \A d \in Ids : InUse(t, d) =>
              /\ u.lease[d].inst = t.lease[d].inst /\ u.lease[d].ctl = t.lease[d].ctl
              /\ d \in t.lossy => d \in u.lossy
              /\ d \in St(u) => d \in St(t),
           \A c \in Controls : u.held[c] # None => u.lease[u.held[c]].attached,
           \A d \in St(u) : u.lease[d].ready /\ UsesCurrentContract(u.lease[d]) => d \in p.attached
    PROVE  Tidy(u, {})
  <1>1. PICK B : B = {}
    OBVIOUS
  <1>2. Tidy(t, B)
    BY <1>1
  <1>3. B \subseteq B
    OBVIOUS
  <1>4. Tidy(u, B)
    BY <1>2, <1>3, TidyStays
  <1> QED BY <1>1, <1>4

\* Whatever is revoked.
LEMMA RevokeTidy ==
    ASSUME World, NEW t, NEW Y, Sound(t, Y), NEW b, NEW notify, Tidy(t, {})
    PROVE  Tidy(Revoke(t, b, notify), {})
  <1>1. CASE b \in St(t)
    BY <1>1, RevokeIsRevoked, RevokedTidy
  <1>2. CASE b \notin St(t)
    <2>1. t.stored \in Seq(Ids)
      BY DEF Sound, Typed, SessionRecords
    <2>2. Revoke(t, b, notify) = t
      BY <1>2, <2>1, ContainsIsMember DEF Revoke, St
    <2> QED BY <2>2
  <1> QED BY <1>1, <1>2

\* A preparation that is planned, or waits for capacity, takes the readiness away.
LEMMA DecidedTidy ==
    ASSUME World, NEW t, NEW Y, Sound(t, Y), NEW b \in St(t), NEW restart, Tidy(t, {}),
           NEW u, Decided(t, b, restart, u)
    PROVE  Tidy(u, {}) /\ Grants(u)
  <1>1. /\ u.stored = t.stored /\ u.held = t.held /\ u.queue = t.queue /\ u.lossy = t.lossy
        /\ u.lease = [t.lease EXCEPT ![b] = [t.lease[b] EXCEPT !.ready = FALSE]]
    BY DEF Decided
  <1>2. b \in Ids /\ t.lease \in [Ids -> Leases] /\ Typed(t) /\ St(t) \subseteq Ids
    BY StoredAreIds DEF Sound, Typed, SessionRecords
  <1>3. \A d \in Ids : /\ u.lease[d].ctl = t.lease[d].ctl /\ u.lease[d].page = t.lease[d].page
                       /\ u.lease[d].inst = t.lease[d].inst
                       /\ u.lease[d].contract = t.lease[d].contract
                       /\ u.lease[d].attached = t.lease[d].attached
                       /\ u.lease[d].ready => t.lease[d].ready
    <2>1. t.lease[b] \in Leases
      BY <1>2
    <2> QED BY <1>1, <1>2, <2>1 DEF Leases
  <1>4. St(u) = St(t) /\ Queued(u) = Queued(t)
    BY <1>1 DEF St, Queued
  <1>5. \A c \in Controls : u.held[c] # None => u.lease[u.held[c]].attached
    <2>1. \A c \in Controls : t.held[c] # None => t.held[c] \in Ids
      BY <1>2 DEF Sound, Routes
    <2> QED BY <1>1, <1>3, <2>1 DEF Tidy
  <1>6. \A d \in St(u) : u.lease[d].ready /\ UsesCurrentContract(u.lease[d]) => d \in p.attached
    BY <1>2, <1>3, <1>4 DEF Tidy, UsesCurrentContract
  <1>7. Tidy(u, {})
    <2> QED BY <1>1, <1>2, <1>3, <1>4, <1>5, <1>6, GrantsAreTidy
  <1>8. Grants(u)
    BY <1>3, <1>4 DEF Sound, Grants, InUse, Granted
  <1> QED BY <1>7, <1>8

\* An activation.
LEMMA ActivateTidy ==
    ASSUME World, NEW t, NEW Y, Sound(t, Y), NEW b \in St(t), NEW force \in BOOLEAN, Tidy(t, {})
    PROVE  Tidy(Activate(t, b, force), {})
  <1> DEFINE restart == force \/ <<b, TRUE>> \in t.deferred
             u == Activate(t, b, force)
             i == t.lease[b].inst
             v == Planned(t, b, restart)
             w == Refused(Arranged(t, b, restart), b, restart)
             e == Preparation(t, b, restart)
  <1>1. b \in Ids /\ i \in Instances /\ Typed(t) /\ t \in SessionRecords
    BY StoredAreGranted DEF Granted, Sound, Typed
  <1>2. restart \in BOOLEAN
    OBVIOUS
  <1>3. CASE u = Enable(t, b)
    <2>1. /\ u.stored = t.stored /\ u.held = t.held /\ u.queue = t.queue /\ u.lossy = t.lossy
          /\ u.lease = t.lease
      BY <1>1, <1>3 DEF Enable, SessionRecords
    <2> HIDE DEF u
    <2> QED BY <2>1, SameIsTidy DEF u
  <1>4. CASE u = t
    BY <1>4
  <1>5. u = Enable(t, b) \/ u = t \/ u = Submit(v, i, e) \/ u = w
    BY ActivateIs
  <1> HIDE DEF u, v, w, e, restart
  <1>6. /\ Typed(v) /\ Decided(t, b, restart, v) /\ Decided(t, b, restart, w)
        /\ e \in Effects /\ e.kind = "prepare" /\ e.b = b
    BY <1>2, DecisionResult DEF v, w, e
  <1>7. Tidy(w, {}) /\ Tidy(v, {}) /\ Grants(v)
    BY <1>6, DecidedTidy
  <1>8. CASE u = Submit(v, i, e)
    <2>1. v.queue = t.queue /\ v.lease = [t.lease EXCEPT ![b] = [t.lease[b] EXCEPT !.ready = FALSE]]
      BY <1>6 DEF Decided
    <2>2. Undetached(v, b)
      BY <2>1, StoredUndetached DEF Undetached
    <2>3. v.lease[b].inst = i
      <3>1. t.lease \in [Ids -> Leases]
        BY <1>1 DEF SessionRecords
      <3> QED BY <1>1, <2>1, <3>1 DEF Leases
    <2>4. PICK B : B = {}
      OBVIOUS
    <2>5. Tidy(v, B) /\ Settling(v, e, B, B)
      BY <1>7, <2>4 DEF Settling
    <2> HIDE DEF i
    <2>6. Tidy(Submit(v, i, e), B)
      BY <1>1, <1>6, <1>7, <2>2, <2>3, <2>5, TidySubmit
    <2> QED BY <1>8, <2>4, <2>6 DEF u
  <1> QED BY <1>3, <1>4, <1>5, <1>7, <1>8 DEF u

\* A binding that is resolved is a new one.
LEMMA ResolvedTidy ==
    ASSUME World, NEW t, Sound(t, {}), NEW g, NEW c, NEW b \in FreeIds(t), NEW u,
           u = Resolved(t, b, g, c), Tidy(t, {})
    PROVE  Tidy(u, {})
  <1>1. /\ t \in SessionRecords /\ Typed(t) /\ b \in Ids /\ ~InUse(t, b)
        /\ t.stored \in Seq(Ids) /\ St(t) \subseteq Ids
    <2>1. t \in SessionRecords /\ Typed(t) /\ t.stored \in Seq(Ids)
      BY DEF Sound, Typed, SessionRecords
    <2> QED BY <2>1, StoredAreIds, FreeIsUnused
  <1>2. /\ u.stored = Append(t.stored, b) /\ u.held = t.held /\ u.queue = t.queue
        /\ u.lossy = t.lossy \ {b} /\ u.lease = [t.lease EXCEPT ![b] = NewLease(g, c)]
    BY <1>1 DEF Resolved, SessionRecords
  <1>3. St(u) = St(t) \union {b}
    BY <1>1, <1>2, AppendAddsElement DEF St
  <1>4. \A d \in Ids \ {b} : u.lease[d] = t.lease[d]
    BY <1>1, <1>2 DEF SessionRecords
  <1>5. ~u.lease[b].ready
    BY <1>1, <1>2 DEF SessionRecords, NewLease, NoLease
  <1>6. b \notin St(t)
    BY <1>1 DEF InUse
  <1>7. \A d \in Controls : u.held[d] # None => u.lease[u.held[d]].attached
    <2>1. \A d \in Controls : t.held[d] # None => t.held[d] \in Ids \ {b}
      BY <1>1, <1>6 DEF Sound, Routes
    <2> QED BY <1>2, <1>4, <2>1 DEF Tidy
  <1>8. \A d \in St(u) : u.lease[d].ready /\ UsesCurrentContract(u.lease[d]) => d \in p.attached
    BY <1>1, <1>3, <1>4, <1>5 DEF Tidy
  <1>9. \A d \in Ids : InUse(t, d) => d # b
    BY <1>1
  <1>10. \A d \in Ids : InUse(t, d) =>
              /\ u.lease[d].inst = t.lease[d].inst /\ u.lease[d].ctl = t.lease[d].ctl
              /\ d \in t.lossy => d \in u.lossy
              /\ d \in St(u) => d \in St(t)
    BY <1>2, <1>3, <1>4, <1>9
  <1> QED BY <1>1, <1>2, <1>7, <1>8, <1>10, GrantsAreTidy

\* The destruction of an instance is of no binding.
LEMMA DestroyTidy ==
    ASSUME World, NEW t, NEW Y, Sound(t, Y), NEW i \in Instances, NEW notify, Tidy(t, {})
    PROVE  Tidy(Destroy(t, i, notify), {})
  <1> DEFINE r == t.rec[i]
             v == [t EXCEPT !.rec[i] = NoRecord]
             x == Effect("destroy", None, None, FALSE, r.meta, r.contract)
  <1>1. t \in SessionRecords /\ Typed(t)
    BY DEF Sound, Typed
  <1>2. Destroy(t, i, notify) = v \/ Destroy(t, i, notify) = Submit(v, i, x)
    BY DEF Destroy
  <1>3. PICK e : e = x
    OBVIOUS
  <1>4. e \in Effects /\ e.kind = "destroy" /\ e.b = None
    <2>1. r \in Records
      BY <1>1 DEF SessionRecords
    <2> HIDE DEF r
    <2> QED BY <1>3, <2>1 DEF Effect, Effects, Records, None
  <1>5. NoRecord \in Records
    BY DEF NoRecord, Records, Sessions, None
  <1>6. /\ v \in SessionRecords /\ v.stored = t.stored /\ v.held = t.held /\ v.ops = t.ops
        /\ v.queue = t.queue /\ v.lease = t.lease /\ v.lossy = t.lossy
    BY <1>1, <1>5 DEF SessionRecords
  <1> HIDE DEF v, x
  <1>7. Typed(v)
    BY <1>1, <1>6, SameQueuesSameLoads DEF Typed
  <1>8. Grants(v)
    BY <1>6 DEF Sound, Grants, InUse, St, Queued
  <1>9. PICK B : B = {}
    OBVIOUS
  <1>10. Tidy(v, B) /\ Settling(v, e, B, B)
    <2>1. Tidy(v, {})
      BY <1>6, SameIsTidy
    <2> QED BY <1>9, <2>1 DEF Settling
  <1>11. Tidy(Submit(v, i, e), B)
    BY <1>4, <1>7, <1>8, <1>10, TidySubmit
  <1> QED BY <1>2, <1>3, <1>9, <1>10, <1>11

----------------------------------------------------------------------------
(* What is attached has its instance *)

\* What is housed is so without some of the bindings.
LEMMA HousedFewer ==
    ASSUME NEW t, NEW A, NEW C, C \subseteq A, Housed(t, A)
    PROVE  Housed(t, C)
  BY SMTT(30) DEF Housed, InPlace, Emptied

\* A detach that is queued before one place is queued before those behind it.
LEMMA DetachedBefore ==
    ASSUME NEW t, t.queue \in [Instances -> Seq(Effects)], NEW b, t.lease[b].inst \in Instances,
           NEW k \in Nat, Detached(t, b, k)
    PROVE  Detached(t, b, Len(t.queue[t.lease[b].inst]) + 1)
  <1> DEFINE q == t.queue[t.lease[b].inst]
  <1>1. q \in Seq(Effects)
    OBVIOUS
  <1>2. PICK j \in DOMAIN q : q[j].kind = "detach" /\ q[j].b = b
    BY DEF Detached
  <1> HIDE DEF q
  <1>3. j < Len(q) + 1
    BY <1>1, <1>2
  <1> QED BY <1>2, <1>3 DEF Detached, q

\* A section that queues nothing, and keeps the bindings of C.
LEMMA HousedStays ==
    ASSUME World, NEW t, NEW u, Typed(t), u.queue = t.queue, NEW A, NEW C, C \subseteq A,
           A \subseteq p.attached, Housed(t, A),
           \A d \in Ids : InUse(t, d) =>
              u.lease[d].inst = t.lease[d].inst /\ u.lease[d].contract = t.lease[d].contract,
           \A d \in C : /\ d \in t.lossy => d \in u.lossy
                        /\ d \notin t.lossy /\ d \in St(t) /\ t.lease[d].attached =>
                              d \in St(u) /\ u.lease[d].attached,
           \A e \in Queued(t) : <<e.op, e.b>> \in u.ops => <<e.op, e.b>> \in t.ops,
           \A i \in Instances : Registers(t, u, i)
    PROVE  Housed(u, C)
  <1>1. t.queue \in [Instances -> Seq(Effects)] /\ t.ops \in SUBSET (Nat \X Ids)
    BY SMTT(30) DEF Typed, SessionRecords
  <1>2. ASSUME NEW d \in C
        PROVE  /\ d \in Ids /\ InUse(t, d) /\ u.lease[d].inst = t.lease[d].inst
               /\ \A k : Detached(t, d, k) => Detached(u, d, k)
    <2>1. d \in Ids /\ InUse(t, d)
      BY <1>2 DEF World, InUse
    <2> QED BY <2>1 DEF Detached
  <1>3. ASSUME NEW d \in C PROVE Sheltered(u, d)
    <2>1. Sheltered(t, d)
      BY <1>3 DEF Housed
    <2> QED BY <1>2, <1>3, <2>1 DEF Sheltered
  <1>4. ASSUME NEW e \in Queued(t), IsDue(u, e) PROVE IsDue(t, e)
    <2>1. <<e.op, e.b>> \in t.ops
      BY <1>4 DEF IsDue
    <2>2. e.b \in Ids
      BY <1>1, <2>1
    <2>3. InUse(t, e.b)
      BY DEF InUse
    <2> QED BY <1>4, <2>1, <2>2, <2>3 DEF IsDue, UsesCurrentContract
  <1>5. ASSUME NEW i \in Instances, NEW k \in DOMAIN t.queue[i]
        PROVE  /\ t.queue[i][k] \in Queued(t) /\ InPlace(t, A, i, k, t.queue[i][k])
               /\ t.queue[i][k].kind = "prepare" => t.queue[i][k].meta # None
    BY <1>1, <1>5, QueuedInUse DEF Housed, InPlace
  <1>6. ASSUME NEW i \in Instances, NEW k \in DOMAIN t.queue[i], t.queue[i][k].kind = "prepare",
               t.queue[i][k].meta = u.rec[i].meta
        PROVE  /\ t.queue[i][k].meta = t.rec[i].meta /\ u.rec[i].contract = t.rec[i].contract
    BY <1>5, <1>6 DEF Registers
  <1>7. ASSUME NEW i \in Instances PROVE u.rec[i].started => t.rec[i].started
    BY DEF Registers
  <1>8. ASSUME NEW i \in Instances, NEW k, Emptied(t, A, i, k) PROVE Emptied(u, C, i, k)
    <2>1. ~u.rec[i].started
      BY <1>7, <1>8 DEF Emptied
    <2>2. \A d \in C : u.lease[d].inst = i => d \in u.lossy \/ Detached(u, d, k)
      BY <1>2, <1>8 DEF Emptied
    <2>3. ASSUME NEW j \in DOMAIN t.queue[i], j < k, t.queue[i][j].kind = "prepare"
          PROVE  /\ <<t.queue[i][j].op, t.queue[i][j].b>> \notin u.ops
                 /\ t.queue[i][j].meta # u.rec[i].meta
      BY <1>5, <1>6, <1>8, <2>3 DEF Emptied
    <2> QED BY <2>1, <2>2, <2>3 DEF Emptied
  <1>9. ASSUME NEW i \in Instances, NEW k \in DOMAIN u.queue[i]
        PROVE  InPlace(u, C, i, k, u.queue[i][k])
    <2> DEFINE e == t.queue[i][k]
    <2>1. u.queue[i][k] = e /\ k \in DOMAIN t.queue[i]
      BY <1>9
    <2>2. InPlace(t, A, i, k, e) /\ e \in Queued(t)
      BY <1>5, <2>1
    <2>3. e.kind = "prepare" /\ e.meta = u.rec[i].meta =>
              e.meta = t.rec[i].meta /\ u.rec[i].contract = t.rec[i].contract
      BY <1>6, <2>1
    <2> HIDE DEF e
    <2>4. InPlace(u, C, i, k, e)
      BY <1>4, <1>8, <2>2, <2>3 DEF InPlace
    <2> QED BY <2>1, <2>4
  <1>10. ASSUME NEW i \in Instances PROVE Registered(u, i)
    <2>1. Registered(t, i) /\ Registers(t, u, i)
      BY DEF Housed
    <2>2. (u.rec[i].started /\ agreement # None /\ u.rec[i].contract = agreement)
          => i \in p.created
      BY <2>1 DEF Registers, Registered
    <2>3. CASE at[i] = "accept"
      <3> DEFINE e == Head(t.queue[i])
      <3>1. t.queue[i] # <<>> /\ e.kind = "prepare" /\ Head(u.queue[i]) = e
        BY <2>1, <2>3 DEF Registered
      <3>2. 1 \in DOMAIN t.queue[i] /\ e = t.queue[i][1]
        <4>1. t.queue[i] \in Seq(Effects)
          BY <1>1
        <4> QED BY <3>1, <4>1
      <3>3. e \in Queued(t) /\ (e.meta = u.rec[i].meta =>
                e.meta = t.rec[i].meta /\ u.rec[i].contract = t.rec[i].contract)
        BY <1>5, <1>6, <3>1, <3>2
      <3>4. IsDue(u, e) => IsDue(t, e)
        BY <1>4, <3>3
      <3>5. (\/ IsDue(t, e)
             \/ e.meta = t.rec[i].meta /\ agreement # None /\ t.rec[i].contract = agreement)
            => i \in p.created
        BY <2>1, <2>3 DEF Registered
      <3> HIDE DEF e
      <3>6. (\/ IsDue(u, e)
             \/ e.meta = u.rec[i].meta /\ agreement # None /\ u.rec[i].contract = agreement)
            => i \in p.created
        BY <3>3, <3>4, <3>5
      <3>7. u.queue[i] # <<>> /\ Head(u.queue[i]).kind = "prepare"
        BY <3>1
      <3>8. u.rec[i].contract \in 0..agreed.last
        BY <2>1 DEF Registers
      <3> QED BY <2>2, <3>1, <3>6, <3>7, <3>8 DEF Registered
    <2>4. CASE at[i] # "accept"
      BY <2>1, <2>2, <2>4 DEF Registered, Registers
    <2> QED BY <2>3, <2>4
  <1> QED BY <1>3, <1>9, <1>10 DEF Housed

\* An effect is submitted: a preparation of the agreement of now, or a destruction of what
\* is empty.
LEMMA HousedSubmit ==
    ASSUME World, NEW t, Typed(t), Grants(t), NEW i \in Instances, NEW e \in Effects,
           NEW A, A \subseteq p.attached, Housed(t, A),
           e.kind = "prepare" =>
              /\ e.meta # None
              /\ (IsDue(t, e) /\ e.meta = t.rec[i].meta) => t.rec[i].contract = agreement,
           e.kind = "destroy" => Emptied(t, A, i, Len(t.queue[i]) + 1)
    PROVE  Housed(Submit(t, i, e), A)
  <1> DEFINE u == Submit(t, i, e)
             n == Len(t.queue[i])
  <1>1. /\ OnlyQueues(t, u) /\ t.lossy \subseteq u.lossy
        /\ u.queue = [t.queue EXCEPT ![i] = Append(@, e)] \/ u.queue = t.queue
    BY SubmitCases
  <1>2. t.queue \in [Instances -> Seq(Effects)]
    BY DEF Typed, SessionRecords
  <1> HIDE DEF u
  <1>3. /\ u.stored = t.stored /\ u.lease = t.lease /\ u.ops = t.ops /\ u.rec = t.rec
        /\ St(u) = St(t)
    BY <1>1 DEF OnlyQueues, St
  <1>4. CASE u.queue = t.queue
    <2>1. \A j \in Instances : Registers(t, u, j)
      BY <1>3 DEF Housed, Registered, Registers
    <2>2. A \subseteq A
      OBVIOUS
    <2>3. Housed(u, A)
      BY <1>1, <1>3, <1>4, <2>1, <2>2, HousedStays
    <2> QED BY <2>3 DEF u
  <1>5. CASE u.queue = [t.queue EXCEPT ![i] = Append(@, e)]
    <2>1. /\ n \in Nat /\ DOMAIN t.queue[i] = 1..n /\ DOMAIN u.queue[i] = 1..(n + 1)
          /\ u.queue[i][n + 1] = e
          /\ \A j \in Instances : j # i => u.queue[j] = t.queue[j]
          /\ \A j \in Instances : \A k \in DOMAIN t.queue[j] :
                k \in Nat /\ k \in DOMAIN u.queue[j] /\ u.queue[j][k] = t.queue[j][k]
      BY <1>2, <1>5, AppendedAt
    <2>2. Emptied(t, A, i, n + 1) \/ e.kind # "destroy"
      OBVIOUS
    <2> HIDE DEF n
    <2>3. ASSUME NEW b \in A PROVE b \in Ids /\ t.lease[b].inst \in Instances
      BY <2>3 DEF World, Grants, Granted, InUse
    <2>4. ASSUME NEW b \in A, NEW k, Detached(t, b, k) PROVE Detached(u, b, k)
      <3>1. PICK j \in DOMAIN t.queue[t.lease[b].inst] :
               /\ j < k /\ t.queue[t.lease[b].inst][j].kind = "detach"
               /\ t.queue[t.lease[b].inst][j].b = b
        BY <2>4 DEF Detached
      <3>2. j \in DOMAIN u.queue[t.lease[b].inst]
            /\ u.queue[t.lease[b].inst][j] = t.queue[t.lease[b].inst][j]
        BY <2>1, <2>3
      <3> QED BY ZenonT(60), <1>3, <3>1, <3>2 DEF Detached
    <2>5. ASSUME NEW b \in A PROVE Sheltered(u, b)
      <3>1. Sheltered(t, b)
        BY DEF Housed
      <3> QED BY <1>1, <1>3, <2>4, <3>1 DEF Sheltered
    <2>6. ASSUME NEW j \in Instances, NEW k \in Nat, k \in DOMAIN t.queue[j] \/ (j = i /\ k = n + 1),
                 Emptied(t, A, j, k)
          PROVE  Emptied(u, A, j, k)
      <3>1. ~u.rec[j].started
        BY <1>3, <2>6 DEF Emptied
      <3>2. \A b \in A : u.lease[b].inst = j => b \in u.lossy \/ Detached(u, b, k)
        BY <1>1, <1>3, <2>4, <2>6 DEF Emptied
      <3>3. ASSUME NEW m \in DOMAIN u.queue[j], m < k, u.queue[j][m].kind = "prepare"
            PROVE  /\ <<u.queue[j][m].op, u.queue[j][m].b>> \notin u.ops
                   /\ u.queue[j][m].meta # u.rec[j].meta
        <4>1. m \in DOMAIN t.queue[j]
          <5>1. CASE j = i
            BY <2>1, <2>6, <3>3, <5>1
          <5>2. CASE j # i
            BY <2>1, <5>2
          <5> QED BY <5>1, <5>2
        <4>2. u.queue[j][m] = t.queue[j][m]
          BY <2>1, <4>1
        <4> QED BY <1>3, <2>6, <3>3, <4>1, <4>2 DEF Emptied
      <3> QED BY <3>1, <3>2, <3>3 DEF Emptied
    <2>7. \A x : IsDue(u, x) <=> IsDue(t, x)
      BY <1>3 DEF IsDue
    <2>8. ASSUME NEW j \in Instances, NEW k \in DOMAIN u.queue[j]
          PROVE  InPlace(u, A, j, k, u.queue[j][k])
      <3>1. CASE k \in DOMAIN t.queue[j]
        <4>1. InPlace(t, A, j, k, t.queue[j][k])
          BY <3>1 DEF Housed
        <4>2. u.queue[j][k] = t.queue[j][k] /\ k \in Nat
          BY <2>1, <3>1
        <4>3. Emptied(t, A, j, k) => Emptied(u, A, j, k)
          BY <2>6, <3>1, <4>2
        <4> QED BY <1>3, <2>7, <4>1, <4>2, <4>3 DEF InPlace
      <3>2. CASE k \notin DOMAIN t.queue[j]
        <4>1. j = i
          BY <2>1, <3>2
        <4>2. k = n + 1 /\ k \in Nat
          BY <2>1, <3>2, <4>1
        <4>3. u.queue[j][k] = e
          BY <2>1, <4>1, <4>2
        <4>4. e.kind = "destroy" => Emptied(u, A, j, k)
          BY <2>2, <2>6, <4>1, <4>2
        <4>5. e.kind = "prepare" =>
                /\ e.meta # None
                /\ (IsDue(u, e) /\ e.meta = u.rec[j].meta) => u.rec[j].contract = agreement
          BY <1>3, <2>7, <4>1
        <4> QED BY <4>3, <4>4, <4>5 DEF InPlace
      <3> QED BY <3>1, <3>2
    <2>9. ASSUME NEW j \in Instances PROVE Registered(u, j)
      <3>1. Registered(t, j)
        BY DEF Housed
      <3>2. t.queue[j] # <<>> => u.queue[j] # <<>> /\ Head(u.queue[j]) = Head(t.queue[j])
        <4>1. CASE j = i
          <5> DEFINE q == t.queue[j]
          <5>1. q \in Seq(Effects) /\ u.queue[j] = Append(q, e)
            BY <1>2, <1>5, <4>1
          <5> HIDE DEF q
          <5>2. q # <<>> => Append(q, e) # <<>> /\ Head(Append(q, e)) = Head(q)
            BY <5>1
          <5> QED BY <5>1, <5>2 DEF q
        <4>2. CASE j # i
          BY <2>1, <4>2
        <4> QED BY <4>1, <4>2
      <3> QED BY <1>3, <2>7, <3>1, <3>2 DEF Registered
    <2>10. Housed(u, A)
      BY <2>5, <2>8, <2>9 DEF Housed
    <2> QED BY <2>10 DEF u
  <1> QED BY <1>1, <1>4, <1>5

\* Only a destruction of an instance destroys it.
LEMMA SubmitUndestroyed ==
    ASSUME NEW t, Typed(t), NEW i \in Instances, NEW e \in Effects, Undestroyed(t, i),
           e.kind # "destroy"
    PROVE  Undestroyed(Submit(t, i, e), i)
  <1> DEFINE u == Submit(t, i, e)
  <1>1. u.queue = [t.queue EXCEPT ![i] = Append(@, e)] \/ u.queue = t.queue
    BY SubmitCases
  <1>2. t.queue \in [Instances -> Seq(Effects)]
    BY DEF Typed, SessionRecords
  <1> HIDE DEF u
  <1>3. CASE u.queue = t.queue
    BY <1>3 DEF Undestroyed, u
  <1>4. CASE u.queue = [t.queue EXCEPT ![i] = Append(@, e)]
    <2> DEFINE n == Len(t.queue[i])
    <2>1. /\ n \in Nat /\ DOMAIN t.queue[i] = 1..n /\ DOMAIN u.queue[i] = 1..(n + 1)
          /\ u.queue[i][n + 1] = e
          /\ \A k \in DOMAIN t.queue[i] : u.queue[i][k] = t.queue[i][k]
      BY <1>2, <1>4, AppendedAt
    <2> HIDE DEF n
    <2>2. ASSUME NEW k \in DOMAIN u.queue[i] PROVE u.queue[i][k].kind # "destroy"
      <3>1. CASE k \in DOMAIN t.queue[i]
        BY <2>1, <3>1 DEF Undestroyed
      <3>2. CASE k \notin DOMAIN t.queue[i]
        <4>1. k = n + 1
          BY <2>1, <2>2, <3>2
        <4> QED BY <2>1, <4>1
      <3> QED BY <3>1, <3>2
    <2> QED BY <2>2 DEF Undestroyed, u
  <1> QED BY <1>1, <1>3, <1>4

\* With its detach queued or lost a binding of an instance that is not being destroyed is
\* sheltered as well.
LEMMA DetachShelters ==
    ASSUME World, NEW t, Typed(t), Grants(t), NEW b \in Ids, NEW i \in Instances,
           t.lease[b].inst = i, i \in p.created, Undestroyed(t, i),
           NEW A, NEW C, C \subseteq p.attached, Housed(t, C), A \subseteq C \union {b}
    PROVE  Housed(Submit(t, i, Of("detach", b)), A)
  <1>1. PICK e : e = Of("detach", b)
    OBVIOUS
  <1>2. e \in Effects /\ e.kind = "detach" /\ e.b = b
    BY <1>1, OfIsEffect DEF Of, Effect
  <1>3. PICK u : u = Submit(t, i, e)
    OBVIOUS
  <1>4. Housed(u, C)
    BY <1>2, <1>3, HousedSubmit
  <1>5. /\ OnlyQueues(t, u)
        /\ \/ u.queue = [t.queue EXCEPT ![i] = Append(@, e)]
           \/ u.lossy = t.lossy \union {b}
    BY <1>2, <1>3, SubmitCases DEF IsCleanup, Cleanup
  <1>6. Undestroyed(u, i)
    BY <1>2, <1>3, SubmitUndestroyed
  <1>7. u.lease[b].inst = i
    BY <1>5 DEF OnlyQueues
  <1>8. Sheltered(u, b)
    <2>1. CASE u.lossy = t.lossy \union {b}
      BY <2>1 DEF Sheltered
    <2>2. CASE u.queue = [t.queue EXCEPT ![i] = Append(@, e)]
      <3>1. t.queue \in [Instances -> Seq(Effects)]
        BY DEF Typed, SessionRecords
      <3> DEFINE n == Len(t.queue[i])
      <3>2. n \in Nat /\ DOMAIN u.queue[i] = 1..(n + 1) /\ u.queue[i][n + 1] = e
        BY <1>2, <2>2, <3>1, AppendedAt
      <3> HIDE DEF n
      <3>3. n + 1 \in DOMAIN u.queue[i] /\ n + 1 < n + 2 /\ n + 2 \in Nat
        BY <3>2
      <3>4. Detached(u, b, n + 2)
        BY <1>2, <1>7, <3>2, <3>3 DEF Detached
      <3> QED BY <1>7, <3>3, <3>4 DEF Sheltered
    <2> QED BY <1>5, <2>1, <2>2
  <1>9. \A d \in A : Sheltered(u, d)
    BY <1>4, <1>8 DEF Housed
  <1>10. ASSUME NEW j \in Instances, NEW k \in DOMAIN u.queue[j]
         PROVE  InPlace(u, A, j, k, u.queue[j][k])
    <2>1. InPlace(u, C, j, k, u.queue[j][k])
      BY <1>4 DEF Housed
    <2>2. u.queue[j][k].kind = "destroy" => j # i
      BY <1>6 DEF Undestroyed
    <2>3. j # i /\ Emptied(u, C, j, k) => Emptied(u, A, j, k)
      BY <1>7 DEF Emptied
    <2> QED BY <2>1, <2>2, <2>3 DEF InPlace
  <1>11. Housed(u, A)
    BY <1>4, <1>9, <1>10 DEF Housed
  <1> QED BY <1>1, <1>3, <1>11

\* A revocation that tells the provider, or of a binding the provider does not have.
LEMMA RevokedHoused ==
    ASSUME World, NEW t, NEW Y, Sound(t, Y), NEW b \in St(t), NEW notify, Tidy(t, {}),
           NEW A, A \subseteq p.attached, Housed(t, A), notify \/ b \notin A
    PROVE  Housed(Revoked(t, b, notify), A)
  <1> DEFINE i == t.lease[b].inst
             x == Removed(t, b)
             y == Cancelled(t, b)
             z == Revoked(t, b, notify)
  <1>1. /\ Sound(x, Y) /\ St(x) = St(t) \ {b} /\ Typed(t)
        /\ x.lease = t.lease /\ x.queue = t.queue /\ x.lossy = t.lossy /\ x.rec = t.rec
    BY RemovedResult DEF Sound
  <1>2. b \in Ids /\ i \in Instances
    BY StoredAreGranted DEF Granted
  <1>3. x.ops \subseteq t.ops
    BY DEF Sound, Typed, SessionRecords, Removed
  <1>4. Of("cancel", b) \in Effects /\ Of("detach", b) \in Effects
        /\ Of("cancel", b).kind = "cancel" /\ Of("detach", b).kind = "detach"
    BY <1>2, OfIsEffect DEF Of, Effect
  <1>5. y = x \/ y = Submit(x, i, Of("cancel", b))
    BY DEF Cancelled
  <1>6. z = IF t.lease[b].attached /\ notify THEN Submit(y, i, Of("detach", b)) ELSE y
    BY DEF Revoked
  <1>7. Granted(x.lease[b])
    BY <1>1, StoredAreGranted
  <1> HIDE DEF i, x, y, z
  <1>8. Typed(x) /\ Grants(x) /\ Typed(y) /\ Grants(y) /\ y.lease = t.lease /\ y.lossy \in SUBSET (Ids \union {None})
    <2> DEFINE w == Submit(x, i, Of("cancel", b))
    <2>1. Sound(w, Y) /\ OnlyQueues(x, w)
      BY <1>1, <1>2, <1>4, <1>7, SubmitKeeps, OfIsEffect
    <2> HIDE DEF w
    <2> QED BY <1>1, <1>5, <2>1 DEF w, Sound, OnlyQueues, Typed, SessionRecords
  <1>9. ASSUME NEW C, C \subseteq A, b \notin C \/ b \in t.lossy PROVE Housed(x, C) /\ Housed(y, C)
    <2>1. \A j \in Instances : Registers(t, x, j)
      BY <1>1 DEF Housed, Registered, Registers
    <2>2. \A d \in C : /\ d \in t.lossy => d \in x.lossy
                       /\ d \notin t.lossy /\ d \in St(t) /\ t.lease[d].attached =>
                             d \in St(x) /\ x.lease[d].attached
      BY <1>1, <1>9
    <2>3. Housed(x, C)
      BY <1>1, <1>3, <1>9, <2>1, <2>2, HousedStays
    <2>4. C \subseteq p.attached
      BY <1>9
    <2>5. Housed(Submit(x, i, Of("cancel", b)), C)
      BY <1>2, <1>4, <1>8, <2>3, <2>4, HousedSubmit
    <2> QED BY <1>5, <2>3, <2>5
  <1>10. CASE b \notin A \/ b \in t.lossy
    <2>1. Housed(y, A)
      BY <1>9, <1>10
    <2>2. Housed(Submit(y, i, Of("detach", b)), A)
      BY <1>2, <1>4, <1>8, <2>1, HousedSubmit
    <2>3. Housed(z, A)
      BY <1>6, <2>1, <2>2
    <2> QED BY <2>3 DEF z
  <1>11. CASE b \in A /\ b \notin t.lossy
    <2>1. Undetached(t, b)
      BY StoredUndetached
    <2>2. \A k : ~Detached(t, b, k)
      BY <1>2, <2>1 DEF Detached, Undetached, i
    <2>3. Sheltered(t, b)
      BY <1>11 DEF Housed
    <2>4. i \in p.created /\ t.lease[b].attached
      BY SMTT(30), <1>11, <2>2, <2>3 DEF Sheltered, i
    <2>5. Undestroyed(t, i)
      <3> SUFFICES ASSUME NEW k \in DOMAIN t.queue[i], t.queue[i][k].kind = "destroy" PROVE FALSE
        BY DEF Undestroyed
      <3>1. Emptied(t, A, i, k)
        BY <1>2 DEF Housed, InPlace
      <3> QED BY <1>11, <2>2, <3>1 DEF Emptied, i
    <2>6. Undestroyed(x, i)
      BY <1>1, <2>5 DEF Undestroyed
    <2>7. Undestroyed(Submit(x, i, Of("cancel", b)), i)
      BY <1>2, <1>4, <1>8, <2>6, SubmitUndestroyed
    <2>8. Undestroyed(y, i)
      BY <1>5, <2>6, <2>7
    <2>9. PICK C : C = A \ {b}
      OBVIOUS
    <2>10. Housed(y, C) /\ C \subseteq p.attached /\ A \subseteq C \union {b}
      BY <1>9, <2>9
    <2>11. y.lease[b].inst = i
      BY <1>8 DEF i
    <2>12. Housed(Submit(y, i, Of("detach", b)), A)
      BY <1>2, <1>8, <2>4, <2>8, <2>10, <2>11, DetachShelters
    <2>13. Housed(z, A)
      BY <1>6, <1>11, <2>4, <2>12
    <2> QED BY <2>13 DEF z
  <1> QED BY <1>10, <1>11

\* Whatever is revoked.
LEMMA RevokeHoused ==
    ASSUME World, NEW t, NEW Y, Sound(t, Y), NEW b, NEW notify, Tidy(t, {}),
           NEW A, A \subseteq p.attached, Housed(t, A), notify \/ b \notin A
    PROVE  Housed(Revoke(t, b, notify), A)
  <1>1. CASE b \in St(t)
    BY <1>1, RevokeIsRevoked, RevokedHoused
  <1>2. CASE b \notin St(t)
    <2>1. t.stored \in Seq(Ids)
      BY DEF Sound, Typed, SessionRecords
    <2>2. Revoke(t, b, notify) = t
      BY <1>2, <2>1, ContainsIsMember DEF Revoke, St
    <2> QED BY <2>2
  <1> QED BY <1>1, <1>2

\* The agreement of now is nothing yet, or the last one.
LEMMA ContractsAreReached ==
    ASSUME World, NEW session
    PROVE  /\ agreed.last \in Nat \ {0} /\ agreement \in 0..agreed.last
           /\ CurrentContract(session) \in 0..agreed.last
  <1>1. agreed.last \in Nat \ {0}
    <2>1. SessionOf \in Seq(Nat \ {None})
      BY LifecycleAssumption
    <2>2. Agreements = 1..Len(SessionOf)
      BY <2>1 DEF Agreements
    <2> QED BY <2>1, <2>2 DEF World
  <1> QED BY <1>1 DEF agreement, CurrentContract, None

\* A preparation that is planned, or waits for capacity, is under a record that no other
\* queued preparation starts.
LEMMA DecidedHoused ==
    ASSUME World, NEW t, NEW Y, Sound(t, Y), NEW b \in St(t), NEW restart \in BOOLEAN,
           NEW u, Decided(t, b, restart, u), NEW A, A \subseteq p.attached, Housed(t, A)
    PROVE  Housed(u, A)
  <1> DEFINE i == t.lease[b].inst
  <1>1. /\ t \in SessionRecords /\ Typed(t) /\ IsFiniteSet(t.ops) /\ b \in Ids /\ i \in Instances
        /\ t.queue \in [Instances -> Seq(Effects)]
    BY StoredAreGranted DEF Granted, Sound, Typed, SessionRecords
  <1>2. \A e \in Queued(t) : e.op # FreshOp(t) /\ e.meta # FreshMeta(t)
    BY <1>1, FreshNumbers
  <1>3. /\ u.queue = t.queue /\ u.lossy = t.lossy /\ St(u) = St(t)
        /\ u.rec = [t.rec EXCEPT ![i] = u.rec[i]]
        /\ Arrangement(t, i, SessionOfLease(t.lease[b]), restart, u.rec[i])
        /\ u.lease = [t.lease EXCEPT ![b] = [t.lease[b] EXCEPT !.ready = FALSE]]
    BY DEF Decided, St
  <1>4. \A d \in Ids : /\ u.lease[d].inst = t.lease[d].inst
                       /\ u.lease[d].contract = t.lease[d].contract
                       /\ u.lease[d].attached = t.lease[d].attached
    <2>1. t.lease[b] \in Leases /\ t.lease \in [Ids -> Leases]
      BY <1>1 DEF SessionRecords
    <2> QED BY <1>1, <1>3, <2>1 DEF Leases
  <1>5. \A e \in Queued(t) : <<e.op, e.b>> \in u.ops => <<e.op, e.b>> \in t.ops
    BY <1>2 DEF Decided
  <1> HIDE DEF i
  <1>6. ASSUME NEW j \in Instances PROVE Registers(t, u, j)
    <2>1. CASE j # i
      <3>1. u.rec[j] = t.rec[j]
        BY <1>1, <1>3, <2>1 DEF SessionRecords
      <3> QED BY <3>1 DEF Housed, Registered, Registers
    <2>2. CASE j = i
      <3> DEFINE r == u.rec[i]
      <3>1. /\ r.contract = CurrentContract(SessionOfLease(t.lease[b]))
            /\ \/ r.meta = FreshMeta(t) /\ ~r.started
               \/ /\ r.meta = t.rec[i].meta /\ r.contract = t.rec[i].contract
                  /\ r.started => t.rec[i].started
        BY <1>3 DEF Arrangement
      <3>2. r.contract \in 0..agreed.last
        BY <3>1, ContractsAreReached
      <3>3. \A k \in DOMAIN t.queue[i] : t.queue[i][k].meta # FreshMeta(t)
        BY <1>1, <1>2, QueuedInUse
      <3> HIDE DEF r
      <3>4. \/ r.meta = FreshMeta(t) /\ ~r.started
            \/ /\ r.meta = t.rec[i].meta /\ r.contract = t.rec[i].contract
               /\ r.started => t.rec[i].started
        BY <3>1
      <3> QED BY <2>2, <3>2, <3>3, <3>4 DEF Registers, r
    <2> QED BY <2>1, <2>2
  <1>7. \A d \in A : /\ d \in t.lossy => d \in u.lossy
                     /\ d \notin t.lossy /\ d \in St(t) /\ t.lease[d].attached =>
                           d \in St(u) /\ u.lease[d].attached
    BY <1>3, <1>4 DEF World
  <1>8. A \subseteq A
    OBVIOUS
  <1> QED BY <1>1, <1>3, <1>4, <1>5, <1>6, <1>7, <1>8, HousedStays

\* An activation.
LEMMA ActivateHoused ==
    ASSUME World, NEW t, NEW Y, Sound(t, Y), NEW b \in St(t), NEW force \in BOOLEAN,
           Tidy(t, {}), NEW A, A \subseteq p.attached, Housed(t, A)
    PROVE  Housed(Activate(t, b, force), A)
  <1> DEFINE restart == force \/ <<b, TRUE>> \in t.deferred
             u == Activate(t, b, force)
             i == t.lease[b].inst
             v == Planned(t, b, restart)
             w == Refused(Arranged(t, b, restart), b, restart)
             e == Preparation(t, b, restart)
  <1>1. b \in Ids /\ i \in Instances /\ Typed(t) /\ t \in SessionRecords /\ Granted(t.lease[b])
    BY StoredAreGranted DEF Granted, Sound, Typed
  <1>2. restart \in BOOLEAN
    OBVIOUS
  <1>3. CASE u = Enable(t, b)
    <2>1. /\ u.stored = t.stored /\ u.queue = t.queue /\ u.lossy = t.lossy
          /\ u.lease = t.lease /\ u.rec = t.rec /\ u.ops = t.ops
      BY <1>1, <1>3 DEF Enable, SessionRecords
    <2> HIDE DEF u
    <2>2. St(u) = St(t) /\ A \subseteq A
      BY <2>1 DEF St
    <2>3. \A j \in Instances : Registers(t, u, j)
      BY <2>1 DEF Housed, Registered, Registers
    <2>4. Housed(u, A)
      BY <1>1, <2>1, <2>2, <2>3, HousedStays
    <2> QED BY <2>4 DEF u
  <1>4. CASE u = t
    BY <1>4
  <1>5. u = Enable(t, b) \/ u = t \/ u = Submit(v, i, e) \/ u = w
    BY ActivateIs
  <1> HIDE DEF u, v, w, e, restart
  <1>6. /\ Typed(v) /\ Decided(t, b, restart, v) /\ Decided(t, b, restart, w)
        /\ e \in Effects /\ e.kind = "prepare" /\ e.b = b /\ e.meta = v.rec[i].meta
    BY <1>2, DecisionResult DEF v, w, e
  <1>7. Housed(w, A) /\ Housed(v, A) /\ Grants(v)
    BY <1>2, <1>6, DecidedHoused, DecidedTidy
  <1>8. CASE u = Submit(v, i, e)
    <2>1. /\ v.lease = [t.lease EXCEPT ![b] = [t.lease[b] EXCEPT !.ready = FALSE]]
          /\ Arrangement(t, i, SessionOfLease(t.lease[b]), restart, v.rec[i])
      BY <1>6 DEF Decided
    <2>2. v.lease[b].contract = t.lease[b].contract
      <3>1. t.lease \in [Ids -> Leases]
        BY SMTT(30), <1>1 DEF SessionRecords
      <3> QED BY <1>1, <2>1, <3>1 DEF Leases
    <2>3. e.meta # None /\ v.rec[i].contract = CurrentContract(SessionOfLease(t.lease[b]))
      BY <1>6, <2>1 DEF Arrangement
    <2>4. IsDue(v, e) => v.rec[i].contract = agreement
      <3> SUFFICES ASSUME IsDue(v, e) PROVE v.rec[i].contract = agreement
        OBVIOUS
      <3>1. t.lease[b].contract = agreement
        BY <1>6, <2>2 DEF IsDue, UsesCurrentContract
      <3>2. agreement # None
        BY <1>1, <3>1, ContractsAreReached DEF Granted, None
      <3> QED BY <2>3, <3>1, <3>2 DEF CurrentContract, SessionOfLease
    <2> HIDE DEF i
    <2>5. e.kind # "destroy"
      BY <1>6
    <2>6. Housed(Submit(v, i, e), A)
      BY <1>1, <1>6, <1>7, <2>3, <2>4, <2>5, HousedSubmit
    <2> QED BY SMTT(30), <1>8, <2>6 DEF u
  <1> QED BY <1>3, <1>4, <1>5, <1>7, <1>8 DEF u

\* A binding that is resolved is a new one.
LEMMA ResolvedHoused ==
    ASSUME World, NEW t, Sound(t, {}), NEW g, NEW c, NEW b \in FreeIds(t), NEW u,
           u = Resolved(t, b, g, c), NEW A, A \subseteq p.attached, Housed(t, A)
    PROVE  Housed(u, A)
  <1>1. /\ t \in SessionRecords /\ Typed(t) /\ b \in Ids /\ ~InUse(t, b)
        /\ t.stored \in Seq(Ids)
    <2>1. t \in SessionRecords /\ Typed(t) /\ t.stored \in Seq(Ids)
      BY DEF Sound, Typed, SessionRecords
    <2> QED BY <2>1, FreeIsUnused
  <1>2. /\ u.stored = Append(t.stored, b) /\ u.queue = t.queue /\ u.rec = t.rec
        /\ u.ops = t.ops /\ u.lossy = t.lossy \ {b}
        /\ u.lease = [t.lease EXCEPT ![b] = NewLease(g, c)]
    BY <1>1 DEF Resolved, SessionRecords
  <1>3. St(u) = St(t) \union {b}
    BY <1>1, <1>2, AppendAddsElement DEF St
  <1>4. \A d \in Ids \ {b} : u.lease[d] = t.lease[d]
    BY <1>1, <1>2 DEF SessionRecords
  <1>5. \A d \in Ids : InUse(t, d) => d # b
    BY <1>1
  <1>6. \A d \in A : d \in Ids \ {b}
    BY <1>5 DEF World, InUse
  <1>7. \A j \in Instances : Registers(t, u, j)
    BY <1>2 DEF Housed, Registered, Registers
  <1>8. \A d \in Ids : InUse(t, d) => u.lease[d].inst = t.lease[d].inst
                                     /\ u.lease[d].contract = t.lease[d].contract
    BY <1>4, <1>5
  <1>9. ASSUME NEW d \in A
        PROVE  /\ d \in t.lossy => d \in u.lossy
               /\ d \notin t.lossy /\ d \in St(t) /\ t.lease[d].attached =>
                     d \in St(u) /\ u.lease[d].attached
    <2>1. d # b /\ u.lease[d] = t.lease[d]
      BY <1>4, <1>6
    <2> QED BY <1>2, <1>3, <2>1
  <1>10. A \subseteq A
    OBVIOUS
  <1>11. u.queue = t.queue /\ \A e \in Queued(t) : <<e.op, e.b>> \in u.ops => <<e.op, e.b>> \in t.ops
    BY <1>2
  <1>12. Typed(t)
    BY <1>1
  <1> QED BY ZenonT(60), <1>7, <1>8, <1>9, <1>10, <1>11, <1>12, HousedStays

\* The end of a held interaction.
LEMMA CancelHeldHoused ==
    ASSUME World, NEW t, NEW Y, Sound(t, Y), NEW b \in St(t),
           NEW A, A \subseteq p.attached, Housed(t, A)
    PROVE  Housed(CancelHeld(t, b), A)
  <1> DEFINE c == t.lease[b].ctl
             i == t.lease[b].inst
             x == [t EXCEPT !.held[c] = None, !.suppressed = @ \union {c}]
  <1>1. b \in Ids /\ i \in Instances /\ c \in Controls /\ t \in SessionRecords /\ Typed(t)
    BY StoredAreGranted DEF Granted, Sound, Typed
  <1>2. CancelHeld(t, b) \in {t, x, Submit(x, i, Of("cancel", b))}
    BY DEF CancelHeld
  <1>3. /\ x.lease = t.lease /\ x.queue = t.queue /\ x.lossy = t.lossy /\ x.stored = t.stored
        /\ x.ops = t.ops /\ x.rec = t.rec /\ x \in SessionRecords
    BY ZenonT(60), <1>1 DEF SessionRecords
  <1> HIDE DEF x, i, c
  <1>4. St(x) = St(t) /\ Queued(x) = Queued(t) /\ A \subseteq A
    BY <1>3 DEF St, Queued
  <1>5. \A j \in Instances : Registers(t, x, j)
    BY <1>3 DEF Housed, Registered, Registers
  <1>6. Housed(x, A)
    BY <1>1, <1>3, <1>4, <1>5, HousedStays
  <1>7. Typed(x) /\ Grants(x)
    <2>1. Typed(x)
      BY <1>1, <1>3, SameQueuesSameLoads DEF Typed
    <2>2. \A d : InUse(x, d) => InUse(t, d)
      BY <1>4 DEF InUse
    <2> QED BY <1>3, <2>1, <2>2 DEF Sound, Grants
  <1>8. Of("cancel", b) \in Effects /\ Of("cancel", b).kind = "cancel"
    BY <1>1, OfIsEffect DEF Of, Effect
  <1>9. Housed(Submit(x, i, Of("cancel", b)), A)
    BY <1>1, <1>6, <1>7, <1>8, HousedSubmit
  <1> QED BY <1>2, <1>6, <1>9

\* The destruction of an instance, when no binding is installed if the provider is told.
LEMMA DestroyHoused ==
    ASSUME World, NEW t, NEW Y, Sound(t, Y), NEW i \in Instances, NEW notify,
           notify => St(t) = {}, NEW A, A \subseteq p.attached, Housed(t, A)
    PROVE  Housed(Destroy(t, i, notify), A)
  <1> DEFINE r == t.rec[i]
             v == [t EXCEPT !.rec[i] = NoRecord]
             x == Effect("destroy", None, None, FALSE, r.meta, r.contract)
  <1>1. t \in SessionRecords /\ Typed(t) /\ t.queue \in [Instances -> Seq(Effects)]
    BY DEF Sound, Typed, SessionRecords
  <1>2. Destroy(t, i, notify) = v \/ (notify /\ Destroy(t, i, notify) = Submit(v, i, x))
    BY DEF Destroy
  <1>3. PICK e : e = x
    OBVIOUS
  <1>4. e \in Effects /\ e.kind = "destroy"
    <2>1. r \in Records
      BY <1>1 DEF SessionRecords
    <2> HIDE DEF r
    <2> QED BY <1>3, <2>1 DEF Effect, Effects, Records, None
  <1>5. NoRecord \in Records /\ NoRecord.meta = None /\ NoRecord.contract = None
        /\ ~NoRecord.started
    BY DEF NoRecord, Records, Sessions, None
  <1>6. /\ v \in SessionRecords /\ v.stored = t.stored /\ v.ops = t.ops
        /\ v.queue = t.queue /\ v.lease = t.lease /\ v.lossy = t.lossy
        /\ v.rec[i] = NoRecord /\ \A j \in Instances \ {i} : v.rec[j] = t.rec[j]
    BY ZenonT(60), <1>1, <1>5 DEF SessionRecords
  <1> HIDE DEF v, x
  <1>7. Typed(v)
    BY <1>1, <1>6, SameQueuesSameLoads DEF Typed
  <1>8. Grants(v) /\ St(v) = St(t) /\ A \subseteq A
    BY <1>6 DEF Sound, Grants, InUse, St, Queued
  <1>9. ASSUME NEW j \in Instances PROVE Registers(t, v, j)
    <2>1. CASE j = i
      <3>1. None \in 0..agreed.last
        BY ContractsAreReached DEF None
      <3> QED BY <1>5, <1>6, <2>1, <3>1 DEF Registers
    <2>2. CASE j # i
      BY <1>6, <2>2 DEF Housed, Registered, Registers
    <2> QED BY <2>1, <2>2
  <1>10. Housed(v, A)
    BY <1>1, <1>6, <1>8, <1>9, HousedStays
  <1>11. ASSUME notify PROVE Emptied(v, A, i, Len(v.queue[i]) + 1)
    <2>1. St(t) = {} /\ t.ops = {}
      <3>1. \A o \in t.ops : o[2] \in St(t)
        BY DEF Sound, Ledger
      <3> QED BY <1>11, <3>1
    <2>2. ASSUME NEW b \in A, v.lease[b].inst = i
          PROVE  b \in v.lossy \/ Detached(v, b, Len(v.queue[i]) + 1)
      <3>1. Sheltered(v, b) /\ b \notin St(v)
        BY <1>8, <1>10, <2>1 DEF Housed
      <3>2. CASE b \in v.lossy
        BY <3>2
      <3>3. CASE b \notin v.lossy
        <4>1. PICK k \in Nat : Detached(v, b, k)
          BY <3>1, <3>3 DEF Sheltered
        <4>2. v.queue \in [Instances -> Seq(Effects)] /\ v.lease[b].inst \in Instances
          BY <1>1, <1>6, <2>2
        <4> QED BY <2>2, <4>1, <4>2, DetachedBefore
      <3> QED BY <3>2, <3>3
    <2>3. ASSUME NEW k \in DOMAIN v.queue[i], v.queue[i][k].kind = "prepare"
          PROVE  v.queue[i][k].meta # v.rec[i].meta
      BY <1>5, <1>6, <1>10, <2>3 DEF Housed, InPlace
    <2> QED BY <1>5, <1>6, <2>1, <2>2, <2>3 DEF Emptied
  <1>12. ASSUME notify PROVE Housed(Submit(v, i, e), A)
    <2>1. e.kind # "prepare"
      BY <1>4
    <2> QED BY <1>4, <1>7, <1>8, <1>10, <1>11, <1>12, <2>1, HousedSubmit
  <1> QED BY <1>2, <1>3, <1>10, <1>12

\* What else the session remembers does not matter to what is attached.
LEMMA SameIsHoused ==
    ASSUME World, NEW t, NEW u, Typed(t), u.queue = t.queue, t.lossy \subseteq u.lossy,
           St(u) = St(t), u.rec = t.rec, u.ops \subseteq t.ops,
           \A d \in Ids : /\ u.lease[d].inst = t.lease[d].inst
                          /\ u.lease[d].contract = t.lease[d].contract
                          /\ t.lease[d].attached => u.lease[d].attached,
           NEW A, A \subseteq p.attached, Housed(t, A)
    PROVE  Housed(u, A)
  <1>1. A \subseteq A /\ A \subseteq Ids
    BY DEF World
  <1>2. \A j \in Instances : Registers(t, u, j)
    BY DEF Housed, Registered, Registers
  <1>3. \A d \in A : /\ d \in t.lossy => d \in u.lossy
                     /\ d \notin t.lossy /\ d \in St(t) /\ t.lease[d].attached =>
                           d \in St(u) /\ u.lease[d].attached
    BY <1>1
  <1>4. \A e \in Queued(t) : <<e.op, e.b>> \in u.ops => <<e.op, e.b>> \in t.ops
    OBVIOUS
  <1>5. \A d \in Ids : InUse(t, d) =>
            u.lease[d].inst = t.lease[d].inst /\ u.lease[d].contract = t.lease[d].contract
    OBVIOUS
  <1> QED BY <1>1, <1>2, <1>3, <1>4, <1>5, HousedStays

----------------------------------------------------------------------------
(* All of it together *)

\* Sessions follow one another.
LEMMA FollowsTransitively ==
    ASSUME NEW t, NEW u, NEW v, Typed(t), Typed(u), Typed(v), Follows(t, u), Follows(u, v)
    PROVE  Follows(t, v)
  BY ContinuesTransitively DEF Follows

\* A session follows itself.
LEMMA FollowsItself ==
    ASSUME NEW t, Typed(t) PROVE Follows(t, t)
  BY ContinuesItself DEF Follows

\* A session whose interactions, leases, records and queues are the same.
LEMMA SameFollows ==
    ASSUME World, NEW t, NEW u, Typed(t), Continues(t, u), u.queue = t.queue,
           u.lossy = t.lossy, u.held = t.held, u.lease = t.lease, u.stored = t.stored,
           u.rec = t.rec, u.ops \subseteq t.ops
    PROVE  Follows(t, u)
  <1>1. ASSUME Tidy(t, {}) PROVE Tidy(u, {})
    BY <1>1, SameIsTidy
  <1>2. ASSUME Housed(t, Standing) PROVE Housed(u, Standing)
    <2>1. St(u) = St(t) /\ Standing \subseteq p.attached
      BY DEF St, Standing
    <2> QED BY <1>2, <2>1, SameIsHoused
  <1> QED BY <1>1, <1>2 DEF Follows

\* A revocation leaves the preparations of other bindings alone, and closes its press.
LEMMA RevokeFollows ==
    ASSUME World, NEW t, NEW Y, Sound(t, Y), NEW b, NEW notify, notify \/ b \notin Standing
    PROVE  Follows(t, Revoke(t, b, notify))
  <1>1. Standing \subseteq p.attached
    BY DEF Standing
  <1> QED BY <1>1, RevokeContinues, RevokeTidy, RevokeHoused DEF Follows

\* An activation makes an operation nobody knows, and queues its preparation with it,
\* or makes none.
LEMMA ActivateFollows ==
    ASSUME World, NEW t, NEW Y, Sound(t, Y), NEW b \in St(t), NEW force \in BOOLEAN
    PROVE  Follows(t, Activate(t, b, force))
  <1>1. Standing \subseteq p.attached
    BY DEF Standing
  <1> QED BY <1>1, ActivateContinues, ActivateTidy, ActivateHoused DEF Follows

\* Fields the preparations do not look at do not matter.
LEMMA AlikeFollows ==
    ASSUME World, NEW t, NEW u, Typed(t), Typed(u), Alike(t, u) PROVE Follows(t, u)
  <1>1. Continues(t, u)
    BY AlikeContinues
  <1> QED BY <1>1, SameFollows DEF Alike

\* A binding that is resolved is not one that is preparing or pressed already.
LEMMA TryResolveFollows ==
    ASSUME World, NEW t, Sound(t, {}), NEW g \in Pages, NEW c \in Controls, FreeIds(t) # {},
           \A d \in St(t) : t.lease[d].ctl # c
    PROVE  Follows(t, TryResolve(t, g, c))
  <1>1. ASSUME Tidy(t, {})
        PROVE  /\ Tidy(TryResolve(t, g, c), {})
               /\ Housed(t, Standing) => Housed(TryResolve(t, g, c), Standing)
    <2>1. CASE CurrentContract(listed) = None
      BY <1>1, <2>1 DEF TryResolve
    <2>2. CASE CurrentContract(listed) # None
      <3>1. PICK b : b = Min(FreeIds(t))
        OBVIOUS
      <3>2. PICK v : v = Resolved(t, b, g, c)
        OBVIOUS
      <3>3. b \in FreeIds(t)
        BY <3>1, FirstFree
      <3>4. TryResolve(t, g, c) = Activate(v, b, FALSE)
        BY <2>2, <3>1, <3>2 DEF TryResolve, Resolved, NewLease
      <3>5. Tidy(v, {})
        BY <1>1, <3>2, <3>3, ResolvedTidy
      <3>6. Sound(v, {b}) /\ b \in St(v)
        BY <2>2, <3>2, <3>3, ResolvedKeeps
      <3>7. FALSE \in BOOLEAN
        OBVIOUS
      <3>8. Standing \subseteq p.attached
        BY DEF Standing
      <3>9. Housed(t, Standing) => Housed(v, Standing)
        BY <3>2, <3>3, <3>8, ResolvedHoused
      <3> QED BY <3>4, <3>5, <3>6, <3>7, <3>8, <3>9, ActivateTidy, ActivateHoused
    <2> QED BY <2>1, <2>2
  <1> QED BY <1>1, TryResolveContinues DEF Follows

\* Installing a planned binding leaves the preparations under way alone.
LEMMA InstallFollows ==
    ASSUME World, NEW t, Sound(t, {}), NEW g \in Pages, NEW c \in Controls, FreeIds(t) # {},
           Existing(t, g, c) = {} => \A d \in St(t) : t.lease[d].ctl # c
    PROVE  Follows(t, Install(t, g, c))
  <1>1. CASE offer # "bound"
    <2>1. Typed(t)
      BY DEF Sound
    <2> QED BY <1>1, <2>1, FollowsItself DEF Install
  <1>2. CASE offer = "bound" /\ Existing(t, g, c) = {}
    BY <1>2, TryResolveFollows DEF Install
  <1>3. CASE offer = "bound" /\ Existing(t, g, c) # {}
    <2> DEFINE b == First(t, Existing(t, g, c))
    <2>1. b \in St(t)
      <3>1. Existing(t, g, c) \intersect St(t) # {}
        BY <1>3, ExistingAreStored
      <3> QED BY <3>1, FirstIsIn DEF Sound
    <2>2. Install(t, g, c) = Activate(t, b, FALSE) /\ FALSE \in BOOLEAN
      BY <1>3 DEF Install
    <2> HIDE DEF b
    <2> QED BY <2>1, <2>2, ActivateFollows
  <1> QED BY <1>1, <1>2, <1>3

\* So does the cancellation of a held input,
LEMMA CancelHeldFollows ==
    ASSUME World, NEW t, NEW Y, Sound(t, Y), NEW b \in St(t)
    PROVE  Follows(t, CancelHeld(t, b))
  <1>1. PICK B : B = {}
    OBVIOUS
  <1>2. ASSUME Tidy(t, {}) PROVE Tidy(CancelHeld(t, b), {})
    <2>1. Tidy(t, B) /\ B \subseteq {b} /\ ~(B # {})
      BY <1>1, <1>2
    <2> QED BY <2>1, CancelHeldTidy
  <1>3. Standing \subseteq p.attached
    BY DEF Standing
  <1> QED BY <1>2, <1>3, CancelHeldContinues, CancelHeldHoused DEF Follows

\* and the destruction of an instance, when no binding is installed if the provider is told.
LEMMA DestroyFollows ==
    ASSUME World, NEW t, NEW Y, Sound(t, Y), NEW i \in Instances, NEW notify,
           notify => St(t) = {}
    PROVE  Follows(t, Destroy(t, i, notify))
  <1>1. Standing \subseteq p.attached
    BY DEF Standing
  <1> QED BY <1>1, DestroyContinues, DestroyTidy, DestroyHoused DEF Follows

----------------------------------------------------------------------------
(* Loops of revocations *)

\* A revocation only leaves bindings, and not the one revoked.
LEMMA RevokeLeaves ==
    ASSUME World, NEW t, Sound(t, {}), NEW u, Leaves(t, u), NEW b, NEW notify,
           notify \/ b \notin Standing
    PROVE  Leaves(t, Revoke(u, b, notify)) /\ St(Revoke(u, b, notify)) = St(u) \ {b}
  <1> DEFINE v == Revoke(u, b, notify)
  <1>1. /\ Sound(v, {}) /\ St(v) = St(u) \ {b} /\ v.lease = u.lease
        /\ v.page = u.page /\ v.stopped = u.stopped /\ v.recovery = u.recovery
        /\ FreeIds(u) \subseteq FreeIds(v)
    BY RevokeKeeps DEF Leaves
  <1>2. Follows(u, v) /\ Typed(t) /\ Typed(u) /\ Typed(v) /\ Follows(t, u)
    BY <1>1, RevokeFollows DEF Leaves, Sound
  <1> HIDE DEF v
  <1>3. Follows(t, v)
    BY <1>2, FollowsTransitively
  <1>4. Leaves(t, v)
    BY <1>1, <1>3 DEF Leaves
  <1> QED BY <1>1, <1>4 DEF v

\* Nothing done leaves all bindings.
LEMMA LeavesItself ==
    ASSUME NEW t, Sound(t, {}) PROVE Leaves(t, t)
  BY FollowsItself DEF Leaves, Sound

\* The stored bindings are those at the places of the sequence.
LEMMA StoredInOrder ==
    ASSUME NEW t, NEW Y, Sound(t, Y)
    PROVE  /\ Len(t.stored) \in Nat /\ DOMAIN t.stored = 1..Len(t.stored)
           /\ \A b \in St(t) : \E k \in 1..Len(t.stored) : b = t.stored[k]
           /\ \A k \in 1..Len(t.stored) : t.stored[k] \in St(t)
  <1>1. t.stored \in Seq(Ids)
    BY DEF Sound, Typed, SessionRecords
  <1> QED BY <1>1 DEF St, ToSet

\* The loop over the bindings that a page change leaves: its step, and what holds after
\* n of them, in an instance of FoldProofs; and so for the other loops.
RevokeStep(kept, u, b) == IF b \in kept THEN u ELSE Revoke(u, b, TRUE)

RevokeGood(kept, t, u, n) ==
    Leaves(t, u) /\ \A k \in 1..n : t.stored[k] \in St(u) => t.stored[k] \in kept

Revocations == INSTANCE FoldProofs WITH Step <- RevokeStep, Good <- RevokeGood

\* The bindings that are kept are left, and no others.
LEMMA RevokeExceptLeaves ==
    ASSUME World, NEW t, Sound(t, {}), NEW kept
    PROVE  LET u == RevokeExcept(t, kept) IN Leaves(t, u) /\ St(u) \subseteq kept
  <1> DEFINE u == Revocations!Folded(kept, t, t.stored)
             q == t.stored
             len == Len(t.stored)
  <1>1. RevokeExcept(t, kept) = u
    BY DEF RevokeExcept, Revocations!Folded, RevokeStep, FoldLeft, MapThenFoldSet, Max, Revocations!Greatest
  <1>2. len \in Nat /\ DOMAIN q = 1..len
    BY StoredInOrder
  <1>3. RevokeGood(kept, t, t, 0)
    BY LeavesItself DEF RevokeGood
  <1>4. ASSUME NEW n \in 1..len, NEW v, RevokeGood(kept, t, v, n - 1)
        PROVE  RevokeGood(kept, t, RevokeStep(kept, v, q[n]), n)
    <2> DEFINE w == Revoke(v, q[n], TRUE)
    <2>1. Leaves(t, v) /\ \A k \in 1..(n - 1) : q[k] \in St(v) => q[k] \in kept
      BY <1>4 DEF RevokeGood
    <2>2. Leaves(t, w) /\ St(w) = St(v) \ {q[n]}
      BY <2>1, RevokeLeaves
    <2>3. \A k \in 1..n : k \in 1..(n - 1) \/ k = n
      OBVIOUS
    <2> HIDE DEF w, q
    <2>4. CASE q[n] \in kept
      <3>1. RevokeStep(kept, v, q[n]) = v
        BY <2>4 DEF RevokeStep
      <3> QED BY <2>1, <2>3, <2>4, <3>1 DEF RevokeGood, q
    <2>5. CASE q[n] \notin kept
      <3>1. RevokeStep(kept, v, q[n]) = w
        BY <2>5 DEF RevokeStep, w
      <3> QED BY <2>1, <2>2, <2>3, <3>1 DEF RevokeGood, q
    <2> QED BY <2>4, <2>5
  <1> HIDE DEF u, len
  <1>5. RevokeGood(kept, t, u, len)
    BY <1>2, <1>3, <1>4, LeastNatural, Revocations!FoldKeeps DEF u, Revocations!WellOrdered
  <1>6. St(u) \subseteq kept
    <2>1. \A b \in St(u) : \E k \in 1..len : b = t.stored[k]
      BY <1>5, StoredInOrder DEF RevokeGood, Leaves, len
    <2> QED BY <1>5, <2>1 DEF RevokeGood
  <1> QED BY <1>1, <1>5, <1>6 DEF RevokeGood

\* The loop over the bindings of a rejected instance.
RejectStep(of, u, b) == IF b \in of THEN Revoke(u, b, FALSE) ELSE u

RejectGood(of, t, u, n) ==
    Leaves(t, u) /\ \A k \in 1..n : t.stored[k] \in St(u) => t.stored[k] \notin of

Rejections == INSTANCE FoldProofs WITH Step <- RejectStep, Good <- RejectGood

\* The same, of the bindings of an action instance that is rejected, which the provider
\* has no more.
LEMMA RejectionLeaves ==
    ASSUME World, NEW t, Sound(t, {}), NEW of, of \intersect Standing = {}
    PROVE  LET u == RevokeQuietly(t, of) IN Leaves(t, u) /\ St(u) \intersect of = {}
  <1> DEFINE u == Rejections!Folded(of, t, t.stored)
             q == t.stored
             len == Len(t.stored)
  <1>1. RevokeQuietly(t, of) = u
    BY DEF RevokeQuietly, Rejections!Folded, RejectStep, FoldLeft, MapThenFoldSet, Max, Rejections!Greatest
  <1>2. len \in Nat /\ DOMAIN q = 1..len
    BY StoredInOrder
  <1>3. RejectGood(of, t, t, 0)
    BY LeavesItself DEF RejectGood
  <1>4. ASSUME NEW n \in 1..len, NEW v, RejectGood(of, t, v, n - 1)
        PROVE  RejectGood(of, t, RejectStep(of, v, q[n]), n)
    <2> DEFINE w == Revoke(v, q[n], FALSE)
    <2>1. Leaves(t, v) /\ \A k \in 1..(n - 1) : q[k] \in St(v) => q[k] \notin of
      BY <1>4 DEF RejectGood
    <2>2. q[n] \in of => Leaves(t, w) /\ St(w) = St(v) \ {q[n]}
      <3>1. q[n] \in of => q[n] \notin Standing
        OBVIOUS
      <3> QED BY ZenonT(60), <2>1, <3>1, RevokeLeaves
    <2>3. \A k \in 1..n : k \in 1..(n - 1) \/ k = n
      OBVIOUS
    <2> HIDE DEF w, q
    <2>4. CASE q[n] \notin of
      <3>1. RejectStep(of, v, q[n]) = v
        BY <2>4 DEF RejectStep
      <3> QED BY <2>1, <2>3, <2>4, <3>1 DEF RejectGood, q
    <2>5. CASE q[n] \in of
      <3>1. RejectStep(of, v, q[n]) = w
        BY <2>5 DEF RejectStep, w
      <3> QED BY <2>1, <2>2, <2>3, <2>5, <3>1 DEF RejectGood, q
    <2> QED BY <2>4, <2>5
  <1> HIDE DEF u, len
  <1>5. RejectGood(of, t, u, len)
    BY <1>2, <1>3, <1>4, LeastNatural, Rejections!FoldKeeps DEF u, Rejections!WellOrdered
  <1>6. St(u) \intersect of = {}
    <2>1. \A b \in St(u) : \E k \in 1..len : b = t.stored[k]
      BY <1>5, StoredInOrder DEF RejectGood, Leaves, len
    <2> QED BY <1>5, <2>1 DEF RejectGood
  <1> QED BY <1>1, <1>5, <1>6 DEF RejectGood

\* The loop of a configuration change over the held interactions,
ClearStep(a, u, b) == CancelHeld(u, b)

ClearGood(a, t, u, n) == Leaves(t, u) /\ u.stored = t.stored

Endings == INSTANCE FoldProofs WITH Step <- ClearStep, Good <- ClearGood

\* The held interactions of all bindings end.
LEMMA EndingsLeave ==
    ASSUME World, NEW t, Sound(t, {})
    PROVE  LET u == FoldLeft(LAMBDA v, b : CancelHeld(v, b), t, t.stored)
           IN Leaves(t, u) /\ u.stored = t.stored
  <1> DEFINE u == Endings!Folded(None, t, t.stored)
             q == t.stored
             len == Len(t.stored)
  <1>1. FoldLeft(LAMBDA v, b : CancelHeld(v, b), t, t.stored) = u
    BY DEF Endings!Folded, ClearStep, FoldLeft, MapThenFoldSet, Max, Endings!Greatest
  <1>2. len \in Nat /\ DOMAIN q = 1..len
    BY StoredInOrder
  <1>3. ClearGood(None, t, t, 0)
    BY LeavesItself DEF ClearGood
  <1>4. ASSUME NEW n \in 1..len, NEW v, ClearGood(None, t, v, n - 1)
        PROVE  ClearGood(None, t, ClearStep(None, v, q[n]), n)
    <2> DEFINE w == CancelHeld(v, q[n])
    <2>1. Leaves(t, v) /\ v.stored = t.stored /\ Sound(v, {}) /\ St(v) = St(t)
      BY <1>4 DEF ClearGood, Leaves, St
    <2>2. q[n] \in St(v)
      BY <2>1, StoredInOrder
    <2>3. /\ Sound(w, {}) /\ w.stored = v.stored /\ w.lease = v.lease
          /\ w.page = v.page /\ w.stopped = v.stopped /\ w.recovery = v.recovery
          /\ FreeIds(v) \subseteq FreeIds(w)
      BY <2>1, <2>2, CancelHeldKeeps
    <2>4. Follows(v, w)
      BY <2>1, <2>2, CancelHeldFollows
    <2>5. ClearStep(None, v, q[n]) = w
      BY DEF ClearStep
    <2> HIDE DEF w, q
    <2>6. Follows(t, w)
      BY <2>1, <2>3, <2>4, FollowsTransitively DEF Leaves, Sound
    <2> QED BY <2>1, <2>3, <2>5, <2>6 DEF ClearGood, Leaves, St
  <1> HIDE DEF u, len
  <1>5. ClearGood(None, t, u, len)
    BY <1>2, <1>3, <1>4, LeastNatural, Endings!FoldKeeps DEF u, Endings!WellOrdered
  <1> QED BY ZenonT(60), <1>1, <1>5 DEF ClearGood

\* and the one over the instances.
DestroyStep(a, u, i) == Destroy(u, i, TRUE)

DestroyGood(a, t, u, D) == Leaves(t, u) /\ u.stored = t.stored

Destructions == INSTANCE FoldProofs WITH Step <- DestroyStep, Good <- DestroyGood

\* All action instances end, when no binding is left.
LEMMA DestroyAllLeaves ==
    ASSUME World, NEW t, Sound(t, {}), St(t) = {}
    PROVE  Leaves(t, DestroyAll(t)) /\ DestroyAll(t).stored = t.stored
  <1> DEFINE u == Destructions!FoldedSet(None, t, Instances)
  <1>1. DestroyAll(t) = u
    BY DEF DestroyAll, Destructions!FoldedSet, DestroyStep, FoldSet, MapThenFoldSet
  <1> DEFINE size == [S \in SUBSET Instances |-> Cardinality(S)]
  <1>2. /\ Destructions!Shrinking(size, Instances)
        /\ \A S \in SUBSET Instances : size[S] <= size[Instances]
    <2>1. IsFiniteSet(Instances)
      BY LifecycleAssumption
    <2>2. ASSUME NEW S \in SUBSET Instances
          PROVE  /\ Cardinality(S) \in Nat /\ Cardinality(S) <= Cardinality(Instances)
                 /\ \A i \in S : Cardinality(S \ {i}) < Cardinality(S)
      <3>1. IsFiniteSet(S) /\ Cardinality(S) <= Cardinality(Instances)
        BY <2>1, FS_Subset
      <3>2. Cardinality(S) \in Nat
        BY <3>1, FS_CardinalityType
      <3>3. \A i \in S : Cardinality(S \ {i}) = Cardinality(S) - 1
        BY <3>1, FS_RemoveElement
      <3> QED BY <3>1, <3>2, <3>3
    <2> QED BY <2>2 DEF Destructions!Shrinking
  <1>3. DestroyGood(None, t, t, {})
    BY LeavesItself DEF DestroyGood
  <1>4. ASSUME NEW D \in SUBSET Instances, NEW i \in Instances \ D, NEW v,
               DestroyGood(None, t, v, D)
        PROVE  DestroyGood(None, t, DestroyStep(None, v, i), D \union {i})
    <2> DEFINE w == Destroy(v, i, TRUE)
    <2>1. Leaves(t, v) /\ v.stored = t.stored /\ Sound(v, {}) /\ St(v) = St(t)
          /\ i \in Instances
      BY <1>4 DEF DestroyGood, Leaves, St
    <2>2. /\ Sound(w, {}) /\ w.stored = v.stored /\ w.lease = v.lease
          /\ w.page = v.page /\ w.stopped = v.stopped /\ w.recovery = v.recovery
          /\ FreeIds(v) \subseteq FreeIds(w)
      BY <2>1, DestroyKeeps
    <2>3. Follows(v, w)
      BY <2>1, DestroyFollows
    <2>4. DestroyStep(None, v, i) = w
      BY DEF DestroyStep
    <2> HIDE DEF w
    <2>5. Follows(t, w)
      BY <2>1, <2>2, <2>3, FollowsTransitively DEF Leaves, Sound
    <2> QED BY <2>1, <2>2, <2>4, <2>5 DEF DestroyGood, Leaves, St
  <1> HIDE DEF u, size
  <1>5. DestroyGood(None, t, u, Instances)
    BY <1>2, <1>3, <1>4, LeastNatural, Destructions!FoldSetKeeps DEF u, Destructions!WellOrdered
  <1> QED BY <1>1, <1>5 DEF DestroyGood

----------------------------------------------------------------------------
(* Pages and notifications *)

\* The free identities can be counted.
LEMMA FreeAreCounted ==
    ASSUME NEW t
    PROVE  /\ IsFiniteSet(FreeIds(t)) /\ Cardinality(FreeIds(t)) \in Nat
           /\ FreeIds(t) = {} => Cardinality(FreeIds(t)) = 0
  <1>1. FreeIds(t) \in SUBSET Ids /\ IsFiniteSet(Ids)
    <2>1. MaxBindings \in Int
      BY LifecycleAssumption
    <2>2. IsFiniteSet(Ids)
      BY <2>1, FS_Interval DEF Ids
    <2> QED BY <2>2 DEF FreeIds
  <1> QED BY <1>1, FS_Subset, FS_CardinalityType, FS_EmptySet

\* Taking one identity leaves one less.
LEMMA OneLessIsFree ==
    ASSUME NEW t, NEW u, NEW b, FreeIds(t) \ {b} \subseteq FreeIds(u), NEW m \in Int,
           Cardinality(FreeIds(t)) >= m
    PROVE  Cardinality(FreeIds(u)) >= m - 1
  <1> DEFINE F == FreeIds(t)
             G == FreeIds(u)
  <1>1. IsFiniteSet(F) /\ IsFiniteSet(G) /\ Cardinality(F) \in Nat /\ Cardinality(G) \in Nat
    BY FreeAreCounted
  <1> HIDE DEF F, G
  <1>2. IsFiniteSet(F \ {b}) /\ Cardinality(F \ {b}) \in Nat
        /\ Cardinality(F \ {b}) >= Cardinality(F) - 1
    <2>1. IsFiniteSet(F \ {b})
          /\ Cardinality(F \ {b}) = IF b \in F THEN Cardinality(F) - 1 ELSE Cardinality(F)
      BY <1>1, FS_RemoveElement
    <2>2. Cardinality(F \ {b}) \in Nat
      BY <2>1, FS_CardinalityType
    <2>3. CASE b \in F
      BY <1>1, <2>1, <2>2, <2>3
    <2>4. CASE b \notin F
      BY <1>1, <2>1, <2>2, <2>4
    <2> QED BY <2>3, <2>4
  <1>3. Cardinality(F \ {b}) <= Cardinality(G)
    <2>1. F \ {b} \in SUBSET G
      BY DEF F, G
    <2> QED BY <1>1, <2>1, FS_Subset
  <1>4. Cardinality(F) >= m
    BY DEF F
  <1> QED BY <1>1, <1>2, <1>3, <1>4 DEF G

\* A page plans a control at most once.
LEMMA PlanFits ==
    ASSUME NEW g \in Pages
    PROVE  /\ ControlsOf[g] \in Seq(Controls) /\ Len(ControlsOf[g]) \in Nat
           /\ DOMAIN ControlsOf[g] = 1..Len(ControlsOf[g])
           /\ Cardinality(Controls) \in Nat /\ Len(ControlsOf[g]) <= Cardinality(Controls)
  <1> DEFINE q == ControlsOf[g]
             len == Len(q)
  <1>1. q \in Seq(Controls) /\ IsInjective(q) /\ IsFiniteSet(Controls)
    BY LifecycleAssumption
  <1> HIDE DEF q
  <1>2. len \in Nat /\ DOMAIN q = 1..len /\ q \in [1..len -> Controls]
    BY <1>1
  <1>3. q \in Injection(1..len, Controls)
    BY <1>1, <1>2 DEF IsInjective, Injection
  <1>4. Cardinality(1..len) <= Cardinality(Controls) /\ Cardinality(1..len) = len
    <2>1. Cardinality(1..len) <= Cardinality(Controls)
      BY <1>1, <1>3, FS_Injection
    <2>2. Cardinality(1..len) = IF 1 > len THEN 0 ELSE len - 1 + 1
      BY <1>2, FS_Interval
    <2> QED BY <1>2, <2>1, <2>2
  <1>5. Cardinality(Controls) \in Nat
    BY <1>1, FS_CardinalityType
  <1> QED BY <1>1, <1>2, <1>4, <1>5 DEF q

\* The loop over the controls of a page that is shown.
InstallStep(g, u, c) == Install(u, g, c)

InstallGood(g, t, u, n) ==
    /\ Sound(u, {}) /\ u.page = t.page /\ u.stopped = t.stopped
    /\ \A d \in St(u) : u.lease[d].page = g /\ SessionOfLease(u.lease[d]) = listed
    /\ Cardinality(FreeIds(u)) >= Cardinality(Controls) - n
    /\ Follows(t, u)

Installations == INSTANCE FoldProofs WITH Step <- InstallStep, Good <- InstallGood

\* A page is installed control by control; there are identities enough, and what is
\* installed fits the plan.
LEMMA InstallPageKeeps ==
    ASSUME World, NEW t, NEW g \in Pages, InstallGood(g, t, t, 0)
    PROVE  InstallGood(g, t, InstallPage(t, g), Len(ControlsOf[g]))
  <1> DEFINE u == Installations!Folded(g, t, ControlsOf[g])
             q == ControlsOf[g]
             len == Len(ControlsOf[g])
  <1>1. InstallPage(t, g) = u
    BY DEF InstallPage, Installations!Folded, InstallStep, FoldLeft, MapThenFoldSet, Max, Installations!Greatest
  <1>2. len \in Nat /\ DOMAIN q = 1..len /\ q \in Seq(Controls)
        /\ Cardinality(Controls) \in Nat /\ len <= Cardinality(Controls)
    BY PlanFits
  <1> HIDE DEF u, len
  <1>3. ASSUME NEW n \in 1..len, NEW v, InstallGood(g, t, v, n - 1)
        PROVE  InstallGood(g, t, InstallStep(g, v, q[n]), n)
    <2> DEFINE c == q[n]
               w == Install(v, g, c)
    <2>1. c \in Controls
      BY <1>2
    <2> HIDE DEF c, q
    <2>2. /\ Sound(v, {}) /\ v.page = t.page /\ v.stopped = t.stopped
          /\ \A d \in St(v) : v.lease[d].page = g /\ SessionOfLease(v.lease[d]) = listed
          /\ Cardinality(FreeIds(v)) >= Cardinality(Controls) - (n - 1)
          /\ Follows(t, v)
      BY <1>3 DEF InstallGood
    <2>3. FreeIds(v) # {}
      BY <1>2, <2>2, FreeAreCounted
    <2>4. Existing(v, g, c) = {} => \A d \in St(v) : v.lease[d].ctl # c
      BY <2>2, ExistingAreStored
    <2>5. Installs(v, g, c, w)
      BY <2>1, <2>2, <2>3, <2>4, InstallKeeps
    <2>6. Follows(v, w)
      BY <2>1, <2>2, <2>3, <2>4, InstallFollows
    <2> HIDE DEF w
    <2>7. Follows(t, w)
      <3>1. Typed(t) /\ Typed(v) /\ Typed(w)
        BY <2>2, <2>5 DEF InstallGood, Installs, Sound
      <3> QED BY <2>2, <2>6, <3>1, FollowsTransitively
    <2>8. Cardinality(FreeIds(w)) >= Cardinality(Controls) - n
      <3>1. PICK b \in Ids : FreeIds(v) \ {b} \subseteq FreeIds(w)
        BY <2>5 DEF Installs
      <3> DEFINE m == Cardinality(Controls) - (n - 1)
      <3>2. m \in Int /\ m - 1 = Cardinality(Controls) - n /\ Cardinality(FreeIds(v)) >= m
        BY <1>2, <2>2
      <3> HIDE DEF m
      <3>3. Cardinality(FreeIds(w)) >= m - 1
        BY <3>1, <3>2, OneLessIsFree
      <3> QED BY <3>2, <3>3
    <2>9. \A d \in St(w) : w.lease[d].page = g /\ SessionOfLease(w.lease[d]) = listed
      BY <2>2, <2>5 DEF Installs, Around, SessionOfLease
    <2>10. InstallGood(g, t, w, n)
      BY <2>2, <2>5, <2>7, <2>8, <2>9 DEF InstallGood, Installs, Around
    <2> QED BY <2>10 DEF InstallStep, w, c
  <1>4. InstallGood(g, t, u, len)
    BY <1>2, <1>3, LeastNatural, Installations!FoldKeeps DEF u, Installations!WellOrdered
  <1> QED BY <1>1, <1>4 DEF len

\* What a decision leads to.
LEMMA DecisionsAreSafe ==
    ASSUME World, NEW i
    PROVE  LET d == Decide(offer, i) IN
           /\ d.change \in {"install", "replace"} => (i.installed => d.retire)
           /\ d.change = "refresh" => i.installed /\ ~d.retire
           /\ d.retire => i.installed
           /\ d.retire /\ (offer = "bound" => i.facts.same_action) => d.notify
  BY DEF World, Decide, Pending, Bound, Decision

\* binding_for_control finds the binding of a control, if it has one.
LEMMA BindingForIsUnique ==
    ASSUME World, NEW t, Sound(t, {}), NEW c \in Controls
    PROVE  LET b == BindingFor(t, c) IN
           /\ b # None => b \in St(t) /\ t.lease[b].ctl = c
           /\ \A d \in St(t) : t.lease[d].ctl = c => d = b
  <1> DEFINE b == BindingFor(t, c)
             S == {d \in St(t) : t.lease[d].ctl = c}
  <1>1. \A d, e \in St(t) : t.lease[d].ctl = t.lease[e].ctl => d = e
    BY DEF Sound, Routes
  <1>2. CASE t.input[c] # None
    <2>1. b = t.input[c] /\ b \in St(t) /\ t.lease[b].ctl = c
      BY <1>2 DEF BindingFor, Sound, Routes
    <2> QED BY <1>1, <2>1
  <1>3. CASE t.input[c] = None
    <2>1. b = First(t, S)
      BY <1>3 DEF BindingFor, St
    <2>2. S \intersect St(t) = S /\ \A d \in S : d # None
      BY StoredAreIds
    <2>3. (S # {} => b \in S) /\ (S = {} => b = None)
      BY <2>1, <2>2, FirstIsIn DEF Sound
    <2> HIDE DEF b
    <2>4. /\ b # None => b \in St(t) /\ t.lease[b].ctl = c
          /\ \A d \in St(t) : t.lease[d].ctl = c => d = b
      BY <1>1, <2>3
    <2> QED BY <2>4 DEF b
  <1> QED BY <1>2, <1>3

\* Whatever the decision, the control ends with one binding at most, and a sound one.
LEMMA ReconcileKeeps ==
    ASSUME World, NEW t, Sound(t, {}), t.page \in Pages, NEW c \in Controls, FreeIds(t) # {}
    PROVE  Reconciles(t, Reconcile(t, c))
  <1> DEFINE b == BindingFor(t, c)
             input == IF b = None THEN NotInstalled
                      ELSE [installed |-> TRUE, facts |-> FactsOf(t, b)]
             d == Decide(offer, input)
             u == IF d.retire THEN Revoke(t, b, d.notify) ELSE t
             recovers == input.installed /\ input.facts.recovery_requested
             v == Install(u, t.page, c)
             w == [v EXCEPT !.recovery = @ /\ ~recovers]
             x == Activate(u, b, FALSE)
  <1>1. Reconcile(t, c) = IF d.change \in {"install", "replace"} THEN w
                          ELSE IF d.change = "refresh" THEN x ELSE u
    <2> HIDE DEF d, w, x, u
    <2> QED BY DEF Reconcile, d, w, x, u
  <1>2. /\ input.installed <=> b # None
        /\ d.change \in {"install", "replace"} => (input.installed => d.retire)
        /\ d.change = "refresh" => input.installed /\ ~d.retire
        /\ d.retire => input.installed /\ d.notify
    <2>1. input.installed <=> b # None
      BY DEF NotInstalled
    <2>2. input.installed /\ offer = "bound" => input.facts.same_action
      BY DEF NotInstalled, FactsOf
    <2> HIDE DEF input
    <2> QED BY <2>1, <2>2, DecisionsAreSafe
  <1>3. /\ b # None => b \in St(t) /\ t.lease[b].ctl = c
        /\ \A e \in St(t) : t.lease[e].ctl = c => e = b
    BY BindingForIsUnique
  <1>4. PICK some \in Ids : TRUE
    BY DEF FreeIds
  <1> HIDE DEF b, input, d
  <1>5. /\ Sound(u, {}) /\ St(u) = (IF d.retire THEN St(t) \ {b} ELSE St(t)) /\ u.lease = t.lease
        /\ u.page = t.page /\ u.stopped = t.stopped /\ u.recovery = t.recovery
        /\ FreeIds(t) \subseteq FreeIds(u) /\ Follows(t, u)
    <2>2. Leaves(t, t)
      BY LeavesItself
    <2>3. d.retire => /\ Leaves(t, Revoke(t, b, d.notify))
                      /\ St(Revoke(t, b, d.notify)) = St(t) \ {b}
      BY <1>2, <2>2, RevokeLeaves
    <2> QED BY <2>2, <2>3 DEF Leaves
  <1> HIDE DEF u
  <1>6. CASE d.change \in {"install", "replace"}
    <2>1. \A e \in St(u) : u.lease[e].ctl # c
      <3>1. CASE input.installed
        BY <1>2, <1>3, <1>5, <1>6, <3>1
      <3>2. CASE ~input.installed
        BY <1>2, <1>3, <1>5, <3>2, StoredAreIds
      <3> QED BY <3>1, <3>2
    <2>2. FreeIds(u) # {}
      BY <1>5
    <2>3. Installs(u, t.page, c, v)
      BY <1>5, <2>1, <2>2, InstallKeeps
    <2>4. Follows(u, v)
      BY <1>5, <2>1, <2>2, InstallFollows
    <2> HIDE DEF v
    <2>5. v \in SessionRecords
      BY <2>3 DEF Installs, Sound, Typed
    <2>6. w \in SessionRecords /\ Alike(v, w) /\ w.page = v.page
      BY ZenonT(60), <2>5 DEF SessionRecords, Alike
    <2> HIDE DEF w
    <2>7. Sound(w, {}) /\ FreeIds(w) = FreeIds(v) /\ w.stopped = v.stopped
      BY <2>3, <2>6, AlikeKeeps DEF Installs, Alike
    <2>8. PICK e \in Ids : FreeIds(u) \ {e} \subseteq FreeIds(v)
      BY <2>3 DEF Installs
    <2>9. FreeIds(t) \ {e} \subseteq FreeIds(w)
      BY <1>5, <2>7, <2>8
    <2>10. Follows(t, w)
      <3>1. Typed(t) /\ Typed(u) /\ Typed(v) /\ Typed(w)
        BY <1>5, <2>3, <2>7 DEF Installs, Sound
      <3>2. Follows(v, w)
        BY <2>6, <3>1, AlikeFollows
      <3>3. Follows(t, v)
        BY <1>5, <2>4, <3>1, FollowsTransitively
      <3> QED BY <3>1, <3>2, <3>3, FollowsTransitively
    <2>11. Reconciles(t, w)
      BY <1>5, <2>3, <2>6, <2>7, <2>9, <2>10 DEF Reconciles, Installs, Around
    <2> QED BY <1>1, <1>6, <2>11
  <1>7. CASE d.change = "refresh"
    <2>1. b \in St(u) /\ b \in Ids /\ FALSE \in BOOLEAN
      BY <1>2, <1>3, <1>5, <1>7, StoredAreIds
    <2>2. /\ Sound(x, {} \ {b}) /\ x.page = u.page /\ x.stopped = u.stopped
          /\ FreeIds(u) \subseteq FreeIds(x)
      BY <1>5, <2>1, ActivateKeeps
    <2>3. Follows(u, x)
      BY <1>5, <2>1, ActivateFollows
    <2>4. {} \ {b} = {}
      OBVIOUS
    <2> HIDE DEF x
    <2>5. Follows(t, x)
      <3>1. Typed(t) /\ Typed(u) /\ Typed(x)
        BY <1>5, <2>2 DEF Sound
      <3> QED BY <1>5, <2>3, <3>1, FollowsTransitively
    <2>6. Reconciles(t, x)
      BY <1>5, <2>1, <2>2, <2>4, <2>5 DEF Reconciles
    <2> QED BY <1>1, <1>7, <2>6
  <1>8. CASE d.change \notin {"install", "replace", "refresh"}
    <2>1. Reconciles(t, u)
      BY <1>4, <1>5 DEF Reconciles
    <2> QED BY <1>1, <1>8, <2>1
  <1> QED BY <1>6, <1>7, <1>8

\* The loop over the controls of a page whose actions have changed.
NotifyStep(a, u, c) == Reconcile(u, c)

NotifyGood(a, t, u, n) ==
    /\ Sound(u, {}) /\ u.page = t.page /\ u.stopped = t.stopped
    /\ Cardinality(FreeIds(u)) >= Cardinality(Controls) - n
    /\ Follows(t, u)

Notifications == INSTANCE FoldProofs WITH Step <- NotifyStep, Good <- NotifyGood

\* on_action_availability_changed keeps a session sound.
LEMMA NotifiedKeeps ==
    ASSUME World, NEW t, Sound(t, {}), Idle(t), Cardinality(FreeIds(t)) >= Cardinality(Controls)
    PROVE  Handled(t, Notified(t))
  <1>0. Typed(t)
    BY DEF Sound
  <1>1. CASE t.stopped \/ t.page = None
    BY <1>0, <1>1, FollowsItself DEF Notified, Handled
  <1>2. CASE ~t.stopped /\ t.page # None
    <2> DEFINE q == ControlsOf[t.page]
               len == Len(q)
               u == Notifications!Folded(None, t, q)
    <2>1. Notified(t) = u
      BY <1>2 DEF Notified, Notifications!Folded, NotifyStep, FoldLeft, MapThenFoldSet, Max, Notifications!Greatest
    <2>2. t.page \in Pages
      BY <1>0, <1>2 DEF Typed, SessionRecords
    <2>3. len \in Nat /\ DOMAIN q = 1..len /\ q \in Seq(Controls)
          /\ Cardinality(Controls) \in Nat /\ len <= Cardinality(Controls)
      BY <2>2, PlanFits
    <2> HIDE DEF u, len, q
    <2>4. NotifyGood(None, t, t, 0)
      BY <1>0, <2>3, FollowsItself DEF NotifyGood
    <2>5. ASSUME NEW n \in 1..len, NEW v, NotifyGood(None, t, v, n - 1)
          PROVE  NotifyGood(None, t, NotifyStep(None, v, q[n]), n)
      <3> DEFINE c == q[n]
                 w == Reconcile(v, c)
                 m == Cardinality(Controls) - (n - 1)
      <3>1. c \in Controls /\ m \in Int /\ m - 1 = Cardinality(Controls) - n /\ m > 0
        BY <2>3
      <3>2. /\ Sound(v, {}) /\ v.page = t.page /\ v.stopped = t.stopped
            /\ Cardinality(FreeIds(v)) >= m /\ Follows(t, v)
        BY <2>5 DEF NotifyGood
      <3> HIDE DEF c, m
      <3>3. FreeIds(v) # {}
        BY <3>1, <3>2, FreeAreCounted
      <3>4. Reconciles(v, w)
        BY <2>2, <3>1, <3>2, <3>3, ReconcileKeeps
      <3> HIDE DEF w
      <3>5. PICK b \in Ids : FreeIds(v) \ {b} \subseteq FreeIds(w)
        BY <3>4 DEF Reconciles
      <3>6. Cardinality(FreeIds(w)) >= Cardinality(Controls) - n
        BY <3>1, <3>2, <3>5, OneLessIsFree
      <3>7. Follows(t, w)
        BY <1>0, <3>2, <3>4, FollowsTransitively DEF Reconciles, Sound
      <3>8. NotifyGood(None, t, w, n)
        BY <3>2, <3>4, <3>6, <3>7 DEF NotifyGood, Reconciles
      <3> QED BY <3>8 DEF NotifyStep, w, c
    <2>6. NotifyGood(None, t, u, len)
      BY <2>3, <2>4, <2>5, LeastNatural, Notifications!FoldKeeps DEF u, Notifications!WellOrdered
    <2> QED BY <1>2, <2>1, <2>6 DEF NotifyGood, Handled, Idle
  <1> QED BY <1>1, <1>2

\* The plan that arrives is installed on what is kept of the one that is left.
LEMMA CommitPageKeeps ==
    ASSUME World, NEW t, Sound(t, {}), Idle(t), ~t.stopped, NEW g \in Pages,
           Cardinality(FreeIds(t)) >= Cardinality(Controls)
    PROVE  Handled(t, CommitPage(t, g))
  <1> DEFINE kept == IF offer = "bound"
                       THEN UNION {Existing(t, g, c) : c \in ToSet(ControlsOf[g])}
                       ELSE {}
             left == IF t.page = None THEN t ELSE RevokeExcept(t, kept)
             v == [left EXCEPT !.page = g]
             u == InstallPage(v, g)
  <1>1. CommitPage(t, g) = u
    BY DEF CommitPage
  <1>2. \A d \in kept : t.lease[d].page = g /\ SessionOfLease(t.lease[d]) = listed
    <2>1. \A d \in kept : \E c : d \in Existing(t, g, c)
      OBVIOUS
    <2> HIDE DEF kept
    <2> QED BY <2>1, ExistingAreStored
  <1> HIDE DEF kept, u
  <1>3. Leaves(t, left) /\ St(left) \subseteq kept
    <2>1. CASE t.page = None
      <3>1. St(t) = {}
        BY <2>1 DEF Idle, St, ToSet
      <3> QED BY <2>1, <3>1, LeavesItself
    <2>2. CASE t.page # None
      BY <2>2, RevokeExceptLeaves
    <2> QED BY <2>1, <2>2
  <1> HIDE DEF left
  <1>4. /\ v \in SessionRecords /\ Alike(left, v) /\ v.page = g
    <2>1. left \in SessionRecords
      BY <1>3 DEF Leaves, Sound, Typed
    <2> QED BY <2>1 DEF SessionRecords, Alike
  <1> HIDE DEF v
  <1>5. Sound(v, {}) /\ FreeIds(v) = FreeIds(left) /\ St(v) = St(left)
    BY <1>3, <1>4, AlikeKeeps DEF Leaves
  <1>6. Typed(t) /\ Typed(v) /\ Follows(t, v)
    <2>1. Typed(t) /\ Typed(v) /\ Typed(left)
      BY <1>3, <1>5 DEF Leaves, Sound
    <2>2. Follows(left, v)
      BY <1>4, <2>1, AlikeFollows
    <2> QED BY <1>3, <2>1, <2>2, FollowsTransitively DEF Leaves
  <1>7. Cardinality(FreeIds(v)) >= Cardinality(Controls) - 0
    <2>1. IsFiniteSet(FreeIds(v)) /\ Cardinality(FreeIds(t)) \in Nat
          /\ Cardinality(FreeIds(v)) \in Nat /\ Cardinality(Controls) \in Nat
      BY PlanFits, FreeAreCounted
    <2>2. Cardinality(FreeIds(t)) <= Cardinality(FreeIds(v))
      <3>1. FreeIds(t) \in SUBSET FreeIds(v)
        BY <1>3, <1>5 DEF Leaves
      <3> QED BY <2>1, <3>1, FS_Subset
    <2> QED BY <2>1, <2>2
  <1>8. \A d \in St(v) : v.lease[d].page = g /\ SessionOfLease(v.lease[d]) = listed
    BY <1>2, <1>3, <1>4, <1>5 DEF Leaves, Alike
  <1>9. InstallGood(g, v, v, 0)
    BY <1>5, <1>6, <1>7, <1>8, FollowsItself DEF InstallGood
  <1>10. InstallGood(g, v, u, Len(ControlsOf[g]))
    BY <1>9, InstallPageKeeps DEF u
  <1>11. Follows(t, u) /\ Sound(u, {})
    BY <1>6, <1>10, FollowsTransitively DEF InstallGood, Sound
  <1>12. u.page = g /\ ~u.stopped /\ g # None
    <2>1. g # None
      BY LifecycleAssumption
    <2> QED BY <1>3, <1>4, <1>10, <2>1 DEF InstallGood, Alike, Leaves
  <1> QED BY <1>1, <1>11, <1>12 DEF Handled, Idle

\* Sessions that only leave bindings follow one another.
LEMMA LeavesTransitively ==
    ASSUME NEW t, Sound(t, {}), NEW u, NEW v, Leaves(t, u), Leaves(u, v)
    PROVE  Leaves(t, v)
  <1>1. Follows(t, v)
    BY FollowsTransitively DEF Leaves, Sound
  <1> QED BY <1>1 DEF Leaves

\* A session that is cleared has no bindings and no page.
LEMMA ClearPageKeeps ==
    ASSUME World, NEW t, Sound(t, {})
    PROVE  LET u == ClearPage(t) IN
           /\ Sound(u, {}) /\ u.stored = <<>> /\ u.page = None /\ u.stopped = t.stopped
           /\ FreeIds(t) \subseteq FreeIds(u) /\ Follows(t, u)
  <1> DEFINE v == FoldLeft(LAMBDA x, b : CancelHeld(x, b), t, t.stored)
             w == RevokeExcept(v, {})
             y == DestroyAll(w)
             u == [y EXCEPT !.page = None]
  <1>1. ClearPage(t) = u
    BY DEF ClearPage
  <1>2. Leaves(t, v)
    BY ZenonT(60), EndingsLeave
  <1> HIDE DEF v
  <1>3. Leaves(v, w) /\ St(w) \subseteq {}
    BY <1>2, RevokeExceptLeaves DEF Leaves
  <1> HIDE DEF w
  <1>4. Leaves(w, y) /\ y.stored = w.stored
    <2>1. Sound(w, {}) /\ St(w) = {}
      BY <1>3 DEF Leaves
    <2> QED BY <2>1, DestroyAllLeaves
  <1> HIDE DEF y
  <1>5. Leaves(t, y)
    <2>1. Leaves(t, w)
      BY <1>2, <1>3, LeavesTransitively
    <2> QED BY <1>4, <2>1, LeavesTransitively
  <1>6. y.stored = <<>>
    <2>1. w.stored \in Seq(Ids) /\ ToSet(w.stored) = {}
      BY <1>3 DEF Leaves, Sound, Typed, SessionRecords, St
    <2> DEFINE q == w.stored
    <2> HIDE DEF q
    <2>2. \A k \in 1..Len(q) : q[k] \in ToSet(q)
      BY <2>1 DEF ToSet, q
    <2>3. q = <<>>
      BY <2>1, <2>2 DEF q
    <2> QED BY <1>4, <2>3 DEF q
  <1>7. /\ u \in SessionRecords /\ Alike(y, u) /\ u.page = None
    <2>1. y \in SessionRecords
      BY <1>5 DEF Leaves, Sound, Typed
    <2> QED BY <2>1 DEF SessionRecords, Alike, None
  <1> HIDE DEF u
  <1>8. Sound(u, {}) /\ FreeIds(u) = FreeIds(y)
    BY <1>5, <1>7, AlikeKeeps DEF Leaves
  <1>9. Follows(t, u)
    <2>1. Typed(t) /\ Typed(u) /\ Typed(y)
      BY <1>5, <1>8 DEF Leaves, Sound
    <2>2. Follows(y, u)
      BY <1>7, <2>1, AlikeFollows
    <2> QED BY <1>5, <2>1, <2>2, FollowsTransitively DEF Leaves
  <1> QED BY <1>1, <1>5, <1>6, <1>7, <1>8, <1>9 DEF Leaves, Alike

----------------------------------------------------------------------------
(* Capacity, and the end of the session *)

\* Bindings that are settled may count as not settled.
LEMMA MoreToSettle ==
    ASSUME NEW t, NEW Y, NEW Z, Sound(t, Y), Y \subseteq Z PROVE Sound(t, Z)
  <1>1. Ledger(t, Z)
    BY DEF Sound, Ledger
  <1> QED BY <1>1 DEF Sound

\* An order of a finite set has all of its elements.
LEMMA OrdersAreComplete ==
    ASSUME NEW S, IsFiniteSet(S), NEW q \in SetToSeqs(S)
    PROVE  /\ Len(q) \in Nat /\ DOMAIN q = 1..Len(q)
           /\ \A k \in 1..Len(q) : q[k] \in S
           /\ \A x \in S : \E k \in 1..Len(q) : q[k] = x
  <1> DEFINE n == Cardinality(S)
  <1>1. n \in Nat
    BY FS_CardinalityType
  <1>2. q \in [1..n -> S] /\ \A i, j \in 1..n : i # j => q[i] # q[j]
    BY DEF SetToSeqs
  <1> HIDE DEF n
  <1>3. q \in Injection(1..n, S)
    BY <1>2 DEF Injection, IsInjective
  <1>4. Cardinality(1..n) = n
    <2>1. Cardinality(1..n) = IF 1 > n THEN 0 ELSE n - 1 + 1
      BY <1>1, FS_Interval
    <2> QED BY <1>1, <2>1
  <1>5. q \in Surjection(1..n, S)
    BY <1>3, <1>4, FS_Injection DEF n
  <1>6. Len(q) = n
    <2>1. q \in Seq(S)
      BY <1>1, <1>2
    <2> QED BY <1>1, <1>2, <2>1
  <1> QED BY <1>1, <1>2, <1>5, <1>6 DEF Surjection

\* When nobody waits any more, those that waited are to be activated.
LEMMA WokenKeeps ==
    ASSUME World, NEW t, Sound(t, {}), NEW Y,
           \A d \in t.deferred : UsesCurrentContract(t.lease[d[1]]) /\ HardwareCurrent(t) =>
               d[1] \in Y
    PROVE  LET u == Woken(t) IN
           /\ Sound(u, Y) /\ u.stored = t.stored /\ u.page = t.page /\ u.stopped = t.stopped
           /\ Follows(t, u)
  <1> DEFINE u == Woken(t)
  <1>0. t \in SessionRecords /\ Typed(t)
    BY DEF Sound, Typed
  <1>1. /\ u \in SessionRecords
        /\ u.stored = t.stored /\ u.lease = t.lease /\ u.status = t.status
        /\ u.input = t.input /\ u.authority = t.authority /\ u.held = t.held
        /\ u.ops = t.ops /\ u.queue = t.queue /\ u.stopped = t.stopped /\ u.page = t.page
        /\ u.deferred = {} /\ u.lossy = t.lossy /\ u.rec = t.rec
    BY ZenonT(60), <1>0 DEF Woken, SessionRecords
  <1> HIDE DEF u
  <1>2. St(u) = St(t) /\ Queued(u) = Queued(t) /\ (HardwareCurrent(u) <=> HardwareCurrent(t))
    BY <1>1 DEF St, Queued, HardwareCurrent
  <1>3. Typed(u)
    BY <1>0, <1>1, SameQueuesSameLoads DEF Typed
  <1>4. Grants(u) /\ Crosses(u) /\ Routes(u)
    BY <1>1, <1>2 DEF Sound, Grants, InUse, Crosses, Routes
  <1>5. Ledger(u, Y)
    <2>0. Ledger(t, {})
      BY DEF Sound
    <2>1. /\ \A o \in u.ops : o[2] \in St(u) /\ u.status[o[2]] = "preparing"
          /\ \A o, q \in u.ops : o[2] = q[2] => o = q
      BY <1>1, <1>2, <2>0 DEF Ledger
    <2>2. \A b \in St(u) :
             /\ u.status[b] \in {"none", "preparing", "active", "unavailable"}
             /\ u.status[b] = "active" <=> u.lease[b].ready
             /\ u.lease[b].ready => u.lease[b].attached
      BY <1>1, <1>2, <2>0 DEF Ledger
    <2>3. ASSUME NEW b \in St(u) \ Y
          PROVE  /\ u.status[b] # "none"
                 /\ u.status[b] = "unavailable" =>
                      ~UsesCurrentContract(u.lease[b]) \/ ~HardwareCurrent(u)
      <3>1. /\ t.status[b] # "none"
            /\ t.status[b] = "unavailable" =>
                 \/ \E r \in BOOLEAN : <<b, r>> \in t.deferred
                 \/ ~UsesCurrentContract(t.lease[b]) \/ ~HardwareCurrent(t)
        BY <1>2, <2>0, <2>3 DEF Ledger
      <3>2. \A r : <<b, r>> \in t.deferred =>
                ~UsesCurrentContract(t.lease[b]) \/ ~HardwareCurrent(t)
        <4>1. b \notin Y
          BY <2>3
        <4> QED BY <4>1
      <3> QED BY <1>1, <1>2, <3>1, <3>2
    <2> QED BY <1>1, <2>1, <2>2, <2>3 DEF Ledger
  <1>6. Follows(t, u)
    <2>1. Extends(t, u)
      BY <1>0, <1>1, SameQueueExtends DEF SessionRecords
    <2>2. Continues(t, u)
      BY <1>0, <1>1, <1>2, <1>3, <2>1, MoreContinues
    <2> QED BY <1>0, <1>1, <2>2, SameFollows
  <1> QED BY <1>1, <1>3, <1>4, <1>5, <1>6 DEF Sound, u

\* An activation settles the binding and leaves the others.
LEMMA ActivationSettles ==
    ASSUME World, NEW t, NEW Y, Sound(t, Y), NEW b \in St(t), NEW force \in BOOLEAN
    PROVE  Settles(t, b, Y, Activate(t, b, force))
  <1>1. Follows(t, Activate(t, b, force))
    BY ActivateFollows
  <1> QED BY <1>1, ActivateKeeps DEF Settles

\* The loop over the bindings that have waited for capacity: those after n are still
\* to be activated.
ResumeStep(a, u, d) == Activate(u, d[1], d[2])

ResumeGood(order, t, u, n) ==
    /\ Sound(u, {order[k][1] : k \in (n + 1)..Len(order)})
    /\ u.stored = t.stored /\ u.page = t.page /\ u.stopped = t.stopped
    /\ Follows(t, u)

Resumptions == INSTANCE FoldProofs WITH Step <- ResumeStep, Good <- ResumeGood

\* The bindings that wait are activated in some order; each is settled then.
LEMMA ResumedKeeps ==
    ASSUME World, NEW t, Sound(t, {}), Idle(t), HardwareCurrent(t),
           NEW order \in SetToSeqs({d \in t.deferred : UsesCurrentContract(t.lease[d[1]])})
    PROVE  Handled(t, ActivateAll(Woken(t), order))
  <1> DEFINE live == {d \in t.deferred : UsesCurrentContract(t.lease[d[1]])}
             v == Woken(t)
             len == Len(order)
             u == Resumptions!Folded(order, v, order)
             Rest(n) == {order[k][1] : k \in (n + 1)..len}
  <1>1. ActivateAll(v, order) = u
    BY DEF ActivateAll, Resumptions!Folded, ResumeStep, FoldLeft, MapThenFoldSet, Max, Resumptions!Greatest
  <1>2. Typed(t) /\ t.deferred \subseteq Ids \X BOOLEAN /\ IsFiniteSet(Ids \X BOOLEAN)
    <2>1. IsFiniteSet(BOOLEAN)
      <3>1. IsFiniteSet({TRUE} \union {FALSE}) /\ BOOLEAN = {TRUE} \union {FALSE}
        BY FS_Singleton, FS_AddElement
      <3> QED BY <3>1
    <2>2. IsFiniteSet(Ids)
      <3>1. MaxBindings \in Int
        BY LifecycleAssumption
      <3> QED BY <3>1, FS_Interval DEF Ids
    <2>3. IsFiniteSet(Ids \X BOOLEAN)
      BY <2>1, <2>2, FS_Product
    <2> QED BY <2>3 DEF Sound, Typed, SessionRecords
  <1>3. /\ len \in Nat /\ DOMAIN order = 1..len
        /\ \A k \in 1..len : order[k] \in live
        /\ \A x \in live : \E k \in 1..len : order[k] = x
    <2>1. live \in SUBSET (Ids \X BOOLEAN)
      BY <1>2
    <2>2. IsFiniteSet(live)
      BY <1>2, <2>1, FS_Subset
    <2> QED BY <2>2, OrdersAreComplete
  <1>4. /\ Sound(v, Rest(0)) /\ v.stored = t.stored /\ v.page = t.page /\ v.stopped = t.stopped
        /\ Follows(t, v)
    <2>1. \A d \in t.deferred : UsesCurrentContract(t.lease[d[1]]) => d[1] \in Rest(0)
      BY <1>3
    <2> HIDE DEF Rest
    <2> QED BY <2>1, WokenKeeps
  <1>5. \A k \in 1..len : order[k][1] \in St(t) /\ order[k][2] \in BOOLEAN
    <2>1. \A d \in t.deferred : d[1] \in St(t) /\ d[2] \in BOOLEAN
      BY <1>2 DEF Sound, Ledger
    <2> QED BY <1>3, <2>1
  <1> HIDE DEF u, len, live, v
  <1>6. ResumeGood(order, v, v, 0)
    <2>1. Typed(v)
      BY <1>4 DEF Sound
    <2> QED BY <1>4, <2>1, FollowsItself DEF ResumeGood, len
  <1>7. ASSUME NEW n \in 1..len, NEW x, ResumeGood(order, v, x, n - 1)
        PROVE  ResumeGood(order, v, ResumeStep(order, x, order[n]), n)
    <2> DEFINE b == order[n][1]
               force == order[n][2]
               y == Activate(x, b, force)
    <2>1. /\ Sound(x, Rest(n - 1)) /\ x.stored = v.stored /\ x.page = v.page
          /\ x.stopped = v.stopped /\ Follows(v, x)
      BY <1>7 DEF ResumeGood, len
    <2>2. b \in St(x) /\ force \in BOOLEAN
      BY <1>4, <1>5, <2>1 DEF St
    <2>3. Rest(n - 1) \ {b} \subseteq Rest(n)
      BY <1>3
    <2> HIDE DEF b, force, Rest
    <2>4. /\ Sound(y, Rest(n - 1) \ {b}) /\ y.stored = x.stored /\ y.page = x.page
          /\ y.stopped = x.stopped /\ Follows(x, y)
      <3>1. Sound(x, Rest(n - 1))
        BY <2>1
      <3>2. Settles(x, b, Rest(n - 1), y)
        BY <2>2, <3>1, ActivationSettles DEF y
      <3> QED BY <3>2 DEF Settles
    <2> HIDE DEF y
    <2>5. Sound(y, Rest(n))
      BY <2>3, <2>4, MoreToSettle
    <2>6. Follows(v, y)
      BY <1>4, <2>1, <2>4, FollowsTransitively DEF Sound
    <2>7. ResumeGood(order, v, y, n)
      BY <2>1, <2>4, <2>5, <2>6 DEF ResumeGood, Rest, len
    <2> QED BY <2>7 DEF ResumeStep, y, b, force
  <1>8. ResumeGood(order, v, u, len)
    BY <1>3, <1>6, <1>7, LeastNatural, Resumptions!FoldKeeps DEF u, Resumptions!WellOrdered
  <1>9. Sound(u, {})
    <2>1. (len + 1)..Len(order) = {}
      BY <1>3 DEF len
    <2>2. {order[k][1] : k \in (len + 1)..Len(order)} = {}
      BY <2>1
    <2> QED BY <1>8, <2>2 DEF ResumeGood
  <1>10. Follows(t, u)
    BY <1>2, <1>4, <1>8, <1>9, FollowsTransitively DEF ResumeGood, Sound
  <1>11. Idle(u)
    BY <1>4, <1>8 DEF ResumeGood, Idle
  <1> QED BY <1>1, <1>9, <1>10, <1>11 DEF Handled, v

\* A session that stops is one that has lost its hardware.
LEMMA StoppedKeeps ==
    ASSUME World, NEW t, Sound(t, {})
    PROVE  LET u == [t EXCEPT !.stopped = TRUE] IN Sound(u, {}) /\ u.stopped /\ Follows(t, u)
  <1> DEFINE u == [t EXCEPT !.stopped = TRUE]
  <1>0. t \in SessionRecords /\ Typed(t)
    BY DEF Sound, Typed
  <1>1. /\ u \in SessionRecords /\ u.stopped
        /\ u.stored = t.stored /\ u.lease = t.lease /\ u.status = t.status
        /\ u.input = t.input /\ u.authority = t.authority /\ u.held = t.held
        /\ u.ops = t.ops /\ u.queue = t.queue /\ u.page = t.page
        /\ u.deferred = t.deferred /\ u.wake = t.wake /\ u.lossy = t.lossy
        /\ u.rec = t.rec
    BY <1>0 DEF SessionRecords
  <1> HIDE DEF u
  <1>2. St(u) = St(t) /\ Queued(u) = Queued(t) /\ ~HardwareCurrent(u)
    BY <1>1 DEF St, Queued, HardwareCurrent
  <1>3. Typed(u)
    BY <1>0, <1>1, SameQueuesSameLoads DEF Typed
  <1>4. Grants(u) /\ Crosses(u) /\ Routes(u)
    BY <1>1, <1>2 DEF Sound, Grants, InUse, Crosses, Routes
  <1>5. Ledger(u, {})
    <2>1. Ledger(t, {})
      BY DEF Sound
    <2> QED BY <1>1, <1>2, <2>1, SameLedger
  <1>6. Follows(t, u)
    <2>1. Extends(t, u)
      BY <1>0, <1>1, SameQueueExtends DEF SessionRecords
    <2>2. Continues(t, u)
      BY <1>0, <1>1, <1>2, <1>3, <2>1, MoreContinues
    <2> QED BY <1>0, <1>1, <2>2, SameFollows
  <1> QED BY <1>1, <1>3, <1>4, <1>5, <1>6 DEF Sound, u

\* aclose leaves an empty session, with no operation in the ledger.
LEMMA StopKeeps ==
    ASSUME World, NEW t, Sound(t, {})
    PROVE  LET u == [ClearPage([t EXCEPT !.stopped = TRUE]) EXCEPT !.ops = {}] IN Handled(t, u)
  <1> DEFINE v == [t EXCEPT !.stopped = TRUE]
             w == ClearPage(v)
             u == [w EXCEPT !.ops = {}]
  <1>1. Sound(v, {}) /\ v.stopped /\ Follows(t, v)
    BY StoppedKeeps
  <1> HIDE DEF v
  <1>2. Sound(w, {}) /\ w.stored = <<>> /\ Follows(v, w)
    BY <1>1, ClearPageKeeps
  <1> HIDE DEF w
  <1>3. w \in SessionRecords /\ St(w) = {} /\ Typed(w)
    BY <1>2 DEF Sound, Typed, St, ToSet
  <1>4. /\ u \in SessionRecords
        /\ u.stored = w.stored /\ u.lease = w.lease /\ u.status = w.status
        /\ u.input = w.input /\ u.authority = w.authority /\ u.held = w.held
        /\ u.ops = {} /\ u.queue = w.queue /\ u.deferred = w.deferred /\ u.lossy = w.lossy
        /\ u.rec = w.rec
    BY <1>3 DEF SessionRecords
  <1> HIDE DEF u
  <1>5. St(u) = {} /\ Queued(u) = Queued(w)
    BY <1>3, <1>4 DEF St, Queued
  <1>6. Typed(u)
    BY <1>3, <1>4, SameQueuesSameLoads, FS_EmptySet DEF Typed
  <1>7. Grants(u) /\ Crosses(u) /\ Routes(u)
    BY <1>2, <1>3, <1>4, <1>5 DEF Sound, Grants, InUse, Crosses, Routes
  <1>8. Ledger(u, {})
    <2>1. Ledger(w, {})
      BY <1>2 DEF Sound
    <2> QED BY <1>3, <1>4, <1>5, <2>1 DEF Ledger
  <1>9. Follows(w, u)
    <2>1. Extends(w, u)
      BY <1>3, <1>4, SameQueueExtends DEF SessionRecords
    <2>2. Continues(w, u)
      BY <1>3, <1>4, <1>5, <1>6, <2>1, MoreContinues
    <2> QED BY <1>3, <1>4, <2>2, SameFollows
  <1>10. Follows(t, u)
    BY <1>1, <1>2, <1>3, <1>6, <1>9, FollowsTransitively DEF Sound
  <1> QED BY <1>2, <1>4, <1>6, <1>7, <1>8, <1>10 DEF Handled, Idle, Sound, u, w, v

----------------------------------------------------------------------------
(* Inputs *)

\* A section that follows another one.
LEMMA HandledTransitively ==
    ASSUME NEW t, NEW u, NEW v, Sound(t, {}), Handled(t, u), Handled(u, v)
    PROVE  Handled(t, v)
  BY FollowsTransitively DEF Handled, Sound

\* A step of a section that follows another one.
LEMMA KeptTransitively ==
    ASSUME NEW t, NEW u, NEW v, Sound(t, {}), Kept(t, u), Kept(u, v)
    PROVE  Kept(t, v)
  BY ContinuesTransitively DEF Kept, Sound

\* A step that leaves the interactions, the leases and the queues alone is a section.
LEMMA KeptIsHandled ==
    ASSUME NEW t, NEW u, Kept(t, u), u.queue = t.queue, u.lossy = t.lossy,
           u.held = t.held, u.lease = t.lease, u.stored = t.stored
    PROVE  Handled(t, u)
  <1>1. ASSUME Tidy(t, {}) PROVE Tidy(u, {})
    BY <1>1, SameIsTidy
  <1>2. Follows(t, u)
    BY <1>1 DEF Kept, Follows
  <1> QED BY <1>2 DEF Kept, Handled

\* Whatever is held, as long as it is held by a stored binding of that control.
LEMMA HandsAreKept ==
    ASSUME World, NEW t, Sound(t, {}), Idle(t), NEW u \in SessionRecords, Hands(t, u),
           \A c \in Controls : u.held[c] # None =>
               u.held[c] \in St(t) /\ t.lease[u.held[c]].ctl = c,
           u.rec = t.rec \/ (Housed(t, Standing) => Housed(u, Standing))
    PROVE  Kept(t, u)
  <1>0. Typed(t) /\ t \in SessionRecords
    BY DEF Sound, Typed
  <1>1. St(u) = St(t) /\ Queued(u) = Queued(t) /\ (HardwareCurrent(u) <=> HardwareCurrent(t))
    BY DEF St, Queued, HardwareCurrent, Hands
  <1>2. Typed(u)
    BY <1>0, SameQueuesSameLoads DEF Typed, Hands
  <1>3. Grants(u) /\ Crosses(u)
    BY <1>1 DEF Sound, Grants, InUse, Crosses, Hands
  <1>4. Routes(u)
    BY <1>1 DEF Sound, Routes, Hands
  <1>5. Ledger(u, {})
    <2>1. Ledger(t, {})
      BY DEF Sound
    <2> QED BY <1>1, <2>1, SameLedger DEF Hands
  <1>6. Continues(t, u)
    <2>1. Extends(t, u)
      BY <1>0, SameQueueExtends DEF SessionRecords, Hands
    <2> QED BY <1>0, <1>1, <1>2, <2>1, MoreContinues DEF Hands
  <1>7. Idle(u)
    BY DEF Idle, Hands
  <1>8. ASSUME Housed(t, Standing), u.rec = t.rec PROVE Housed(u, Standing)
    <2>1. /\ u.queue = t.queue /\ u.lossy = t.lossy /\ u.lease = t.lease /\ u.ops = t.ops
          /\ Standing \subseteq p.attached
      BY DEF Hands, Standing
    <2> QED BY <1>0, <1>1, <1>8, <2>1, SameIsHoused
  <1> QED BY <1>2, <1>3, <1>4, <1>5, <1>6, <1>7, <1>8 DEF Kept, Sound

\* An effect that concerns a stored binding is submitted.
LEMMA OfIsKept ==
    ASSUME World, NEW t, Sound(t, {}), Idle(t), NEW b \in St(t),
           NEW kind \in {"down", "up", "cancel", "detach"}
    PROVE  LET u == Submit(t, t.lease[b].inst, Of(kind, b)) IN
           Kept(t, u) /\ u.stored = t.stored /\ u.lease = t.lease
  <1> DEFINE e == Of(kind, b)
             i == t.lease[b].inst
             u == Submit(t, i, e)
  <1>1. e \in Effects /\ e.kind = kind /\ e.b = b /\ b \in Ids /\ Granted(t.lease[b]) /\ i \in Instances
    BY OfIsEffect, StoredAreGranted DEF Granted, Of, Effect
  <1> HIDE DEF e, i
  <1>2. Sound(u, {}) /\ OnlyQueues(t, u)
    BY <1>1, SubmitKeeps
  <1>3. Continues(t, u)
    BY <1>1, SubmitContinues DEF Sound
  <1>4. ASSUME Housed(t, Standing) PROVE Housed(u, Standing)
    <2>1. Standing \subseteq p.attached /\ Typed(t) /\ Grants(t)
      BY DEF Standing, Sound
    <2> QED BY <1>1, <1>4, <2>1, HousedSubmit
  <1> HIDE DEF u
  <1>5. Kept(t, u) /\ u.stored = t.stored /\ u.lease = t.lease
    BY <1>2, <1>3, <1>4 DEF Kept, OnlyQueues, Idle
  <1> QED BY <1>5 DEF u, e, i

\* The held interaction of a stored binding ends.
LEMMA CancelHeldIsKept ==
    ASSUME World, NEW t, Sound(t, {}), Idle(t), NEW b \in St(t)
    PROVE  LET u == CancelHeld(t, b) IN
           Kept(t, u) /\ u.stored = t.stored /\ u.lease = t.lease
  <1> DEFINE u == CancelHeld(t, b)
  <1>1. /\ Sound(u, {}) /\ u.stored = t.stored /\ u.lease = t.lease
        /\ u.page = t.page /\ u.stopped = t.stopped
    BY CancelHeldKeeps
  <1>2. Continues(t, u)
    BY CancelHeldContinues
  <1>3. ASSUME Housed(t, Standing) PROVE Housed(u, Standing)
    <2>1. Standing \subseteq p.attached
      BY DEF Standing
    <2> QED BY <1>3, <2>1, CancelHeldHoused
  <1> HIDE DEF u
  <1>4. Kept(t, u) /\ u.stored = t.stored /\ u.lease = t.lease
    BY <1>1, <1>2, <1>3 DEF Kept, Idle
  <1> QED BY <1>4 DEF u

\* A press that is taken is held from then on.
LEMMA HoldingIsKept ==
    ASSUME World, NEW t, Sound(t, {}), Idle(t), NEW b \in St(t)
    PROVE  LET u == Holding(t, b) IN
           /\ Kept(t, u) /\ Hands(t, u)
           /\ \A x \in Controls : u.held[x] = IF x = t.lease[b].ctl THEN b ELSE t.held[x]
  <1> DEFINE c == t.lease[b].ctl
             held == [t.held EXCEPT ![c] = b]
             u == Holding(t, b)
  <1>1. t \in SessionRecords /\ b \in Ids /\ c \in Controls
    BY StoredAreGranted DEF Sound, Typed, Granted
  <1>2. held \in [Controls -> Ids \union {None}]
        /\ \A x \in Controls : held[x] = IF x = c THEN b ELSE t.held[x]
    BY <1>1 DEF SessionRecords
  <1> HIDE DEF held, c
  <1>3. u = [t EXCEPT !.held = held]
    BY <1>1 DEF held, SessionRecords, Holding, c
  <1> HIDE DEF u
  <1>4. u \in SessionRecords /\ Hands(t, u) /\ u.held = held /\ u.rec = t.rec
    BY <1>1, <1>2, <1>3 DEF SessionRecords, Hands
  <1>5. ASSUME NEW x \in Controls, u.held[x] # None
        PROVE  u.held[x] \in St(t) /\ t.lease[u.held[x]].ctl = x
    <2>1. t.held[x] # None => t.held[x] \in St(t) /\ t.lease[t.held[x]].ctl = x
      BY DEF Sound, Routes
    <2>2. t.lease[b].ctl = c
      BY DEF c
    <2> QED BY <1>2, <1>4, <1>5, <2>1, <2>2
  <1>6. Kept(t, u)
    BY <1>4, <1>5, HandsAreKept
  <1> QED BY <1>2, <1>4, <1>6 DEF u, c

\* What is held on c is let go of.
LEMMA TakenIsKept ==
    ASSUME World, NEW t, Sound(t, {}), Idle(t), NEW c \in Controls
    PROVE  LET u == Taken(t, c) IN
           /\ Kept(t, u) /\ Hands(t, u)
           /\ \A x \in Controls : u.held[x] = IF x = c THEN None ELSE t.held[x]
  <1> DEFINE held == [t.held EXCEPT ![c] = None]
             u == Taken(t, c)
  <1>1. t \in SessionRecords
    BY DEF Sound, Typed
  <1>2. held \in [Controls -> Ids \union {None}]
        /\ \A x \in Controls : held[x] = IF x = c THEN None ELSE t.held[x]
    BY <1>1 DEF SessionRecords
  <1>3. u = [t EXCEPT !.held = held, !.suppressed = @ \union {c}]
    BY <1>1 DEF Taken, SessionRecords
  <1> HIDE DEF held, u
  <1>4. u \in SessionRecords /\ Hands(t, u) /\ u.held = held /\ u.rec = t.rec
    BY ZenonT(60), <1>1, <1>2, <1>3 DEF SessionRecords, Hands
  <1>5. \A x \in Controls : t.held[x] # None =>
            t.held[x] \in St(t) /\ t.lease[t.held[x]].ctl = x
    BY DEF Sound, Routes
  <1>6. \A x \in Controls : u.held[x] # None =>
            u.held[x] \in St(t) /\ t.lease[u.held[x]].ctl = x
    BY <1>2, <1>4, <1>5
  <1>7. Kept(t, u)
    BY <1>4, <1>6, HandsAreKept
  <1> QED BY <1>2, <1>4, <1>7 DEF u

\* A release may be looked for again.
LEMMA ExpectingIsHandled ==
    ASSUME World, NEW t, Sound(t, {}), Idle(t), NEW c \in Controls
    PROVE  LET u == [t EXCEPT !.suppressed = @ \ {c}] IN
           Handled(t, u) /\ u.stored = t.stored /\ u.lease = t.lease /\ u.input = t.input
  <1>1. t \in SessionRecords
    BY DEF Sound, Typed
  <1>2. ASSUME NEW u, u = [t EXCEPT !.suppressed = @ \ {c}]
        PROVE  /\ Handled(t, u) /\ u.stored = t.stored /\ u.lease = t.lease
               /\ u.input = t.input
    <2>1. u \in SessionRecords /\ Hands(t, u) /\ u.held = t.held /\ u.rec = t.rec
      BY <1>1, <1>2 DEF SessionRecords, Hands
    <2>2. \A x \in Controls : u.held[x] # None =>
              u.held[x] \in St(t) /\ t.lease[u.held[x]].ctl = x
      BY <2>1 DEF Sound, Routes
    <2>3. Kept(t, u)
      BY <2>1, <2>2, HandsAreKept
    <2> QED BY <2>1, <2>3, KeptIsHandled DEF Hands
  <1> QED BY <1>2

\* _deliver_input_to_lease keeps a session sound, also when the reserve is full.
LEMMA DeliverIsKept ==
    ASSUME World, NEW t, Sound(t, {}), Idle(t), NEW b \in St(t), NEW event \in {"down", "up"}
    PROVE  Kept(t, Deliver(t, b, event))
  <1> DEFINE u == IF event = "down" THEN Holding(t, b) ELSE t
             v == CancelHeld(u, b)
             i == t.lease[b].inst
  <1>1. Kept(t, u) /\ u.stored = t.stored /\ u.lease = t.lease
    <2>1. CASE event = "down"
      BY <2>1, HoldingIsKept DEF Hands
    <2>2. CASE event # "down"
      BY <2>2, ContinuesItself DEF Kept, Sound
    <2> QED BY <2>1, <2>2
  <1> HIDE DEF u
  <1>2. Sound(u, {}) /\ Idle(u) /\ b \in St(u) /\ i = u.lease[b].inst
    BY <1>1 DEF Kept, St
  <1>3. Kept(u, Submit(u, i, Of(event, b)))
    BY <1>2, OfIsKept
  <1>4. Kept(u, v) /\ v.stored = u.stored /\ v.lease = u.lease
    BY <1>2, CancelHeldIsKept
  <1> HIDE DEF v
  <1>5. Sound(v, {}) /\ Idle(v) /\ b \in St(v) /\ i = v.lease[b].inst
    BY <1>2, <1>4 DEF Kept, St
  <1>6. Kept(v, Submit(v, i, Of("cancel", b)))
    BY <1>5, OfIsKept
  <1>7. /\ Kept(t, Submit(u, i, Of(event, b))) /\ Kept(t, v)
        /\ Kept(t, Submit(v, i, Of("cancel", b)))
    BY <1>1, <1>2, <1>3, <1>4, <1>6, KeptTransitively
  <1>8. Deliver(t, b, event) \in
            {Submit(u, i, Of(event, b)), Submit(v, i, Of("cancel", b)), v}
    BY DEF Deliver, Holding, u, v
  <1> QED BY <1>7, <1>8

\* A press is queued with its binding holding it, or is cancelled at once.
LEMMA PressTidy ==
    ASSUME World, NEW t, Sound(t, {}), Idle(t), NEW b \in St(t), t.lease[b].attached,
           Tidy(t, {})
    PROVE  Tidy(Deliver(t, b, "down"), {})
  <1> DEFINE c == t.lease[b].ctl
             i == t.lease[b].inst
             u == Holding(t, b)
  <1>1. /\ Kept(t, u) /\ Hands(t, u)
        /\ \A x \in Controls : u.held[x] = IF x = c THEN b ELSE t.held[x]
    BY HoldingIsKept
  <1>2. b \in Ids /\ i \in Instances /\ c \in Controls /\ Typed(t) /\ Routes(t)
    BY StoredAreGranted DEF Granted, Sound
  <1>3. Deliver(t, b, "down") \in {Submit(u, i, Of("down", b)), CancelHeld(u, b)}
    BY DEF Deliver, Holding
  <1> HIDE DEF u, c
  <1>4. /\ u.queue = t.queue /\ u.lossy = t.lossy /\ u.lease = t.lease /\ St(u) = St(t)
        /\ Sound(u, {}) /\ Typed(u) /\ Grants(u)
    BY <1>1 DEF Hands, Kept, Sound, St
  <1>5. PICK B : B = {}
    OBVIOUS
  <1>6. Tidy(u, B)
    <2>1. ASSUME NEW d \in Ids, t.held[t.lease[d].ctl] = d, InUse(t, d)
          PROVE  u.held[t.lease[d].ctl] = d
      <3>1. t.lease[d].ctl \in Controls /\ d # None
        BY <2>1 DEF Sound, Grants, Granted, Ids, None
      <3>2. d \in St(t)
        BY <1>2, <2>1, <3>1 DEF Routes
      <3>3. t.lease[d].ctl = t.lease[b].ctl => d = b
        BY <1>2, <3>2 DEF Routes
      <3> QED BY <1>1, <2>1, <3>1, <3>3 DEF c
    <2>2. \A x \in Controls : u.held[x] # None => u.lease[u.held[x]].attached
      BY <1>1, <1>4 DEF Tidy
    <2>3. \A d \in St(u) : u.lease[d].ready /\ UsesCurrentContract(u.lease[d]) => d \in p.attached
      BY <1>4 DEF Tidy
    <2>4. Tidy(t, B) /\ B \subseteq B
      BY <1>5
    <2> QED BY <1>2, <1>4, <2>1, <2>2, <2>3, <2>4, TidyStays
  <1>7. Tidy(CancelHeld(u, b), {})
    <2>1. b \in St(u) /\ B \subseteq {b} /\ ~(B # {})
      BY <1>4, <1>5
    <2> QED BY <1>4, <1>6, <2>1, CancelHeldTidy
  <1>8. Tidy(Submit(u, i, Of("down", b)), {})
    <2>1. PICK e : e = Of("down", b)
      OBVIOUS
    <2>2. e \in Effects /\ e.kind = "down" /\ e.b = b
      BY <1>2, <2>1, OfIsEffect DEF Of, Effect
    <2>3. Undetached(u, b)
      BY <1>4, <1>6, StoredUndetached
    <2>4. Settling(u, e, B, B)
      BY DEF Settling
    <2>5. u.held[u.lease[b].ctl] = b /\ u.lease[b].inst = i
      BY <1>1, <1>2, <1>4 DEF c
    <2> HIDE DEF i
    <2>6. Tidy(Submit(u, i, e), B)
      BY <1>2, <1>4, <1>6, <2>2, <2>3, <2>4, <2>5, TidySubmit
    <2> QED BY <1>5, <2>1, <2>6
  <1> QED BY <1>3, <1>7, <1>8

\* What is let go of is released, or cancelled when there is no room for that.
LEMMA ReleaseTidy ==
    ASSUME World, NEW t, Sound(t, {}), Idle(t), NEW c \in Controls, t.held[c] # None,
           Tidy(t, {})
    PROVE  Tidy(Deliver(Taken(t, c), t.held[c], "up"), {})
  <1> DEFINE b == t.held[c]
             i == t.lease[b].inst
             u == Taken(t, c)
  <1>1. /\ Kept(t, u) /\ Hands(t, u)
        /\ \A x \in Controls : u.held[x] = IF x = c THEN None ELSE t.held[x]
    BY TakenIsKept
  <1>2. b \in St(t) /\ t.lease[b].ctl = c /\ Typed(t)
    BY DEF Sound, Routes
  <1>3. b \in Ids /\ i \in Instances
    BY <1>2, StoredAreGranted DEF Granted
  <1> HIDE DEF u
  <1>4. /\ u.queue = t.queue /\ u.lossy = t.lossy /\ u.lease = t.lease /\ St(u) = St(t)
        /\ Typed(u) /\ Grants(u)
    BY <1>1 DEF Hands, Kept, Sound, St
  <1>5. CancelHeld(u, b) = u
    <2>1. u.held[u.lease[b].ctl] # b
      BY <1>1, <1>2, <1>3, <1>4 DEF Ids, None
    <2> HIDE DEF b
    <2> QED BY <2>1 DEF CancelHeld
  <1>6. Deliver(u, b, "up") = IF Room(u, Of("up", b)) THEN Submit(u, i, Of("up", b))
                              ELSE Submit(u, i, Of("cancel", b))
    BY <1>4, <1>5 DEF Deliver
  <1> HIDE DEF b
  <1>7. PICK B : B = {b}
    OBVIOUS
  <1>8. Tidy(u, B)
    <2>1. ASSUME NEW d \in Ids, d \notin B, t.held[t.lease[d].ctl] = d, InUse(t, d)
          PROVE  u.held[t.lease[d].ctl] = d
      <3>1. t.lease[d].ctl \in Controls
        BY <2>1 DEF Sound, Grants, Granted
      <3>2. t.lease[d].ctl # c
        BY <1>7, <2>1 DEF b
      <3> QED BY <1>1, <2>1, <3>1, <3>2
    <2>2. \A x \in Controls : u.held[x] # None => u.lease[u.held[x]].attached
      BY <1>1, <1>4 DEF Tidy
    <2>3. \A d \in St(u) : u.lease[d].ready /\ UsesCurrentContract(u.lease[d]) => d \in p.attached
      BY <1>4 DEF Tidy
    <2>4. PICK A : A = {}
      OBVIOUS
    <2>5. Tidy(t, A) /\ A \subseteq B
      BY <2>4
    <2> QED BY <1>2, <1>4, <2>1, <2>2, <2>3, <2>5, TidyStays
  <1>9. Undetached(u, b) /\ u.lease[b].inst = i
    <2>1. b \in St(u)
      BY <1>2, <1>4
    <2> QED BY <1>4, <1>8, <2>1, StoredUndetached
  <1> HIDE DEF i
  <1>10. CASE Room(u, Of("up", b))
    <2>1. PICK e : e = Of("up", b)
      OBVIOUS
    <2>2. e \in Effects /\ e.kind = "up" /\ e.b = b
      BY <1>3, <2>1, OfIsEffect DEF Of, Effect
    <2>3. PICK C : C = B \ {e.b}
      OBVIOUS
    <2>4. Settling(u, e, B, C)
      BY <1>10, <2>1, <2>2, <2>3 DEF Settling
    <2>5. Tidy(Submit(u, i, e), C)
      BY <1>3, <1>4, <1>8, <1>9, <2>2, <2>4, TidySubmit
    <2>6. C = {}
      BY <1>7, <2>2, <2>3
    <2> QED BY <1>6, <1>10, <2>1, <2>5, <2>6 DEF u, b
  <1>11. CASE ~Room(u, Of("up", b))
    <2>1. Tidy(u, {b})
      BY <1>7, <1>8
    <2>2. Tidy(Submit(u, i, Of("cancel", b)), {})
      BY <1>3, <1>4, <1>9, <2>1, TidyCancel
    <2> QED BY <1>6, <1>11, <2>2 DEF u, b
  <1> QED BY <1>10, <1>11

\* A press is a section,
LEMMA PressIsHandled ==
    ASSUME World, NEW t, Sound(t, {}), Idle(t), NEW b \in St(t), t.lease[b].attached
    PROVE  Handled(t, Deliver(t, b, "down"))
  <1>1. Kept(t, Deliver(t, b, "down"))
    BY DeliverIsKept
  <1>2. ASSUME Tidy(t, {}) PROVE Tidy(Deliver(t, b, "down"), {})
    BY <1>2, PressTidy
  <1> QED BY <1>1, <1>2 DEF Kept, Handled, Follows

\* and so is a release.
LEMMA ReleaseIsHandled ==
    ASSUME World, NEW t, Sound(t, {}), Idle(t), NEW c \in Controls, t.held[c] # None
    PROVE  Handled(t, Deliver(Taken(t, c), t.held[c], "up"))
  <1> DEFINE u == Taken(t, c)
             b == t.held[c]
  <1>1. Kept(t, u) /\ Hands(t, u)
    BY TakenIsKept
  <1>2. b \in St(t)
    BY DEF Sound, Routes
  <1> HIDE DEF u, b
  <1>3. Sound(u, {}) /\ Idle(u) /\ b \in St(u)
    BY <1>1, <1>2 DEF Kept, Hands, St
  <1>4. Kept(u, Deliver(u, b, "up"))
    BY <1>3, DeliverIsKept
  <1>5. Kept(t, Deliver(u, b, "up"))
    BY <1>1, <1>4, KeptTransitively
  <1>6. ASSUME Tidy(t, {}) PROVE Tidy(Deliver(u, b, "up"), {})
    BY <1>6, ReleaseTidy DEF u, b
  <1>7. Handled(t, Deliver(u, b, "up"))
    BY <1>5, <1>6 DEF Kept, Handled, Follows
  <1> QED BY <1>7 DEF u, b

----------------------------------------------------------------------------
(* The stages of a preparation *)

\* The instance of a creation that is answered exists, and is not to be destroyed.
LEMMA AcceptedHoused ==
    ASSUME Typed(s), NEW i \in Instances, at[i] = "accept", NEW A, Housed(s, A),
           s.rec[i].meta = Head(s.queue[i]).meta,
           s.rec[i].contract = CurrentContract(s.rec[i].session)
    PROVE  Housed([s EXCEPT !.rec[i].started = TRUE], A)
  <1> DEFINE u == [s EXCEPT !.rec[i].started = TRUE]
  <1>1. /\ s.rec \in [Instances -> Records] /\ s.queue \in [Instances -> Seq(Effects)]
        /\ s \in SessionRecords
    BY DEF Typed, SessionRecords
  <1>2. /\ u.queue = s.queue /\ u.lossy = s.lossy /\ u.lease = s.lease /\ u.stored = s.stored
        /\ u.ops = s.ops
        /\ \A j \in Instances : j # i => u.rec[j] = s.rec[j]
        /\ u.rec[i].meta = s.rec[i].meta /\ u.rec[i].contract = s.rec[i].contract
        /\ u.rec[i].session = s.rec[i].session
    BY <1>1 DEF SessionRecords, Records
  <1> HIDE DEF u
  <1>3. ASSUME NEW b, NEW k PROVE Detached(u, b, k) <=> Detached(s, b, k)
    BY <1>2 DEF Detached
  <1>4. /\ s.queue[i] # <<>> /\ Head(s.queue[i]).kind = "prepare"
        /\ (agreement # None /\ s.rec[i].contract = agreement) => i \in p.created
    <2>1. Registered(s, i)
      BY DEF Housed
    <2>2. /\ s.queue[i] # <<>> /\ Head(s.queue[i]).kind = "prepare"
          /\ (/\ Head(s.queue[i]).meta = s.rec[i].meta
              /\ agreement # None /\ s.rec[i].contract = agreement) => i \in p.created
      BY SMTT(30), <2>1 DEF Registered
    <2> QED BY <2>2
  <1>5. \A b \in A : Sheltered(u, b)
    <2> SUFFICES ASSUME NEW b \in A PROVE Sheltered(u, b)
      OBVIOUS
    <2>1. Sheltered(s, b)
      BY DEF Housed
    <2>2. \A k \in Nat : Detached(u, b, k) <=> Detached(s, b, k)
      BY <1>3
    <2> QED BY <1>2, <2>1, <2>2 DEF Sheltered, St
  <1>6. ASSUME NEW k \in DOMAIN s.queue[i] PROVE s.queue[i][k].kind # "destroy"
    <2>1. InPlace(s, A, i, k, s.queue[i][k])
      BY DEF Housed
    <2>2. s.queue[i] \in Seq(Effects)
      BY <1>1
    <2>3. 1 \in DOMAIN s.queue[i] /\ s.queue[i][1] = Head(s.queue[i]) /\ k \in Nat /\ (k = 1 \/ 1 < k)
      BY <1>4, <2>2
    <2>4. ASSUME s.queue[i][k].kind = "destroy" PROVE FALSE
      <3>1. Emptied(s, A, i, k)
        BY <2>1, <2>4 DEF InPlace
      <3>2. k # 1
        BY <1>4, <2>3, <2>4
      <3>3. s.queue[i][1].kind = "prepare" /\ s.queue[i][1].meta = s.rec[i].meta /\ 1 < k
        BY <1>4, <2>3, <3>2
      <3> QED BY <2>3, <3>1, <3>3 DEF Emptied
    <2> QED BY <2>4
  <1>7. ASSUME NEW j \in Instances, NEW k \in DOMAIN u.queue[j]
        PROVE  InPlace(u, A, j, k, u.queue[j][k])
    <2> DEFINE x == s.queue[j][k]
    <2>1. InPlace(s, A, j, k, x) /\ u.queue[j][k] = x
      BY <1>2 DEF Housed
    <2>2. x.kind = "destroy" => j # i
      BY <1>2, <1>6
    <2> HIDE DEF x
    <2>3. x.kind = "destroy" => Emptied(u, A, j, k)
      <3> SUFFICES ASSUME x.kind = "destroy" PROVE Emptied(u, A, j, k)
        OBVIOUS
      <3>1. Emptied(s, A, j, k) /\ u.rec[j] = s.rec[j]
        BY <1>2, <2>1, <2>2 DEF InPlace
      <3>2. \A b : Detached(u, b, k) <=> Detached(s, b, k)
        BY <1>3
      <3> QED BY <1>2, <3>1, <3>2 DEF Emptied
    <2>4. u.rec[j].meta = s.rec[j].meta /\ u.rec[j].contract = s.rec[j].contract
      BY <1>2
    <2>5. IsDue(u, x) <=> IsDue(s, x)
      BY <1>2 DEF IsDue
    <2> QED BY <2>1, <2>3, <2>4, <2>5 DEF InPlace
  <1>8. ASSUME NEW j \in Instances PROVE Registered(u, j)
    <2>1. Registered(s, j)
      BY DEF Housed
    <2>2. u.rec[j].meta = s.rec[j].meta /\ u.rec[j].contract = s.rec[j].contract
      BY <1>2
    <2>3. (u.rec[j].started /\ agreement # None /\ u.rec[j].contract = agreement) => j \in p.created
      BY <1>2, <1>4, <2>1 DEF Registered
    <2> QED BY <1>2, <2>1, <2>2, <2>3 DEF Registered, IsDue
  <1>9. Housed(u, A)
    BY <1>5, <1>7, <1>8 DEF Housed
  <1> QED BY <1>9 DEF u

\* A creation that is answered is taken in.
LEMMA AcceptedIsHandled ==
    ASSUME World, Sound(s, {}), Idle(s), NEW i \in Instances, at[i] = "accept", NEW meta,
           meta = Head(s.queue[i]).meta
    PROVE  LET u == Accepted(i, meta) IN
           Handled(s, u) /\ u.stored = s.stored /\ u.lease = s.lease /\ u.queue = s.queue
  <1>1. s \in SessionRecords
    BY DEF Sound, Typed
  <1>2. CASE Accepted(i, meta) = s
    BY <1>2, FollowsItself DEF Handled, Sound
  <1>3. ASSUME IsCurrentInstance(s, i, meta), NEW u, u = [s EXCEPT !.rec[i].started = TRUE]
        PROVE  Handled(s, u) /\ u.stored = s.stored /\ u.lease = s.lease /\ u.queue = s.queue
    <2> DEFINE rec == [s.rec EXCEPT ![i].started = TRUE]
    <2>1. rec \in [Instances -> Records]
      <3>1. s.rec \in [Instances -> Records]
        BY <1>1 DEF SessionRecords
      <3> QED BY <3>1 DEF Records
    <2>2. u = [s EXCEPT !.rec = rec]
      BY <1>1, <1>3 DEF SessionRecords
    <2> HIDE DEF rec
    <2>3. u \in SessionRecords /\ Hands(s, u) /\ u.held = s.held
      BY <1>1, <2>1, <2>2 DEF SessionRecords, Hands
    <2>4. \A c \in Controls : u.held[c] # None =>
              u.held[c] \in St(s) /\ s.lease[u.held[c]].ctl = c
      BY <2>3 DEF Sound, Routes
    <2>5. ASSUME Housed(s, Standing) PROVE Housed(u, Standing)
      <3>1. /\ Typed(s) /\ s.rec[i].meta = Head(s.queue[i]).meta
            /\ s.rec[i].contract = CurrentContract(s.rec[i].session)
        BY <1>3 DEF Sound, IsCurrentInstance
      <3> QED BY <1>3, <2>5, <3>1, AcceptedHoused
    <2>6. Kept(s, u)
      BY <2>3, <2>4, <2>5, HandsAreKept
    <2> QED BY <2>3, <2>6, KeptIsHandled DEF Hands
  <1>4. CASE Accepted(i, meta) # s
    <2>1. IsCurrentInstance(s, i, meta) /\ Accepted(i, meta) = [s EXCEPT !.rec[i].started = TRUE]
      BY <1>4 DEF Accepted
    <2> QED BY <1>3, <2>1
  <1> QED BY <1>2, <1>4

\* A stored binding is attached and gets its authority.
LEMMA GrantIsHandled ==
    ASSUME World, NEW t, Sound(t, {}), Idle(t), NEW b \in St(t)
    PROVE  LET u == Attach(t, b) IN
           /\ Handled(t, u) /\ u.stored = t.stored /\ u.queue = t.queue
           /\ \A d \in Ids : /\ u.lease[d].contract = t.lease[d].contract
                             /\ u.lease[d].inst = t.lease[d].inst
                             /\ t.lease[d].attached => u.lease[d].attached
           /\ u.lease[b].attached
  <1> DEFINE c == t.lease[b].ctl
             lease == [t.lease EXCEPT ![b].attached = TRUE]
             input == [t.input EXCEPT ![c] = b]
             authority == t.authority \union {b}
             u == Attach(t, b)
  <1>1. t \in SessionRecords /\ Typed(t) /\ b \in Ids /\ c \in Controls /\ St(t) \subseteq Ids
    BY StoredAreGranted, StoredAreIds DEF Sound, Typed, Granted
  <1>2. /\ lease \in [Ids -> Leases]
        /\ \A d \in Ids : /\ lease[d].ctl = t.lease[d].ctl /\ lease[d].page = t.lease[d].page
                          /\ lease[d].inst = t.lease[d].inst
                          /\ lease[d].contract = t.lease[d].contract
                          /\ lease[d].ready = t.lease[d].ready
                          /\ lease[d].attached = (d = b \/ t.lease[d].attached)
    <2>1. t.lease \in [Ids -> Leases]
      BY <1>1 DEF SessionRecords
    <2> QED BY ZenonT(60), <1>1, <2>1 DEF Leases
  <1>3. /\ input \in [Controls -> Ids \union {None}] /\ authority \in SUBSET Ids
        /\ \A x \in Controls : input[x] = IF x = c THEN b ELSE t.input[x]
    BY <1>1 DEF SessionRecords
  <1>4. u = [t EXCEPT !.lease = lease, !.input = input, !.authority = authority]
    <2> DEFINE v == [t EXCEPT !.lease[b].attached = TRUE]
    <2>1. v = [t EXCEPT !.lease = lease]
      BY <1>1 DEF SessionRecords
    <2>2. v.lease = lease /\ v.input = t.input /\ v.authority = t.authority
      BY <1>1, <2>1 DEF SessionRecords
    <2>3. v.lease[b].ctl = c
      BY <1>1, <1>2, <2>2
    <2> HIDE DEF v, lease
    <2>4. Enable(v, b) = [v EXCEPT !.input = input, !.authority = authority]
      BY <1>1, <2>1, <2>2, <2>3 DEF Enable, SessionRecords
    <2>5. [v EXCEPT !.input = input, !.authority = authority] =
              [t EXCEPT !.lease = lease, !.input = input, !.authority = authority]
      BY <1>1, <2>1 DEF SessionRecords
    <2> QED BY <2>4, <2>5 DEF v, Attach
  <1> HIDE DEF lease, input, authority, u, c
  <1>5. /\ u \in SessionRecords
        /\ u.stored = t.stored /\ u.lease = lease /\ u.status = t.status /\ u.held = t.held
        /\ u.ops = t.ops /\ u.deferred = t.deferred /\ u.wake = t.wake /\ u.queue = t.queue
        /\ u.page = t.page /\ u.stopped = t.stopped /\ u.lossy = t.lossy
        /\ u.input = input /\ u.authority = authority /\ u.rec = t.rec
    BY <1>1, <1>2, <1>3, <1>4 DEF SessionRecords
  <1>6. St(u) = St(t) /\ Queued(u) = Queued(t) /\ (HardwareCurrent(u) <=> HardwareCurrent(t))
    BY <1>5 DEF St, Queued, HardwareCurrent
  <1>7. Typed(u)
    BY <1>1, <1>5, SameQueuesSameLoads DEF Typed
  <1>8. Grants(u)
    BY <1>2, <1>5, <1>6 DEF Sound, Grants, InUse, Granted
  <1>9. Crosses(u)
    <2>1. p.attached \union p.pressed \subseteq Ids
      BY DEF World
    <2> QED BY <1>2, <1>5, <2>1 DEF Sound, Crosses, UsesCurrentContract
  <1>10. Routes(u)
    <2>1. Routes(t)
      BY DEF Sound
    <2>2. /\ \A d \in St(u) : u.lease[d].attached => d \in u.authority
          /\ \A d \in u.authority : d \in St(u) /\ u.lease[d].attached
      BY ZenonT(60), <1>1, <1>2, <1>5, <1>6, <2>1 DEF Routes, authority
    <2>3. ASSUME NEW x \in Controls
          PROVE  /\ u.input[x] # None => u.input[x] \in u.authority /\ u.lease[u.input[x]].ctl = x
                 /\ u.held[x] # None => u.held[x] \in St(u) /\ u.lease[u.held[x]].ctl = x
      <3>1. /\ t.input[x] # None => t.input[x] \in t.authority /\ t.lease[t.input[x]].ctl = x
            /\ t.held[x] # None => t.held[x] \in St(t) /\ t.lease[t.held[x]].ctl = x
            /\ t.authority \subseteq Ids
        BY <1>1, <2>1 DEF Routes, SessionRecords
      <3>2. t.lease[b].ctl = c
        BY DEF c
      <3> QED BY <1>1, <1>2, <1>3, <1>5, <1>6, <3>1, <3>2 DEF authority
    <2>4. \A d, e \in St(u) : u.lease[d].ctl = u.lease[e].ctl => d = e
      BY <1>1, <1>2, <1>5, <1>6, <2>1 DEF Routes
    <2> QED BY <2>2, <2>3, <2>4 DEF Routes
  <1>11. Ledger(u, {})
    <2>1. Ledger(t, {})
      BY DEF Sound
    <2>2. \A d \in St(t) : UsesCurrentContract(u.lease[d]) <=> UsesCurrentContract(t.lease[d])
      BY <1>1, <1>2, <1>5 DEF UsesCurrentContract
    <2>3. /\ \A o \in u.ops : o[2] \in St(u) /\ u.status[o[2]] = "preparing"
          /\ \A o, q \in u.ops : o[2] = q[2] => o = q
          /\ \A d \in u.deferred : d[1] \in St(u) /\ u.status[d[1]] = "unavailable" /\ u.wake
      BY <1>5, <1>6, <2>1 DEF Ledger
    <2>4. \A d \in St(u) :
            /\ u.status[d] \in {"none", "preparing", "active", "unavailable"}
            /\ u.status[d] = "active" <=> u.lease[d].ready
            /\ u.lease[d].ready => u.lease[d].attached
      <3> SUFFICES ASSUME NEW d \in St(u)
                   PROVE  /\ u.status[d] \in {"none", "preparing", "active", "unavailable"}
                          /\ u.status[d] = "active" <=> u.lease[d].ready
                          /\ u.lease[d].ready => u.lease[d].attached
        OBVIOUS
      <3>1. /\ t.status[d] \in {"none", "preparing", "active", "unavailable"}
            /\ t.status[d] = "active" <=> t.lease[d].ready
            /\ t.lease[d].ready => t.lease[d].attached
        BY <1>6, <2>1 DEF Ledger
      <3>2. /\ lease[d].ready = t.lease[d].ready
            /\ lease[d].attached = (d = b \/ t.lease[d].attached)
        BY <1>1, <1>2, <1>6
      <3> QED BY <1>5, <3>1, <3>2
    <2>5. ASSUME NEW d \in St(u)
          PROVE  /\ u.status[d] # "none"
                 /\ u.status[d] = "unavailable" =>
                      \/ \E r \in BOOLEAN : <<d, r>> \in u.deferred
                      \/ ~UsesCurrentContract(u.lease[d]) \/ ~HardwareCurrent(u)
      <3>1. /\ t.status[d] # "none"
            /\ t.status[d] = "unavailable" =>
                 \/ \E r \in BOOLEAN : <<d, r>> \in t.deferred
                 \/ ~UsesCurrentContract(t.lease[d]) \/ ~HardwareCurrent(t)
        BY <1>6, <2>1 DEF Ledger
      <3> QED BY <1>5, <1>6, <2>2, <3>1
    <2> QED BY <2>3, <2>4, <2>5 DEF Ledger
  <1>12. Continues(t, u)
    <2>1. Extends(t, u)
      BY <1>1, <1>5, SameQueueExtends DEF SessionRecords
    <2>2. \A e \in Queued(t) : <<e.op, e.b>> \in u.ops =>
              /\ <<e.op, e.b>> \in t.ops
              /\ u.lease[e.b].contract = t.lease[e.b].contract
              /\ t.lease[e.b].attached => u.lease[e.b].attached
      <3>1. \A o \in t.ops : o[2] \in Ids
        BY <1>1 DEF SessionRecords
      <3>2. ASSUME NEW e \in Queued(t), <<e.op, e.b>> \in u.ops
            PROVE  /\ <<e.op, e.b>> \in t.ops
                   /\ u.lease[e.b].contract = t.lease[e.b].contract
                   /\ t.lease[e.b].attached => u.lease[e.b].attached
        <4>1. <<e.op, e.b>> \in t.ops
          BY <1>5, <3>2
        <4>2. e.b \in Ids
          BY <3>1, <4>1
        <4> QED BY <1>2, <1>5, <4>1, <4>2
      <3> QED BY <3>2
    <2> QED BY <1>1, <1>5, <1>6, <1>7, <2>1, <2>2, MoreContinues
  <1>13. Idle(u)
    BY <1>5 DEF Idle
  <1>14. /\ \A d \in Ids : /\ u.lease[d].contract = t.lease[d].contract
                           /\ u.lease[d].inst = t.lease[d].inst
                           /\ t.lease[d].attached => u.lease[d].attached
         /\ u.lease[b].attached
    BY <1>1, <1>2, <1>5
  <1>15. ASSUME Tidy(t, {}) PROVE Tidy(u, {})
    <2>1. \A x \in Controls : u.held[x] # None => u.lease[u.held[x]].attached
      <3>1. \A x \in Controls : t.held[x] # None => t.held[x] \in Ids
        BY <1>1 DEF Sound, Routes
      <3>2. \A x \in Controls : t.held[x] # None => t.lease[t.held[x]].attached
        BY <1>15 DEF Tidy
      <3>3. u.held = t.held /\ u.lease = lease
        BY <1>5
      <3>4. \A d \in Ids : t.lease[d].attached => lease[d].attached
        BY <1>2
      <3> QED BY <3>1, <3>2, <3>3, <3>4
    <2>2. \A d \in St(u) : u.lease[d].ready /\ UsesCurrentContract(u.lease[d]) => d \in p.attached
      BY <1>1, <1>2, <1>5, <1>6, <1>15 DEF Tidy, UsesCurrentContract
    <2> QED BY <1>1, <1>2, <1>5, <1>6, <1>15, <2>1, <2>2, GrantsAreTidy
  <1>16. Handled(t, u)
    <2>1. ASSUME Housed(t, Standing) PROVE Housed(u, Standing)
      <3>1. Standing \subseteq p.attached /\ u.ops \subseteq t.ops
        BY <1>5 DEF Standing
      <3>2. \A d \in Ids : /\ u.lease[d].inst = t.lease[d].inst
                           /\ u.lease[d].contract = t.lease[d].contract
                           /\ t.lease[d].attached => u.lease[d].attached
        BY <1>2, <1>5
      <3> QED BY <1>1, <1>5, <1>6, <2>1, <3>1, <3>2, SameIsHoused
    <2>2. Follows(t, u)
      BY <1>12, <1>15, <2>1 DEF Follows
    <2> QED BY <1>7, <1>8, <1>9, <1>10, <1>11, <1>13, <2>2 DEF Sound, Handled
  <1>17. u.stored = t.stored /\ u.queue = t.queue
    BY <1>5
  <1> QED BY <1>14, <1>16, <1>17 DEF u

\* A lease may be written to, as long as the ledger agrees.
LEMMA RewriteKeeps ==
    ASSUME World, NEW t, Sound(t, {}), Idle(t), NEW b \in St(t), NEW u \in SessionRecords,
           Rewrites(t, u, b), u.rec = t.rec, u.ops \subseteq t.ops, Ledger(u, {}),
           \A o \in t.ops : o[2] \in St(t) /\ u.status[o[2]] = "preparing" => o \in u.ops,
           u.status[b] = "preparing" => t.status[b] = "preparing",
           u.lease[b].ready /\ UsesCurrentContract(u.lease[b]) => t.lease[b].ready \/ b \in p.attached
    PROVE  Handled(t, u)
  <1>0. Typed(t) /\ t \in SessionRecords /\ St(t) \subseteq Ids /\ b \in Ids
    BY StoredAreIds DEF Sound, Typed
  <1>1. /\ u.stored = t.stored /\ u.input = t.input /\ u.authority = t.authority
        /\ u.held = t.held /\ u.queue = t.queue /\ u.page = t.page /\ u.stopped = t.stopped
        /\ SameGrants(t, u) /\ u.lossy = t.lossy
        /\ \A d \in Ids : d # b =>
              u.lease[d].ready = t.lease[d].ready /\ u.status[d] = t.status[d]
    BY <1>0 DEF Rewrites
  <1>2. St(u) = St(t) /\ Queued(u) = Queued(t)
    BY <1>1 DEF St, Queued
  <1>3. Typed(u)
    <2>1. IsFiniteSet(u.ops)
      BY <1>0, FS_Subset DEF Typed
    <2> QED BY <1>0, <1>1, <2>1, SameQueuesSameLoads DEF Typed
  <1>4. Grants(u)
    BY <1>1, <1>2 DEF Sound, Grants, InUse, Granted, SameGrants
  <1>5. Crosses(u)
    <2>1. p.attached \union p.pressed \subseteq Ids
      BY DEF World
    <2> QED BY <1>1, <2>1 DEF Sound, Crosses, UsesCurrentContract, SameGrants
  <1>6. Routes(u)
    <2>1. Routes(t) /\ t.authority \subseteq Ids
      BY <1>0 DEF Sound, SessionRecords
    <2>2. \A d \in Ids : u.lease[d].ctl = t.lease[d].ctl /\ u.lease[d].attached = t.lease[d].attached
      BY <1>1 DEF SameGrants
    <2> QED BY <1>0, <1>1, <1>2, <2>1, <2>2 DEF Routes
  <1>7. Continues(t, u)
    <2>1. Extends(t, u)
      BY <1>0, <1>1, SameQueueExtends DEF SessionRecords
    <2>2. \A e \in Queued(t) : <<e.op, e.b>> \in u.ops =>
              /\ <<e.op, e.b>> \in t.ops
              /\ u.lease[e.b].contract = t.lease[e.b].contract
              /\ t.lease[e.b].attached => u.lease[e.b].attached
      <3>1. \A o \in t.ops : o[2] \in Ids
        BY <1>0 DEF SessionRecords
      <3>2. ASSUME NEW e \in Queued(t), <<e.op, e.b>> \in u.ops
            PROVE  /\ <<e.op, e.b>> \in t.ops
                   /\ u.lease[e.b].contract = t.lease[e.b].contract
                   /\ t.lease[e.b].attached => u.lease[e.b].attached
        <4>1. <<e.op, e.b>> \in t.ops
          BY <3>2
        <4>2. e.b \in Ids
          BY <3>1, <4>1
        <4> QED BY <1>1, <4>1, <4>2 DEF SameGrants
      <3> QED BY <3>2
    <2>3. \A d \in St(u) : u.status[d] = "preparing" => t.status[d] = "preparing"
      BY <1>0, <1>1, <1>2
    <2> QED BY <1>0, <1>2, <1>3, <2>1, <2>2, <2>3, MoreContinues
  <1>8. Idle(u)
    BY <1>1 DEF Idle
  <1>9. ASSUME Tidy(t, {}) PROVE Tidy(u, {})
    <2>1. \A x \in Controls : u.held[x] # None => u.lease[u.held[x]].attached
      <3>1. \A x \in Controls : t.held[x] # None => t.held[x] \in Ids
        BY <1>0 DEF Sound, Routes
      <3> QED BY <1>1, <1>9, <3>1 DEF Tidy, SameGrants
    <2>2. ASSUME NEW d \in St(u), u.lease[d].ready, UsesCurrentContract(u.lease[d])
          PROVE  d \in p.attached
      <3>1. d \in St(t) /\ d \in Ids /\ UsesCurrentContract(t.lease[d])
        BY <1>0, <1>1, <1>2, <2>2 DEF UsesCurrentContract, SameGrants
      <3>2. t.lease[d].ready \/ d \in p.attached
        BY <1>1, <2>2, <3>1
      <3> QED BY <1>9, <3>1, <3>2 DEF Tidy
    <2>3. \A d \in Ids : u.lease[d].inst = t.lease[d].inst /\ u.lease[d].ctl = t.lease[d].ctl
      BY <1>1 DEF SameGrants
    <2> QED BY <1>0, <1>1, <1>2, <1>9, <2>1, <2>2, <2>3, GrantsAreTidy
  <1>10. ASSUME Housed(t, Standing) PROVE Housed(u, Standing)
    <2>1. Standing \subseteq p.attached
      BY DEF Standing
    <2>2. \A d \in Ids : /\ u.lease[d].inst = t.lease[d].inst
                         /\ u.lease[d].contract = t.lease[d].contract
                         /\ t.lease[d].attached => u.lease[d].attached
      BY <1>1 DEF SameGrants
    <2> QED BY <1>0, <1>1, <1>2, <1>10, <2>1, <2>2, SameIsHoused
  <1>11. Follows(t, u)
    BY <1>7, <1>9, <1>10 DEF Follows
  <1> QED BY <1>3, <1>4, <1>5, <1>6, <1>8, <1>11 DEF Handled, Sound

\* A binding that is prepared becomes active, and its operation ends.
LEMMA CompletionIsHandled ==
    ASSUME World, NEW t, Sound(t, {}), Idle(t), NEW e, e.b \in St(t),
           AttachedOnBothSides(t, e.b), <<e.op, e.b>> \in t.ops
    PROVE  Handled(t, Complete(t, e))
  <1> DEFINE b == e.b
             lease == [t.lease EXCEPT ![b].ready = TRUE]
             status == [t.status EXCEPT ![b] = "active"]
             ops == t.ops \ {<<e.op, b>>}
             u == Complete(t, e)
  <1>0. t \in SessionRecords /\ St(t) \subseteq Ids /\ b \in St(t) /\ b \in Ids
    BY StoredAreIds DEF Sound, Typed
  <1>1. /\ lease \in [Ids -> Leases]
        /\ \A d \in Ids : /\ lease[d].ctl = t.lease[d].ctl /\ lease[d].page = t.lease[d].page
                          /\ lease[d].inst = t.lease[d].inst
                          /\ lease[d].contract = t.lease[d].contract
                          /\ lease[d].attached = t.lease[d].attached
                          /\ lease[d].ready = (d = b \/ t.lease[d].ready)
    <2>1. t.lease \in [Ids -> Leases]
      BY <1>0 DEF SessionRecords
    <2> QED BY ZenonT(60), <1>0, <2>1 DEF Leases
  <1>2. /\ status \in [Ids -> {"none", "preparing", "active", "unavailable", "retired"}]
        /\ \A d \in Ids : status[d] = IF d = b THEN "active" ELSE t.status[d]
        /\ ops \in SUBSET (Nat \X Ids)
    BY <1>0 DEF SessionRecords
  <1>3. u = [t EXCEPT !.lease = lease, !.status = status, !.ops = ops]
    BY <1>0 DEF SessionRecords, Complete
  <1> HIDE DEF lease, status, u
  <1>4. /\ u \in SessionRecords /\ u.lease = lease /\ u.status = status /\ u.ops = ops
        /\ u.stored = t.stored /\ u.input = t.input /\ u.authority = t.authority
        /\ u.held = t.held /\ u.queue = t.queue /\ u.page = t.page /\ u.stopped = t.stopped
        /\ u.deferred = t.deferred /\ u.wake = t.wake /\ u.lossy = t.lossy /\ u.rec = t.rec
    BY <1>0, <1>1, <1>2, <1>3 DEF SessionRecords
  <1>5. SameGrants(t, u)
    BY <1>1, <1>4 DEF SameGrants
  <1>6. Rewrites(t, u, b)
    <2>1. \A d \in Ids : d # b =>
              u.lease[d].ready = t.lease[d].ready /\ u.status[d] = t.status[d]
      <3>1. t.lease \in [Ids -> Leases]
        BY <1>0 DEF SessionRecords
      <3>2. \A d \in Ids : t.lease[d].ready \in BOOLEAN
        BY <3>1 DEF Leases
      <3> QED BY <1>1, <1>2, <1>4, <3>2
    <2> HIDE DEF ops, b
    <2> QED BY <1>4, <1>5, <2>1 DEF Rewrites
  <1>7. Ledger(t, {}) /\ t.status[b] = "preparing" /\ t.lease[b].attached
    <2>1. Ledger(t, {}) /\ <<e.op, b>>[2] = b
      BY DEF Sound
    <2> QED BY <2>1 DEF Ledger, AttachedOnBothSides
  <1>8. St(u) = St(t) /\ (HardwareCurrent(u) <=> HardwareCurrent(t))
    BY <1>4 DEF St, HardwareCurrent
  <1>9. Ledger(u, {})
    <2>1. \A o, q \in u.ops : o[2] = q[2] => o = q
      BY <1>4, <1>7 DEF Ledger
    <2>2. ASSUME NEW o \in u.ops PROVE o[2] \in St(u) /\ u.status[o[2]] = "preparing"
      <3>1. o \in t.ops /\ o # <<e.op, b>> /\ <<e.op, b>> \in t.ops
        BY <1>4, <2>2
      <3>2. o[2] \in St(t) /\ t.status[o[2]] = "preparing" /\ o[2] # b
        <4>1. o[2] # <<e.op, b>>[2]
          BY <1>7, <3>1 DEF Ledger
        <4> QED BY <1>7, <3>1, <4>1 DEF Ledger
      <3> QED BY <1>0, <1>2, <1>4, <1>8, <3>2
    <2>3. \A d \in u.deferred : d[1] \in St(u) /\ u.status[d[1]] = "unavailable" /\ u.wake
      <3>1. \A d \in t.deferred : d[1] \in St(t) /\ t.status[d[1]] = "unavailable" /\ t.wake
        BY <1>7 DEF Ledger
      <3> QED BY <1>0, <1>2, <1>4, <1>7, <1>8, <3>1
    <2>4. ASSUME NEW d \in St(u)
          PROVE  /\ u.status[d] \in {"none", "preparing", "active", "unavailable"}
                 /\ u.status[d] = "active" <=> u.lease[d].ready
                 /\ u.lease[d].ready => u.lease[d].attached
                 /\ u.status[d] # "none"
                 /\ u.status[d] = "unavailable" =>
                      \/ \E r \in BOOLEAN : <<d, r>> \in u.deferred
                      \/ ~UsesCurrentContract(u.lease[d]) \/ ~HardwareCurrent(u)
      <3>1. /\ t.status[d] \in {"none", "preparing", "active", "unavailable"}
            /\ t.status[d] = "active" <=> t.lease[d].ready
            /\ t.lease[d].ready => t.lease[d].attached
            /\ t.status[d] # "none"
            /\ t.status[d] = "unavailable" =>
                 \/ \E r \in BOOLEAN : <<d, r>> \in t.deferred
                 \/ ~UsesCurrentContract(t.lease[d]) \/ ~HardwareCurrent(t)
        BY <1>7, <1>8 DEF Ledger
      <3>2. /\ lease[d].attached = t.lease[d].attached
            /\ lease[d].ready = (d = b \/ t.lease[d].ready)
            /\ status[d] = IF d = b THEN "active" ELSE t.status[d]
            /\ UsesCurrentContract(u.lease[d]) <=> UsesCurrentContract(t.lease[d])
        BY <1>0, <1>1, <1>2, <1>4, <1>8 DEF UsesCurrentContract
      <3>3. CASE d = b
        BY <1>4, <1>7, <3>2, <3>3
      <3>4. CASE d # b
        BY <1>4, <1>8, <3>1, <3>2, <3>4
      <3> QED BY <3>3, <3>4
    <2> QED BY <2>1, <2>2, <2>3, <2>4 DEF Ledger
  <1>10. \A o \in t.ops : o[2] \in St(t) /\ u.status[o[2]] = "preparing" => o \in u.ops
    <2> SUFFICES ASSUME NEW o \in t.ops, u.status[o[2]] = "preparing" PROVE o # <<e.op, b>>
      BY <1>4
    <2>1. u.status[b] = "active"
      BY <1>0, <1>2, <1>4
    <2> QED BY <2>1
  <1>11. u.status[b] = "active"
    BY <1>0, <1>2, <1>4
  <1>12. Handled(t, u)
    <2>1. u.ops \subseteq t.ops
      BY <1>4
    <2>2. UsesCurrentContract(u.lease[b]) => b \in p.attached
      BY <1>0, <1>5 DEF UsesCurrentContract, SameGrants, AttachedOnBothSides
    <2> HIDE DEF ops, b
    <2> QED BY <1>0, <1>4, <1>6, <1>9, <1>10, <1>11, <2>1, <2>2, RewriteKeeps
  <1> QED BY <1>12 DEF u

\* A restart of the binding b is counted.
LEMMA RecoveryIsHandled ==
    ASSUME World, NEW t, Sound(t, {}), Idle(t), NEW b \in St(t)
    PROVE  LET u == [t EXCEPT !.lease[b].recoveries = @ + 1] IN
           Handled(t, u) /\ u.stored = t.stored
  <1> DEFINE lease == [t.lease EXCEPT ![b].recoveries = @ + 1]
             u == [t EXCEPT !.lease[b].recoveries = @ + 1]
  <1>0. t \in SessionRecords /\ St(t) \subseteq Ids /\ b \in St(t) /\ b \in Ids
    BY StoredAreIds DEF Sound, Typed
  <1>1. /\ lease \in [Ids -> Leases]
        /\ \A d \in Ids : /\ lease[d].ctl = t.lease[d].ctl /\ lease[d].page = t.lease[d].page
                          /\ lease[d].inst = t.lease[d].inst
                          /\ lease[d].contract = t.lease[d].contract
                          /\ lease[d].attached = t.lease[d].attached
                          /\ lease[d].ready = t.lease[d].ready
    <2>1. t.lease \in [Ids -> Leases]
      BY <1>0 DEF SessionRecords
    <2> QED BY <1>0, <2>1 DEF Leases
  <1>2. u = [t EXCEPT !.lease = lease]
    BY <1>0 DEF SessionRecords
  <1> HIDE DEF lease, u
  <1>3. /\ u \in SessionRecords /\ u.lease = lease /\ u.status = t.status /\ u.ops = t.ops
        /\ u.stored = t.stored /\ u.input = t.input /\ u.authority = t.authority
        /\ u.held = t.held /\ u.queue = t.queue /\ u.page = t.page /\ u.stopped = t.stopped
        /\ u.deferred = t.deferred /\ u.wake = t.wake /\ u.lossy = t.lossy /\ u.rec = t.rec
    BY <1>0, <1>1, <1>2 DEF SessionRecords
  <1>4. SameGrants(t, u)
    BY <1>1, <1>3 DEF SameGrants
  <1>5. Rewrites(t, u, b)
    BY <1>1, <1>3, <1>4 DEF Rewrites
  <1>6. St(u) = St(t) /\ (HardwareCurrent(u) <=> HardwareCurrent(t))
    BY <1>3 DEF St, HardwareCurrent
  <1>7. Ledger(u, {})
    <2>1. Ledger(t, {})
      BY DEF Sound
    <2>2. \A d \in St(t) :
             /\ UsesCurrentContract(u.lease[d]) <=> UsesCurrentContract(t.lease[d])
             /\ u.lease[d].ready = t.lease[d].ready /\ u.lease[d].attached = t.lease[d].attached
      BY <1>0, <1>1, <1>3 DEF UsesCurrentContract
    <2>3. /\ \A o \in u.ops : o[2] \in St(u) /\ u.status[o[2]] = "preparing"
          /\ \A o, q \in u.ops : o[2] = q[2] => o = q
          /\ \A d \in u.deferred : d[1] \in St(u) /\ u.status[d[1]] = "unavailable" /\ u.wake
      BY <1>3, <1>6, <2>1 DEF Ledger
    <2>4. ASSUME NEW d \in St(u)
          PROVE  /\ u.status[d] \in {"none", "preparing", "active", "unavailable"}
                 /\ u.status[d] = "active" <=> u.lease[d].ready
                 /\ u.lease[d].ready => u.lease[d].attached
                 /\ u.status[d] # "none"
                 /\ u.status[d] = "unavailable" =>
                      \/ \E r \in BOOLEAN : <<d, r>> \in u.deferred
                      \/ ~UsesCurrentContract(u.lease[d]) \/ ~HardwareCurrent(u)
      <3>1. /\ t.status[d] \in {"none", "preparing", "active", "unavailable"}
            /\ t.status[d] = "active" <=> t.lease[d].ready
            /\ t.lease[d].ready => t.lease[d].attached
            /\ t.status[d] # "none"
            /\ t.status[d] = "unavailable" =>
                 \/ \E r \in BOOLEAN : <<d, r>> \in t.deferred
                 \/ ~UsesCurrentContract(t.lease[d]) \/ ~HardwareCurrent(t)
        BY <1>6, <2>1 DEF Ledger
      <3> QED BY <1>3, <1>6, <2>2, <3>1
    <2> QED BY <2>3, <2>4 DEF Ledger
  <1>8. u.lease[b].ready => t.lease[b].ready
    BY <1>0, <1>1, <1>3
  <1>9. Handled(t, u)
    BY <1>3, <1>5, <1>7, <1>8, RewriteKeeps
  <1> QED BY <1>3, <1>9 DEF u

----------------------------------------------------------------------------
(* Effects that are done *)

\* An effect that is done leaves its queue.
LEMMA PopKeeps ==
    ASSUME World, NEW t, Sound(t, {}), Idle(t), NEW i \in Instances, t.queue[i] # <<>>,
           NEW u \in SessionRecords, Popped(t, u, i)
    PROVE  /\ Sound(u, {}) /\ Idle(u)
           /\ \A x \in Queued(t) : x # Head(t.queue[i]) => x \in Queued(u)
           /\ \A j \in Instances : j # i => u.queue[j] = t.queue[j]
  <1>0. Typed(t) /\ t \in SessionRecords
    BY DEF Sound, Typed
  <1>1. /\ t.queue \in [Instances -> Seq(Effects)] /\ u.queue \in [Instances -> Seq(Effects)]
        /\ u.queue[i] = Tail(t.queue[i]) /\ \A j \in Instances : j # i => u.queue[j] = t.queue[j]
    BY <1>0 DEF SessionRecords, Popped
  <1>2. /\ Len(t.queue[i]) \in Nat \ {0}
        /\ DOMAIN t.queue[i] = 1..Len(t.queue[i])
        /\ DOMAIN u.queue[i] = 1..(Len(t.queue[i]) - 1)
        /\ \A k \in 1..(Len(t.queue[i]) - 1) : u.queue[i][k] = t.queue[i][k + 1]
        /\ Head(t.queue[i]) = t.queue[i][1]
    BY <1>1
  <1>3. WithinReserves(u)
    <2>1. ASSUME NEW kinds PROVE Load(u, kinds) \in Nat /\ Load(t, kinds) \in Nat
                                 /\ Load(u, kinds) <= Load(t, kinds)
      BY <1>1, TailUnloads, LoadCounts
    <2>2. WithinReserves(t)
      BY <1>0 DEF Typed
    <2>3. /\ Load(u, Ordinary) \in Nat /\ Load(t, Ordinary) \in Nat
          /\ Load(u, Ordinary) <= Load(t, Ordinary)
          /\ Load(u, Cleanup) \in Nat /\ Load(t, Cleanup) \in Nat
          /\ Load(u, Cleanup) <= Load(t, Cleanup)
      BY <2>1
    <2> QED BY <2>2, <2>3, LifecycleAssumption DEF WithinReserves
  <1>4. Typed(u)
    BY <1>0, <1>3 DEF Typed, Popped
  <1>5. Queued(u) \subseteq Queued(t)
    <2> SUFFICES ASSUME NEW x \in Queued(u) PROVE x \in Queued(t)
      OBVIOUS
    <2>1. PICK j \in Instances : \E k \in DOMAIN u.queue[j] : x = u.queue[j][k]
      BY <1>4, QueuedAreEffects
    <2>2. PICK k \in DOMAIN u.queue[j] : x = u.queue[j][k]
      BY <2>1
    <2>3. \E k2 \in DOMAIN t.queue[j] : x = t.queue[j][k2]
      <3>1. CASE j = i
        <4>1. k + 1 \in DOMAIN t.queue[i] /\ x = t.queue[i][k + 1]
          BY <1>2, <2>2, <3>1
        <4> QED BY <3>1, <4>1
      <3>2. CASE j # i
        BY <1>1, <2>2, <3>2
      <3> QED BY <3>1, <3>2
    <2> QED BY <1>0, <2>3, QueuedAreEffects
  <1>6. ASSUME NEW x \in Queued(t), x # Head(t.queue[i]) PROVE x \in Queued(u)
    <2>1. PICK j \in Instances : \E k \in DOMAIN t.queue[j] : x = t.queue[j][k]
      BY <1>0, QueuedAreEffects
    <2>2. PICK k \in DOMAIN t.queue[j] : x = t.queue[j][k]
      BY <2>1
    <2>3. \E k2 \in DOMAIN u.queue[j] : x = u.queue[j][k2]
      <3>1. CASE j = i
        <4>1. k # 1
          BY <1>2, <1>6, <2>2, <3>1
        <4> DEFINE n == Len(t.queue[i])
                   m == k - 1
        <4>2. n \in Nat /\ k \in 1..n /\ x = t.queue[i][k]
          BY <1>2, <2>2, <3>1
        <4>3. m \in 1..(n - 1) /\ k = m + 1
          BY <4>1, <4>2
        <4>4. m \in DOMAIN u.queue[i] /\ u.queue[i][m] = t.queue[i][m + 1]
          BY <1>2, <4>3
        <4>5. m \in DOMAIN u.queue[i] /\ x = u.queue[i][m]
          BY <4>2, <4>3, <4>4
        <4> QED BY <3>1, <4>5
      <3>2. CASE j # i
        BY <1>1, <2>2, <3>2
      <3> QED BY <3>1, <3>2
    <2> QED BY <1>4, <2>3, QueuedAreEffects
  <1>7. St(u) = St(t) /\ (HardwareCurrent(u) <=> HardwareCurrent(t))
    BY DEF St, HardwareCurrent, Popped
  <1>8. Grants(u) /\ Crosses(u) /\ Routes(u)
    BY <1>5, <1>7 DEF Sound, Grants, InUse, Crosses, Routes, Popped
  <1>9. Ledger(u, {})
    <2>1. Ledger(t, {})
      BY DEF Sound
    <2> QED BY <1>7, <2>1, SameLedger DEF Popped
  <1>10. Idle(u)
    BY DEF Idle, Popped
  <1> QED BY <1>1, <1>4, <1>6, <1>8, <1>9, <1>10 DEF Sound

\* The preparations that matter are still to come, when one that does not is gone.
LEMMA PopOutstanding ==
    ASSUME World, NEW t, Sound(t, {}), Idle(t), NEW i \in Instances, t.queue[i] # <<>>,
           NEW u \in SessionRecords, Popped(t, u, i), Outstanding(t),
           LET e == Head(t.queue[i]) IN e.kind # "prepare" \/ <<e.op, e.b>> \notin t.ops
    PROVE  Outstanding(u)
  <1> DEFINE e == Head(t.queue[i])
  <1>1. St(u) = St(t) /\ u.status = t.status /\ u.ops = t.ops
    BY DEF St, Popped
  <1>2. ASSUME NEW b \in St(t), t.status[b] = "preparing" PROVE Prepares(u, b)
    <2>1. PICK o \in t.ops : \E x \in Queued(t) :
              o[2] = b /\ x.kind = "prepare" /\ x.op = o[1] /\ x.b = b
      BY <1>2 DEF Outstanding, Prepares
    <2>2. PICK x \in Queued(t) : o[2] = b /\ x.kind = "prepare" /\ x.op = o[1] /\ x.b = b
      BY <2>1
    <2>3. <<x.op, x.b>> \in t.ops
      <3>1. t.ops \subseteq Nat \X Ids
        BY DEF Sound, Typed, SessionRecords
      <3>2. o = <<o[1], o[2]>>
        BY <3>1
      <3> QED BY <2>2, <3>2
    <2>4. x # e
      BY <2>2, <2>3
    <2>5. x \in Queued(u)
      BY <2>4, PopKeeps
    <2> QED BY <1>1, <2>2, <2>5 DEF Prepares
  <1> QED BY <1>1, <1>2 DEF Outstanding

\* A configuration starts over on page g.
LEMMA ReplaceIsHandled ==
    ASSUME World, NEW t, Sound(t, {}), ~t.stopped, NEW g \in Pages,
           Cardinality(FreeIds(t)) >= Cardinality(Controls)
    PROVE  Handled(t, InstallPage([ClearPage(t) EXCEPT !.page = g], g))
  <1> DEFINE u == ClearPage(t)
             v == [u EXCEPT !.page = g]
             w == InstallPage(v, g)
  <1>1. /\ Sound(u, {}) /\ u.stored = <<>> /\ u.stopped = t.stopped
        /\ FreeIds(t) \subseteq FreeIds(u) /\ Follows(t, u)
    BY ClearPageKeeps
  <1> HIDE DEF u
  <1>2. u \in SessionRecords
    BY <1>1 DEF Sound, Typed
  <1>3. v \in SessionRecords /\ Alike(u, v) /\ v.page = g /\ v.stopped = t.stopped
    BY <1>1, <1>2 DEF SessionRecords, Alike
  <1> HIDE DEF v
  <1>4. Sound(v, {}) /\ FreeIds(v) = FreeIds(u) /\ St(v) = St(u)
    BY <1>1, <1>3, AlikeKeeps
  <1>5. Follows(u, v)
    BY <1>1, <1>3, <1>4, AlikeFollows DEF Sound
  <1>6. Follows(t, v)
    BY <1>1, <1>4, <1>5, FollowsTransitively DEF Sound
  <1>7. St(v) = {}
    BY <1>1, <1>4 DEF St, ToSet
  <1>8. Cardinality(FreeIds(v)) >= Cardinality(Controls)
    <2>1. Cardinality(FreeIds(t)) <= Cardinality(FreeIds(v))
      BY <1>1, <1>4, FreeAreCounted, FS_Subset
    <2>2. /\ Cardinality(FreeIds(t)) \in Nat /\ Cardinality(FreeIds(v)) \in Nat
          /\ Cardinality(Controls) \in Nat
      BY FreeAreCounted, PlanFits
    <2> QED BY <2>1, <2>2
  <1>9. InstallGood(g, v, v, 0)
    <2>1. Cardinality(FreeIds(v)) >= Cardinality(Controls) - 0
      <3>1. Cardinality(Controls) \in Nat
        BY PlanFits
      <3> QED BY <1>8, <3>1
    <2>2. Follows(v, v)
      BY <1>4, FollowsItself DEF Sound
    <2> QED BY <1>4, <1>7, <2>1, <2>2 DEF InstallGood
  <1>10. /\ Sound(w, {}) /\ w.page = g /\ w.stopped = t.stopped /\ Follows(v, w)
    <2>1. InstallGood(g, v, w, Len(ControlsOf[g]))
      BY <1>9, InstallPageKeeps
    <2> HIDE DEF w
    <2> QED BY <1>3, <2>1 DEF InstallGood
  <1> HIDE DEF w
  <1>11. Follows(t, w)
    BY <1>4, <1>6, <1>10, FollowsTransitively DEF Sound
  <1>12. Idle(w)
    BY <1>10, LifecycleAssumption DEF Idle
  <1> QED BY <1>10, <1>11, <1>12 DEF Handled, w, v, u

----------------------------------------------------------------------------
(* The invariant: what carries over to the next state *)

\* The provider learns of stored bindings of the agreement of now only.
LEMMA SoundCarries ==
    ASSUME Sound(s', {}), UNCHANGED <<agreed, hw>>,
           p'.attached \union p'.pressed \subseteq Ids,
           \A b \in p'.attached \union p'.pressed :
               \/ b \in p.attached \union p.pressed
               \/ b \in St(s') /\ UsesCurrentContract(s'.lease[b])
    PROVE  Sound(s, {})'
  <1>1. Typed(s)'
    BY DEF Sound
  <1>2. (Routes(s))'
    <2>1. Routes(s')
      BY DEF Sound
    <2> QED BY <2>1
  <1>3. (Grants(s))'
    <2> SUFFICES ASSUME NEW b \in Ids, (InUse(s, b))' PROVE (Granted(s.lease[b]))'
      BY DEF Grants
    <2>1. InUse(s', b)
      BY DEF InUse
    <2>2. Granted(s'.lease[b])
      BY <2>1 DEF Sound, Grants
    <2> QED BY <2>2 DEF Granted
  <1>4. (Crosses(s))'
    <2> SUFFICES ASSUME NEW b \in p'.attached \union p'.pressed
                 PROVE  (UsesCurrentContract(s.lease[b]))'
      BY DEF Crosses
    <2>1. UsesCurrentContract(s'.lease[b])
      BY DEF Sound, Crosses
    <2> QED BY <2>1 DEF UsesCurrentContract, agreement
  <1>5. (Ledger(s, {}))'
    <2>1. Ledger(s', {})
      BY DEF Sound
    <2> QED BY <2>1 DEF Ledger, St, UsesCurrentContract, HardwareCurrent, agreement
  <1> QED BY <1>1, <1>2, <1>3, <1>4, <1>5 DEF Sound

\* Presses stay closed while the provider parts only with bindings that are gone.
LEMMA TidyCarries ==
    ASSUME Tidy(s', {}), UNCHANGED agreed, Parted(s')
    PROVE  (Tidy(s, {}))'
  <1>1. (InOrder(s, {}))'
    <2>1. InOrder(s', {})
      BY DEF Tidy
    <2> QED BY <2>1
  <1>2. \A c \in Controls : s'.held[c] # None => s'.lease[s'.held[c]].attached
    BY DEF Tidy
  <1>3. ASSUME NEW b \in p'.pressed PROVE (Ends(s, b, 0))'
    <2>1. Ends(s', b, 0)
      BY <1>3 DEF Tidy, Parted
    <2> QED BY <2>1
  <1>4. p'.pressed \subseteq p'.attached \union s'.lossy
    BY DEF Tidy, Parted
  <1>5. ASSUME NEW b \in St(s'), s'.lease[b].ready, s'.lease[b].contract = agreement'
        PROVE  b \in p'.attached
    <2>1. b \in p.attached
      BY <1>5 DEF Tidy, UsesCurrentContract, agreement
    <2> QED BY <1>5, <2>1 DEF Parted
  <1>6. (\A b \in St(s) : s.lease[b].ready /\ UsesCurrentContract(s.lease[b]) => b \in p.attached)'
    BY <1>5 DEF UsesCurrentContract
  <1>7. (\A b \in p.pressed \ {} : Ends(s, b, 0))'
    BY <1>3
  <1> QED BY <1>1, <1>2, <1>4, <1>6, <1>7 DEF Tidy

\* What is attached keeps its instance when the provider goes on from p to p'.
LEMMA HousedCarries ==
    ASSUME Housed(s', Standing), UNCHANGED agreed, Provided(s'),
           \A i \in Instances : at'[i] = "accept" =>
               \/ at[i] = "accept"
               \/ s'.queue[i] # <<>> /\ Head(s'.queue[i]).kind = "prepare" /\ i \in p'.created
    PROVE  (Housed(s, p.attached))'
  <1> DEFINE u == s'
             A == p'.attached
  <1>0. agreement' = agreement
    BY DEF agreement
  <1>1. ASSUME NEW b \in A PROVE (Sheltered(s, b))'
    <2>1. CASE b \in p.attached
      <3>1. Sheltered(u, b) /\ b \in Standing
        BY <2>1 DEF Housed, Standing
      <3>2. u.lease[b].inst \in p.created \ p'.created => b \in u.lossy
        BY <3>1 DEF Provided
      <3>3. \/ b \in u.lossy
            \/ /\ u.lease[b].inst \in p'.created
               /\ (b \in St(u) /\ u.lease[b].attached) \/ (\E k \in Nat : Detached(u, b, k))
        BY <3>1, <3>2 DEF Sheltered
      <3> QED BY <3>3 DEF Sheltered
    <2>2. CASE b \notin p.attached
      <3>1. u.lease[b].inst \in p'.created /\ b \in St(u) /\ u.lease[b].attached
        BY <2>2 DEF Provided
      <3> QED BY <3>1 DEF Sheltered
    <2> QED BY <2>1, <2>2
  <1>2. ASSUME NEW i \in Instances, NEW k \in DOMAIN u.queue[i]
        PROVE  (InPlace(s, p.attached, i, k, s.queue[i][k]))'
    <2> DEFINE x == u.queue[i][k]
    <2>1. InPlace(u, Standing, i, k, x)
      BY DEF Housed
    <2>2. ASSUME x.kind = "destroy" PROVE Emptied(u, A, i, k)
      <3>1. Emptied(u, Standing, i, k)
        BY <2>1, <2>2 DEF InPlace
      <3>2. ASSUME NEW b \in A, u.lease[b].inst = i PROVE b \in Standing
        <4>1. ~Undestroyed(u, i)
          BY <2>2 DEF Undestroyed
        <4> QED BY <3>2, <4>1 DEF Provided, Standing
      <3> QED BY <3>1, <3>2 DEF Emptied
    <2>3. x.kind = "prepare" =>
            /\ x.meta # None
            /\ (IsDue(u, x) /\ x.meta = u.rec[i].meta) => u.rec[i].contract = agreement
      BY <2>1 DEF InPlace
    <2>4. IsDue(u, x) <=> <<x.op, x.b>> \in u.ops /\ u.lease[x.b].contract = agreement'
      BY <1>0 DEF IsDue, UsesCurrentContract
    <2> HIDE DEF x
    <2>5. x.kind = "prepare" =>
            /\ x.meta # None
            /\ (IsDue(u, x) /\ x.meta = u.rec[i].meta) => u.rec[i].contract = agreement'
      BY <1>0, <2>3
    <2>6. (s.queue[i][k])' = x
      BY DEF x
    <2> QED BY <2>2, <2>4, <2>5, <2>6 DEF InPlace, IsDue, UsesCurrentContract
  <1>3. ASSUME NEW i \in Instances PROVE (Registered(s, i))'
    <2>1. /\ u.rec[i].contract \in 0..agreed.last
          /\ (u.rec[i].started /\ agreement # None /\ u.rec[i].contract = agreement) => i \in p.created
      BY DEF Housed, Registered
    <2>2. i \in p.created \ p'.created => ~u.rec[i].started /\ (at'[i] = "accept" => ~Awaited(u, i))
      BY DEF Provided
    <2>3. at'[i] = "accept" =>
            /\ u.queue[i] # <<>> /\ Head(u.queue[i]).kind = "prepare"
            /\ Awaited(u, i) => i \in p'.created
      <3> SUFFICES ASSUME at'[i] = "accept"
                   PROVE  /\ u.queue[i] # <<>> /\ Head(u.queue[i]).kind = "prepare"
                          /\ Awaited(u, i) => i \in p'.created
        OBVIOUS
      <3>1. CASE at[i] = "accept"
        <4>1. Registered(u, i)
          BY DEF Housed
        <4>2. /\ u.queue[i] # <<>> /\ Head(u.queue[i]).kind = "prepare"
              /\ Awaited(u, i) => i \in p.created
          BY ZenonT(30), <3>1, <4>1 DEF Registered, Awaited
        <4> QED BY <2>2, <4>2
      <3>2. CASE at[i] # "accept"
        BY <3>2
      <3> QED BY <3>1, <3>2
    <2>4. agreed' = agreed /\ agreement' = agreement
      BY <1>0
    <2>5. /\ u.rec[i].contract \in 0..agreed'.last
          /\ (u.rec[i].started /\ agreement' # None /\ u.rec[i].contract = agreement') => i \in p'.created
      BY <2>1, <2>2, <2>4
    <2>6. (IsDue(s, Head(s.queue[i])))' <=> IsDue(u, Head(u.queue[i]))
      BY <1>0 DEF IsDue, UsesCurrentContract
    <2>7. at'[i] = "accept" =>
            /\ u.queue[i] # <<>> /\ Head(u.queue[i]).kind = "prepare"
            /\ (\/ (IsDue(s, Head(s.queue[i])))'
                \/ /\ Head(u.queue[i]).meta = u.rec[i].meta
                   /\ agreement' # None /\ u.rec[i].contract = agreement')
               => i \in p'.created
      BY ZenonT(30), <2>3, <2>4, <2>6 DEF Awaited
    <2> QED BY ZenonT(30), <2>5, <2>7 DEF Registered
  <1>4. (\A b \in p.attached : Sheltered(s, b))'
    BY <1>1
  <1>5. (\A i \in Instances : \A k \in DOMAIN s.queue[i] : InPlace(s, p.attached, i, k, s.queue[i][k]))'
    BY <1>2
  <1>6. (\A i \in Instances : Registered(s, i))'
    BY <1>3
  <1> QED BY <1>4, <1>5, <1>6 DEF Housed

\* The effect at the head of a queue, and those that follow it.
LEMMA HeadBelongs ==
    ASSUME NEW t, t.queue \in [Instances -> Seq(Effects)], Tidy(t, {}),
           NEW i \in Instances, t.queue[i] # <<>>
    PROVE  /\ Belongs(t, i, 1, Head(t.queue[i]), {})
           /\ Head(t.queue[i]).kind = "detach" => Head(t.queue[i]).b \notin St(t)
  <1>1. t.queue[i] \in Seq(Effects)
    OBVIOUS
  <1>2. 1 \in DOMAIN t.queue[i] /\ Head(t.queue[i]) = t.queue[i][1]
    BY <1>1
  <1>3. Belongs(t, i, 1, t.queue[i][1], {})
    BY <1>2 DEF Tidy, InOrder
  <1> QED BY <1>2, <1>3 DEF Belongs

\* What ends a press is where it was, or a place nearer to the head.
LEMMA EndsNearer ==
    ASSUME World, NEW t, Sound(t, {}), NEW i \in Instances, t.queue[i] # <<>>,
           NEW u \in SessionRecords, Popped(t, u, i),
           NEW b \in Ids, NEW k \in Nat
    PROVE  /\ t.lease[b].inst \in Instances \ {i} /\ Ends(t, b, k) => Ends(u, b, k)
           /\ t.lease[b].inst = i /\ Ends(t, b, k + 1) => Ends(u, b, k)
           /\ Ends(t, b, 0) =>
                \/ Ends(u, b, 0)
                \/ Head(t.queue[i]).b = b /\ Head(t.queue[i]).kind \in {"up", "cancel"}
                \/ t.lease[b].inst \notin Instances
  <1> DEFINE j == t.lease[b].inst
             q == t.queue[i]
             r == u.queue[i]
             n == Len(t.queue[i])
  <1>1. /\ t.queue \in [Instances -> Seq(Effects)] /\ u.queue \in [Instances -> Seq(Effects)]
        /\ r = Tail(q) /\ \A x \in Instances : x # i => u.queue[x] = t.queue[x]
    BY DEF SessionRecords, Popped, Sound, Typed
  <1>2. /\ u.lease = t.lease /\ u.held = t.held /\ t.lossy \subseteq u.lossy
    BY DEF Popped
  <1>3. q \in Seq(Effects) /\ q # <<>>
    BY <1>1
  <1>4. /\ n \in Nat \ {0} /\ DOMAIN q = 1..n /\ DOMAIN r = 1..(n - 1)
        /\ \A x \in 1..(n - 1) : r[x] = q[x + 1]
        /\ Head(q) = q[1]
    BY <1>1, <1>3
  <1> HIDE DEF q, r, n
  <1>5. ASSUME NEW m \in Nat, m > 0, j = i, Ends(t, b, m) PROVE Ends(u, b, m - 1)
    <2>1. CASE b \in t.lossy \/ t.held[t.lease[b].ctl] = b
      BY <1>2, <2>1 DEF Ends
    <2>2. CASE Ended(t, b, m)
      <3>1. PICK x \in DOMAIN q : x > m /\ q[x].b = b /\ q[x].kind \in {"up", "cancel"}
        BY <1>5, <2>2 DEF Ended, q
      <3>2. /\ x - 1 \in DOMAIN r /\ r[x - 1] = q[x] /\ x - 1 > m - 1
        BY <1>4, <1>5, <3>1
      <3>3. /\ r[x - 1].b = b /\ r[x - 1].kind \in {"up", "cancel"}
        BY <3>1, <3>2
      <3>4. Ended(u, b, m - 1)
        BY <1>2, <1>5, <3>2, <3>3 DEF Ended, r
      <3> QED BY <3>4 DEF Ends
    <2> QED BY <1>5, <2>1, <2>2 DEF Ends
  <1>6. ASSUME NEW m \in Nat, j \in Instances, j # i, Ends(t, b, m) PROVE Ends(u, b, m)
    <2>1. u.queue[j] = t.queue[j] /\ u.lease[b].inst = j
      BY SMTT(30), <1>1, <1>2, <1>6
    <2>2. Ended(t, b, m) => Ended(u, b, m)
      BY <2>1 DEF Ended
    <2> QED BY <1>2, <1>6, <2>2 DEF Ends
  <1>7. ASSUME j = i, Ends(t, b, 0), ~(Head(q).b = b /\ Head(q).kind \in {"up", "cancel"})
        PROVE  Ends(u, b, 0)
    <2>1. CASE b \in t.lossy \/ t.held[t.lease[b].ctl] = b
      BY <1>2, <2>1 DEF Ends
    <2>2. CASE Ended(t, b, 0)
      <3>1. PICK x \in DOMAIN q : x > 0 /\ q[x].b = b /\ q[x].kind \in {"up", "cancel"}
        BY <1>7, <2>2 DEF Ended, q
      <3>2. x # 1
        BY <1>4, <1>7, <3>1
      <3>3. x > 1
        BY <1>4, <3>1, <3>2
      <3>4. Ended(t, b, 1)
        BY <1>7, <3>1, <3>3 DEF Ended, q
      <3>5. Ends(t, b, 1)
        BY <3>4 DEF Ends
      <3>6. 1 \in Nat /\ 1 > 0 /\ 1 - 1 = 0
        OBVIOUS
      <3> QED BY <1>5, <1>7, <3>5, <3>6
    <2> QED BY <1>7, <2>1, <2>2 DEF Ends
  <1>8. j = i /\ Ends(t, b, k + 1) => Ends(u, b, k)
    <2>1. k + 1 \in Nat /\ k + 1 > 0 /\ k + 1 - 1 = k
      OBVIOUS
    <2> QED BY <1>5, <2>1
  <1>9. j \in Instances \ {i} => (Ends(t, b, k) => Ends(u, b, k)) /\ (Ends(t, b, 0) => Ends(u, b, 0))
    BY <1>6
  <1> QED BY <1>7, <1>8, <1>9 DEF q

\* An effect that is done leaves no press open that has reached the provider.
LEMMA PopTidy ==
    ASSUME World, World', NEW t, Sound(t, {}), Tidy(t, {}), NEW i \in Instances,
           t.queue[i] # <<>>, s' \in SessionRecords, Popped(t, s', i), UNCHANGED agreed,
           Reaches(s', Head(t.queue[i]))
    PROVE  (Tidy(s, {}))'
  <1> DEFINE e == Head(t.queue[i])
             u == s'
  <1>1. /\ t.queue \in [Instances -> Seq(Effects)] /\ u.queue \in [Instances -> Seq(Effects)]
        /\ \A x \in Instances : x # i => u.queue[x] = t.queue[x]
        /\ u.queue[i] = Tail(t.queue[i])
    BY DEF SessionRecords, Popped, Sound, Typed
  <1>2. /\ u.lease = t.lease /\ u.held = t.held /\ t.lossy \subseteq u.lossy /\ St(u) = St(t)
    BY DEF Popped, St
  <1>3. Belongs(t, i, 1, e, {})
    BY <1>1, HeadBelongs
  <1>4. /\ Len(t.queue[i]) \in Nat \ {0} /\ DOMAIN t.queue[i] = 1..Len(t.queue[i])
        /\ DOMAIN u.queue[i] = 1..(Len(t.queue[i]) - 1)
        /\ \A k \in 1..(Len(t.queue[i]) - 1) : u.queue[i][k] = t.queue[i][k + 1]
        /\ e = t.queue[i][1]
    BY <1>1
  <1>5. ASSUME NEW j \in Instances, NEW k \in DOMAIN u.queue[j]
        PROVE  Belongs(u, j, k, u.queue[j][k], {})
    <2> DEFINE x == u.queue[j][k]
    <2>1. CASE j = i
      <3>0. k \in 1..(Len(t.queue[i]) - 1) /\ x = u.queue[i][k]
        BY <1>4, <1>5, <2>1
      <3>1. k \in Nat /\ k + 1 \in DOMAIN t.queue[i] /\ x = t.queue[i][k + 1]
        BY <1>4, <3>0
      <3>2. Belongs(t, i, k + 1, x, {})
        BY <3>1 DEF Tidy, InOrder
      <3>3. x.kind = "detach" => \A m \in DOMAIN u.queue[i] : m > k => u.queue[i][m].b # x.b
        <4> SUFFICES ASSUME x.kind = "detach", NEW m \in DOMAIN u.queue[i], m > k
                     PROVE  u.queue[i][m].b # x.b
          OBVIOUS
        <4>1. m + 1 \in DOMAIN t.queue[i] /\ m + 1 > k + 1 /\ u.queue[i][m] = t.queue[i][m + 1]
          BY <1>4, <3>1
        <4> HIDE DEF x
        <4> QED BY <3>2, <4>1 DEF Belongs
      <3> HIDE DEF x
      <3>4. x.kind = "down" => x.kind # "destroy"
        OBVIOUS
      <3>5. x.kind = "down" => Ends(u, x.b, k)
        <4> SUFFICES ASSUME x.kind = "down" PROVE Ends(u, x.b, k)
          OBVIOUS
        <4>1. x.b \in Ids /\ t.lease[x.b].inst = i /\ Ends(t, x.b, k + 1)
          BY <3>2, <3>4 DEF Belongs
        <4> QED BY <3>1, <4>1, EndsNearer
      <3> QED BY <1>2, <2>1, <3>2, <3>3, <3>5 DEF Belongs, x
    <2>2. CASE j # i
      <3>1. u.queue[j] = t.queue[j] /\ t.queue[j] \in Seq(Effects)
        BY <1>1, <2>2
      <3>2. k \in Nat /\ k \in DOMAIN t.queue[j] /\ x = t.queue[j][k]
        BY <3>1
      <3>3. Belongs(t, j, k, x, {})
        BY <3>2 DEF Tidy, InOrder
      <3> HIDE DEF x
      <3>4. x.kind = "down" => x.kind # "destroy"
        OBVIOUS
      <3>5. x.kind = "down" => Ends(u, x.b, k)
        <4> SUFFICES ASSUME x.kind = "down" PROVE Ends(u, x.b, k)
          OBVIOUS
        <4>1. x.b \in Ids /\ t.lease[x.b].inst = j /\ Ends(t, x.b, k)
          BY <3>3, <3>4 DEF Belongs
        <4>2. t.lease[x.b].inst \in Instances \ {i}
          BY <2>2, <4>1
        <4> QED BY <3>2, <4>1, <4>2, EndsNearer
      <3> QED BY <1>2, <3>1, <3>3, <3>5 DEF Belongs, x
    <2> QED BY <2>1, <2>2
  <1>6. ASSUME NEW b \in p'.pressed PROVE Ends(u, b, 0)
    <2>1. b \in Ids /\ 0 \in Nat /\ 0 + 1 = 1
      BY <1>6 DEF World
    <2>2. CASE b \in p.pressed
      <3>1. Ends(t, b, 0) /\ t.lease[b].inst \in Instances
        BY <2>1, <2>2 DEF Tidy, Sound, Grants, Granted, InUse
      <3>2. CASE e.b = b /\ e.kind \in {"up", "cancel"}
        BY <1>6, <3>2 DEF Reaches, Ends
      <3>3. CASE ~(e.b = b /\ e.kind \in {"up", "cancel"})
        BY <2>1, <3>1, <3>3, EndsNearer
      <3> QED BY <3>2, <3>3
    <2>3. CASE b \notin p.pressed
      <3>1. b = e.b /\ e.kind = "down"
        BY <1>6, <2>3 DEF Reaches
      <3>2. t.lease[b].inst = i /\ Ends(t, b, 1)
        <4> HIDE DEF e
        <4> QED BY <1>3, <3>1 DEF Belongs
      <3> QED BY <2>1, <3>2, EndsNearer
    <2> QED BY <2>2, <2>3
  <1>7. ASSUME NEW b \in p.attached \ p'.attached
        PROVE  b \notin St(t) /\ (b \in p.pressed => b \in u.lossy)
    <2>1. b = e.b /\ e.kind = "detach"
      BY <1>7 DEF Reaches
    <2>2. /\ b \in Ids /\ t.lease[b].inst = i /\ b \notin St(t)
          /\ \A j \in DOMAIN t.queue[i] : j > 1 => t.queue[i][j].b # b
      <3> HIDE DEF e
      <3> QED BY <1>3, <2>1 DEF Belongs
    <2>3. ASSUME b \in p.pressed PROVE b \in t.lossy
      <3>1. Ends(t, b, 0)
        BY <2>3 DEF Tidy
      <3>2. t.held[t.lease[b].ctl] # b
        <4>1. t.lease[b].ctl \in Controls /\ b # None
          BY <2>2, <2>3 DEF Sound, Grants, Granted, InUse, Ids, None
        <4> QED BY <2>2, <4>1 DEF Sound, Routes
      <3>3. ~Ended(t, b, 0)
        <4>1. ASSUME NEW j \in DOMAIN t.queue[i], t.queue[i][j].b = b,
                     t.queue[i][j].kind \in {"up", "cancel"}
              PROVE  FALSE
          <5>1. j = 1
            BY <1>4, <2>2, <4>1
          <5> QED BY <1>4, <2>1, <4>1, <5>1
        <4> QED BY <2>2, <4>1 DEF Ended
      <3> QED BY <3>1, <3>2, <3>3 DEF Ends
    <2> QED BY <1>2, <2>2, <2>3
  <1>8. ASSUME NEW b \in p'.pressed PROVE b \in p'.attached \union u.lossy
    <2>1. CASE b \in p.pressed
      BY <1>2, <1>7, <2>1 DEF Tidy
    <2>2. CASE b \notin p.pressed
      BY <1>8, <2>2 DEF Reaches
    <2> QED BY <2>1, <2>2
  <1>9. ASSUME NEW b \in St(u), u.lease[b].ready, u.lease[b].contract = agreement'
        PROVE  b \in p'.attached
    <2>1. b \in p.attached
      BY <1>2, <1>9 DEF Tidy, UsesCurrentContract, agreement
    <2> QED BY <1>2, <1>7, <1>9, <2>1
  <1>10. (InOrder(s, {}))'
    <2>1. InOrder(u, {})
      BY <1>5 DEF InOrder
    <2> QED BY <2>1
  <1>11. \A c \in Controls : s'.held[c] # None => s'.lease[s'.held[c]].attached
    BY <1>2 DEF Tidy
  <1>12. (\A b \in p.pressed \ {} : Ends(s, b, 0))'
    <2>1. \A b \in p'.pressed : Ends(s', b, 0)
      BY <1>6
    <2> QED BY <2>1
  <1>13. (\A b \in St(s) : s.lease[b].ready /\ UsesCurrentContract(s.lease[b]) => b \in p.attached)'
    BY <1>9 DEF UsesCurrentContract
  <1>14. p'.pressed \subseteq p'.attached \union s'.lossy
    BY <1>8
  <1> QED BY <1>10, <1>11, <1>12, <1>13, <1>14 DEF Tidy

\* A detach is where it was, or a place nearer to the head.
LEMMA DetachedNearer ==
    ASSUME NEW t, NEW i \in Instances, t.queue \in [Instances -> Seq(Effects)], t.queue[i] # <<>>,
           NEW u, Popped(t, u, i), NEW b, t.lease[b].inst \in Instances
    PROVE  /\ \A k \in Nat : t.lease[b].inst # i /\ Detached(t, b, k) => Detached(u, b, k)
           /\ \A k \in Nat : t.lease[b].inst = i /\ Detached(t, b, k + 1) =>
                 \/ Detached(u, b, k)
                 \/ Head(t.queue[i]).kind = "detach" /\ Head(t.queue[i]).b = b
           /\ (\E k \in Nat : Detached(t, b, k)) =>
                 \/ \E k \in Nat : Detached(u, b, k)
                 \/ Head(t.queue[i]).kind = "detach" /\ Head(t.queue[i]).b = b
  <1> DEFINE q == t.queue[i]
             r == Tail(q)
             n == Len(q)
  <1>1. /\ u.queue[i] = r /\ \A j \in Instances : j # i => u.queue[j] = t.queue[j]
        /\ u.lease = t.lease
    BY DEF Popped
  <1>2. q \in Seq(Effects) /\ q # <<>>
    OBVIOUS
  <1>3. /\ n \in Nat \ {0} /\ DOMAIN q = 1..n /\ DOMAIN r = 1..(n - 1)
        /\ \A x \in 1..(n - 1) : r[x] = q[x + 1]
        /\ Head(q) = q[1]
    BY <1>2
  <1> HIDE DEF q, r, n
  <1>4. ASSUME NEW k \in Nat, t.lease[b].inst # i, Detached(t, b, k) PROVE Detached(u, b, k)
    BY <1>1, <1>4 DEF Detached
  <1>5. ASSUME NEW k \in Nat, t.lease[b].inst = i, Detached(t, b, k + 1),
               ~(Head(q).kind = "detach" /\ Head(q).b = b)
        PROVE  Detached(u, b, k)
    <2>1. PICK j \in DOMAIN q : j < k + 1 /\ q[j].kind = "detach" /\ q[j].b = b
      BY <1>5 DEF Detached, q
    <2>2. j # 1
      BY <1>3, <1>5, <2>1
    <2>3. j - 1 \in DOMAIN r /\ r[j - 1] = q[j] /\ j - 1 < k
      BY <1>3, <2>1, <2>2
    <2> QED BY <1>1, <1>5, <2>1, <2>3 DEF Detached
  <1>6. ASSUME NEW k \in Nat, Detached(t, b, k), ~(Head(q).kind = "detach" /\ Head(q).b = b)
        PROVE  \E m \in Nat : Detached(u, b, m)
    <2>1. CASE t.lease[b].inst # i
      BY <1>4, <1>6, <2>1
    <2>2. CASE t.lease[b].inst = i
      <3>1. Detached(t, b, k + 1)
        <4>1. PICK j \in DOMAIN q : j < k /\ q[j].kind = "detach" /\ q[j].b = b
          BY <1>6, <2>2 DEF Detached, q
        <4>2. j < k + 1
          BY <1>3, <4>1
        <4> QED BY <2>2, <4>1, <4>2 DEF Detached, q
      <3> QED BY <1>5, <1>6, <2>2, <3>1
    <2> QED BY <2>1, <2>2
  <1> QED BY <1>4, <1>5, <1>6 DEF q

\* What is attached keeps its instance when an effect is done.
LEMMA PopHoused ==
    ASSUME World, World', NEW t, Sound(t, {}), Tidy(t, {}), Housed(t, Standing),
           NEW i \in Instances, t.queue[i] # <<>>, Popped(t, s', i), UNCHANGED agreed,
           Reaches(s', Head(t.queue[i])),
           \/ p'.created = p.created
           \/ Head(t.queue[i]).kind = "destroy" /\ p'.created = p.created \ {i},
           at'[i] = "begin", \A j \in Instances : j # i => at'[j] = at[j]
    PROVE  (Housed(s, p.attached))'
  <1> DEFINE u == s'
             A == p'.attached
             e == Head(t.queue[i])
  <1>0. /\ agreement' = agreement /\ agreed' = agreed
        /\ t.queue \in [Instances -> Seq(Effects)] /\ Standing = A /\ A \subseteq p.attached
        /\ A \subseteq Ids
    BY DEF agreement, Sound, Typed, SessionRecords, Standing, Reaches, World
  <1>1. /\ u.lease = t.lease /\ t.lossy \subseteq u.lossy /\ St(u) = St(t) /\ u.ops = t.ops
        /\ u.rec = t.rec /\ u.queue[i] = Tail(t.queue[i])
        /\ \A j \in Instances : j # i => u.queue[j] = t.queue[j]
    BY <1>0 DEF Popped, St
  <1>2. /\ Len(t.queue[i]) \in Nat \ {0} /\ DOMAIN t.queue[i] = 1..Len(t.queue[i])
        /\ DOMAIN u.queue[i] = 1..(Len(t.queue[i]) - 1)
        /\ \A k \in 1..(Len(t.queue[i]) - 1) : u.queue[i][k] = t.queue[i][k + 1]
        /\ e = t.queue[i][1]
    BY <1>0, <1>1
  <1> HIDE DEF e
  <1>3. \A b \in A : t.lease[b].inst \in Instances
    BY <1>0 DEF Sound, Grants, InUse, Granted
  <1>4. \A b \in A : e.kind = "detach" /\ e.b = b => b \in u.lossy
    BY DEF Reaches, e
  <1>5. ASSUME e.kind = "destroy"
        PROVE  /\ ~t.rec[i].started
               /\ \A b \in A : t.lease[b].inst = i => b \in t.lossy
    <2>1. InPlace(t, A, i, 1, t.queue[i][1])
      BY <1>0, <1>2 DEF Housed
    <2>2. Emptied(t, A, i, 1)
      BY <1>2, <1>5, <2>1 DEF InPlace
    <2>3. \A b \in A : t.lease[b].inst = i => ~Detached(t, b, 1)
      BY <1>2 DEF Detached
    <2> QED BY <2>2, <2>3 DEF Emptied
  <1>6. \A j \in Instances : j \in p.created =>
            j \in p'.created \/ (j = i /\ e.kind = "destroy")
    BY DEF e
  <1>7. ASSUME NEW b \in A PROVE (Sheltered(s, b))'
    <2>1. b \in u.lossy \/ Sheltered(t, b)
      BY <1>0 DEF Housed
    <2>2. CASE b \in u.lossy
      BY <2>2 DEF Sheltered
    <2>3. CASE b \notin u.lossy
      <3>1. /\ t.lease[b].inst \in p.created
            /\ (b \in St(t) /\ t.lease[b].attached) \/ (\E k \in Nat : Detached(t, b, k))
        BY <1>1, <2>1, <2>3 DEF Sheltered
      <3>2. t.lease[b].inst \in p'.created
        BY <1>1, <1>3, <1>5, <1>6, <2>3, <3>1
      <3>3. (\E k \in Nat : Detached(t, b, k)) => (\E k \in Nat : Detached(u, b, k))
        BY <1>0, <1>3, <1>4, <2>3, DetachedNearer DEF e
      <3>4. /\ u.lease[b].inst \in p'.created
            /\ (b \in St(u) /\ u.lease[b].attached) \/ (\E k \in Nat : Detached(u, b, k))
        BY <1>1, <3>1, <3>2, <3>3
      <3> QED BY <3>4 DEF Sheltered
    <2> QED BY <2>2, <2>3
  <1>8. ASSUME NEW j \in Instances, NEW k \in DOMAIN u.queue[j]
        PROVE  (InPlace(s, p.attached, j, k, s.queue[j][k]))'
    <2> DEFINE x == u.queue[j][k]
               m == IF j = i THEN k + 1 ELSE k
    <2>1. /\ k \in Nat /\ m \in DOMAIN t.queue[j] /\ x = t.queue[j][m]
      <3>1. CASE j = i
        <4>1. k \in 1..(Len(t.queue[i]) - 1)
          BY <1>2, <3>1
        <4>2. k \in Nat /\ k + 1 \in 1..Len(t.queue[i]) /\ u.queue[i][k] = t.queue[i][k + 1]
          BY <1>2, <4>1
        <4> QED BY <1>2, <3>1, <4>2
      <3>2. CASE j # i
        <4>1. u.queue[j] = t.queue[j] /\ t.queue[j] \in Seq(Effects)
          BY <1>0, <1>1, <3>2
        <4>2. k \in Nat
          BY <4>1
        <4> QED BY <3>2, <4>1, <4>2
      <3> QED BY <3>1, <3>2
    <2>2. InPlace(t, A, j, m, x)
      BY <1>0, <2>1 DEF Housed
    <2> HIDE DEF x
    <2>3. ASSUME x.kind = "destroy" PROVE Emptied(u, A, j, k)
      <3>1. Emptied(t, A, j, m)
        BY <2>2, <2>3 DEF InPlace
      <3>2. ASSUME NEW b \in A, u.lease[b].inst = j PROVE b \in u.lossy \/ Detached(u, b, k)
        <4>1. b \in t.lossy \/ Detached(t, b, m)
          BY <1>1, <3>1, <3>2 DEF Emptied
        <4>2. ASSUME Detached(t, b, m), b \notin u.lossy PROVE Detached(u, b, k)
          <5>1. CASE j = i
            <6>1. Detached(t, b, k + 1) /\ t.lease[b].inst = i /\ k \in Nat
              BY <1>1, <2>1, <3>2, <4>2, <5>1
            <6> QED BY <1>0, <1>3, <1>4, <4>2, <6>1, DetachedNearer DEF e
          <5>2. CASE j # i
            <6>1. Detached(t, b, k) /\ t.lease[b].inst # i /\ k \in Nat
              BY <1>1, <2>1, <3>2, <4>2, <5>2
            <6> QED BY <1>0, <1>3, <6>1, DetachedNearer
          <5> QED BY <5>1, <5>2
        <4> QED BY <1>1, <4>1, <4>2
      <3>3. ASSUME NEW y \in DOMAIN u.queue[j], y < k, u.queue[j][y].kind = "prepare"
            PROVE  LET z == u.queue[j][y] IN
                   <<z.op, z.b>> \notin u.ops /\ z.meta # u.rec[j].meta
        <4> DEFINE w == IF j = i THEN y + 1 ELSE y
        <4>1. w \in DOMAIN t.queue[j] /\ w < m /\ u.queue[j][y] = t.queue[j][w]
          <5>1. CASE j = i
            <6>1. y \in 1..(Len(t.queue[i]) - 1)
              BY <1>2, <3>3, <5>1
            <6>2. y + 1 \in 1..Len(t.queue[i]) /\ u.queue[i][y] = t.queue[i][y + 1] /\ y + 1 < k + 1
              BY <1>2, <2>1, <3>3, <6>1
            <6> QED BY <1>2, <5>1, <6>2
          <5>2. CASE j # i
            BY <1>1, <3>3, <5>2
          <5> QED BY <5>1, <5>2
        <4> HIDE DEF w, m
        <4>2. LET z == t.queue[j][w] IN
              z.kind = "prepare" => <<z.op, z.b>> \notin t.ops /\ z.meta # t.rec[j].meta
          BY <3>1, <4>1 DEF Emptied
        <4> QED BY <1>1, <3>3, <4>1, <4>2
      <3>4. ~u.rec[j].started
        BY <1>1, <3>1 DEF Emptied
      <3> QED BY <3>2, <3>3, <3>4 DEF Emptied
    <2>4. x.kind = "prepare" =>
            /\ x.meta # None
            /\ (IsDue(t, x) /\ x.meta = t.rec[j].meta) => t.rec[j].contract = agreement
      BY <2>2 DEF InPlace
    <2>5. IsDue(t, x) <=> <<x.op, x.b>> \in u.ops /\ u.lease[x.b].contract = agreement'
      BY <1>0, <1>1 DEF IsDue, UsesCurrentContract
    <2>6. x.kind = "prepare" =>
            /\ x.meta # None
            /\ (IsDue(t, x) /\ x.meta = u.rec[j].meta) => u.rec[j].contract = agreement'
      BY <1>0, <1>1, <2>4
    <2>7. (s.queue[j][k])' = x
      BY DEF x
    <2> QED BY <2>3, <2>5, <2>6, <2>7 DEF InPlace, IsDue, UsesCurrentContract
  <1>9. ASSUME NEW j \in Instances PROVE (Registered(s, j))'
    <2>1. Registered(t, j)
      BY DEF Housed
    <2>2. j \in p.created => j \in p'.created \/ (j = i /\ ~t.rec[i].started)
      BY <1>5, <1>6
    <2>3. /\ u.rec[j].contract \in 0..agreed'.last
          /\ (u.rec[j].started /\ agreement' # None /\ u.rec[j].contract = agreement') => j \in p'.created
      BY <1>0, <1>1, <2>1, <2>2 DEF Registered
    <2>4. at'[j] = "accept" => j # i /\ at[j] = "accept"
      OBVIOUS
    <2>5. (IsDue(s, Head(s.queue[j])))' <=> IsDue(t, Head(u.queue[j]))
      BY <1>0, <1>1 DEF IsDue, UsesCurrentContract
    <2>6. at'[j] = "accept" =>
            /\ u.queue[j] # <<>> /\ Head(u.queue[j]).kind = "prepare"
            /\ (\/ (IsDue(s, Head(s.queue[j])))'
                \/ /\ Head(u.queue[j]).meta = u.rec[j].meta
                   /\ agreement' # None /\ u.rec[j].contract = agreement')
               => j \in p'.created
      <3> SUFFICES ASSUME at'[j] = "accept"
                   PROVE  /\ u.queue[j] # <<>> /\ Head(u.queue[j]).kind = "prepare"
                          /\ (\/ (IsDue(s, Head(s.queue[j])))'
                              \/ /\ Head(u.queue[j]).meta = u.rec[j].meta
                                 /\ agreement' # None /\ u.rec[j].contract = agreement')
                             => j \in p'.created
        OBVIOUS
      <3>1. j # i /\ at[j] = "accept" /\ u.queue[j] = t.queue[j]
        BY <1>1, <2>4
      <3>2. /\ t.queue[j] # <<>> /\ Head(t.queue[j]).kind = "prepare"
            /\ (\/ IsDue(t, Head(t.queue[j]))
                \/ /\ Head(t.queue[j]).meta = t.rec[j].meta
                   /\ agreement # None /\ t.rec[j].contract = agreement) => j \in p.created
        BY ZenonT(30), <2>1, <3>1 DEF Registered
      <3> QED BY <1>0, <1>1, <2>2, <2>5, <3>1, <3>2
    <2> QED BY ZenonT(30), <2>3, <2>6 DEF Registered
  <1>10. (\A b \in p.attached : Sheltered(s, b))'
    BY <1>7
  <1>11. (\A j \in Instances : \A k \in DOMAIN s.queue[j] : InPlace(s, p.attached, j, k, s.queue[j][k]))'
    BY <1>8
  <1>12. (\A j \in Instances : Registered(s, j))'
    BY <1>9
  <1> QED BY <1>10, <1>11, <1>12 DEF Housed

\* The heads of the queues are where they were.
LEMMA HeadsStay ==
    ASSUME NEW t, NEW u, t.queue \in [Instances -> Seq(Effects)],
           u.queue \in [Instances -> Seq(Effects)], Extends(t, u),
           NEW i \in Instances, t.queue[i] # <<>>
    PROVE  /\ u.queue[i] # <<>> /\ Head(u.queue[i]) = Head(t.queue[i])
           /\ Head(t.queue[i]) \in Queued(t)
  <1>1. t.queue[i] \in Seq(Effects) /\ u.queue[i] \in Seq(Effects)
    OBVIOUS
  <1>2. Len(t.queue[i]) \in Nat \ {0} /\ Head(t.queue[i]) = t.queue[i][1]
    BY <1>1
  <1>3. Len(u.queue[i]) \in Nat /\ Len(u.queue[i]) >= 1 /\ u.queue[i][1] = t.queue[i][1]
    BY <1>1, <1>2 DEF Extends
  <1>4. u.queue[i] # <<>> /\ Head(u.queue[i]) = u.queue[i][1]
    BY <1>1, <1>3
  <1>5. t.queue[i][1] \in ToSet(t.queue[i])
    BY <1>1, <1>2 DEF ToSet
  <1> QED BY <1>2, <1>3, <1>4, <1>5 DEF Queued

\* What is attached has its instance, that which stays attached in particular.
LEMMA StandingIsHoused ==
    ASSUME Inv PROVE Housed(s, Standing) /\ Tidy(s, {})
  <1>1. Standing \subseteq p.attached
    BY DEF Standing
  <1> QED BY <1>1, HousedFewer DEF Inv

\* The preparations under way go on when the session has gone from s to s'.
LEMMA SectionKeeps ==
    ASSUME Inv, Handled(s, s'), UNCHANGED <<agreed, hw, scenario>>, World',
           \A b \in p'.attached \union p'.pressed :
               \/ b \in p.attached \union p.pressed
               \/ b \in St(s') /\ UsesCurrentContract(s'.lease[b]),
           Parted(s'), Provided(s'),
           at' \in [Instances -> Stages],
           \A i \in Instances :
               at'[i] # at[i] => /\ HeadIs(i, {"prepare"})
                                 /\ at'[i] = "ready" =>
                                      /\ s'.lease[Head(s.queue[i]).b].attached
                                      /\ Head(s.queue[i]).b \in p'.attached
                                 /\ at'[i] = "accept" => i \in p'.created
    PROVE  Inv'
  <1>0. /\ s.queue \in [Instances -> Seq(Effects)] /\ s'.queue \in [Instances -> Seq(Effects)]
        /\ Sound(s', {}) /\ Idle(s') /\ Continues(s, s') /\ Tidy(s', {})
    BY DEF Inv, Handled, Follows, Sound, Typed, SessionRecords
  <1>1. Sound(s, {})'
    <2>1. p'.attached \union p'.pressed \subseteq Ids
      BY DEF World
    <2> QED BY <1>0, <2>1, SoundCarries
  <1>2. Idle(s)'
    BY <1>0
  <1>3. ASSUME NEW i \in Instances, HeadIs(i, {"prepare"})
        PROVE  /\ HeadIs(i, {"prepare"})' /\ Head(s'.queue[i]) = Head(s.queue[i])
               /\ Head(s.queue[i]) \in Queued(s)
    <2>1. s.queue[i] # <<>> /\ Head(s.queue[i]).kind \in {"prepare"} /\ Extends(s, s')
      BY <1>0, <1>3 DEF HeadIs, Continues
    <2>2. /\ s'.queue[i] # <<>> /\ Head(s'.queue[i]) = Head(s.queue[i])
          /\ Head(s.queue[i]) \in Queued(s)
      BY <1>0, <2>1, HeadsStay
    <2> QED BY <2>1, <2>2 DEF HeadIs
  <1>4. Underway'
    BY <1>3 DEF Inv, Underway
  <1>5. ReadyIsAttached'
    <2> SUFFICES ASSUME NEW i \in Instances, at'[i] = "ready",
                        <<Head(s'.queue[i]).op, Head(s'.queue[i]).b>> \in s'.ops
                 PROVE  (AttachedOnBothSides(s, Head(s.queue[i]).b))'
      BY SMTT(30) DEF ReadyIsAttached
    <2> DEFINE e == Head(s.queue[i])
    <2>1. HeadIs(i, {"prepare"})
      BY DEF Inv, Underway
    <2>2. Head(s'.queue[i]) = e /\ e \in Queued(s)
      BY SMTT(30), <1>3, <2>1
    <2>3. CASE at'[i] = at[i]
      <3>1. /\ <<e.op, e.b>> \in s.ops /\ s'.lease[e.b].contract = s.lease[e.b].contract
            /\ s.lease[e.b].attached => s'.lease[e.b].attached
        BY ZenonT(60), <1>0, <2>2 DEF Continues, Recognises
      <3>2. AttachedOnBothSides(s, e.b)
        <4>1. ReadyIsAttached
          BY DEF Inv
        <4> QED BY ZenonT(60), <2>3, <3>1, <4>1 DEF ReadyIsAttached
      <3>3. e.b \in St(s')
        <4>1. Ledger(s', {}) /\ <<e.op, e.b>>[2] = e.b
          BY <1>0 DEF Sound
        <4> QED BY <2>2, <4>1 DEF Ledger
      <3>4. e.b \in p.attached => e.b \in p'.attached
        BY <3>3 DEF Parted
      <3>5. s'.lease[e.b].attached /\ (s'.lease[e.b].contract = agreement' => e.b \in p'.attached)
        BY ZenonT(60), <3>1, <3>2, <3>4 DEF AttachedOnBothSides, UsesCurrentContract, agreement
      <3> QED BY <2>2, <3>5 DEF AttachedOnBothSides, UsesCurrentContract
    <2>4. CASE at'[i] # at[i]
      <3>1. s'.lease[e.b].attached /\ e.b \in p'.attached
        BY <2>4
      <3> QED BY <2>2, <3>1 DEF AttachedOnBothSides
    <2> QED BY <2>3, <2>4
  <1>6. (May("stall") \/ Outstanding(s))'
    <2>1. CASE May("stall")
      BY <2>1 DEF May
    <2>2. CASE ~May("stall")
      <3>1. Outstanding(s')
        BY <1>0, <2>2 DEF Inv, Continues
      <3> QED BY <3>1
    <2> QED BY <2>1, <2>2
  <1>7. (Tidy(s, {}))'
    BY <1>0, TidyCarries
  <1>8. (Housed(s, p.attached))'
    <2>1. Housed(s', Standing)
      BY StandingIsHoused DEF Handled, Follows
    <2>2. ASSUME NEW i \in Instances, at'[i] = "accept"
          PROVE  \/ at[i] = "accept"
                 \/ s'.queue[i] # <<>> /\ Head(s'.queue[i]).kind = "prepare" /\ i \in p'.created
      <3>1. CASE at'[i] # at[i]
        <4>1. HeadIs(i, {"prepare"}) /\ i \in p'.created
          BY <2>2, <3>1
        <4>2. (HeadIs(i, {"prepare"}))'
          BY <1>3, <4>1
        <4> QED BY <4>1, <4>2 DEF HeadIs
      <3> QED BY <2>2, <3>1
    <2> QED BY <2>1, <2>2, HousedCarries
  <1> QED BY <1>1, <1>2, <1>4, <1>5, <1>6, <1>7, <1>8 DEF Inv

\* The effect at the head of i's queue is done, after the session has become t.
LEMMA EffectKeeps ==
    ASSUME Inv, NEW t, Handled(s, t), NEW i \in Instances, s.queue[i] # <<>>,
           s' \in SessionRecords, Popped(t, s', i),
           UNCHANGED <<agreed, hw, scenario>>, World',
           \A b \in p'.attached \union p'.pressed :
               \/ b \in p.attached \union p.pressed
               \/ b \in St(t) /\ UsesCurrentContract(t.lease[b]),
           Reaches(s', Head(s.queue[i])),
           \/ p'.created = p.created
           \/ Head(s.queue[i]).kind = "destroy" /\ p'.created = p.created \ {i},
           at' = [at EXCEPT ![i] = "begin"],
           May("stall") \/ LET e == Head(s.queue[i]) IN
                           e.kind # "prepare" \/ <<e.op, e.b>> \notin t.ops
    PROVE  Inv'
  <1> DEFINE e == Head(s.queue[i])
  <1>0. /\ s.queue \in [Instances -> Seq(Effects)] /\ t.queue \in [Instances -> Seq(Effects)]
        /\ Sound(t, {}) /\ Idle(t) /\ Continues(s, t) /\ Tidy(t, {}) /\ World
    BY DEF Inv, Handled, Follows, Sound, Typed, SessionRecords
  <1>1. \A j \in Instances : s.queue[j] # <<>> =>
            /\ t.queue[j] # <<>> /\ Head(t.queue[j]) = Head(s.queue[j])
            /\ Head(s.queue[j]) \in Queued(s)
    BY <1>0, HeadsStay DEF Continues
  <1>2. /\ Sound(s', {}) /\ Idle(s')
        /\ \A j \in Instances : j # i => s'.queue[j] = t.queue[j]
    BY <1>0, <1>1, PopKeeps
  <1>3. Sound(s, {})'
    <2>1. p'.attached \union p'.pressed \subseteq Ids
      BY DEF World
    <2>2. St(s') = St(t) /\ s'.lease = t.lease
      BY DEF St, Popped
    <2> QED BY <1>2, <2>1, <2>2, SoundCarries
  <1>4. Idle(s)'
    BY <1>2
  <1>5. /\ at \in [Instances -> Stages] /\ at' \in [Instances -> Stages] /\ at'[i] = "begin"
        /\ \A j \in Instances : j # i => at'[j] = at[j]
        /\ \A j \in Instances : at[j] # "begin" => s.queue[j] # <<>> /\ HeadIs(j, {"prepare"})
    BY DEF Inv, Underway, Stages, HeadIs
  <1>6. \A j \in Instances : at'[j] # "begin" =>
            /\ j # i /\ at[j] = at'[j] /\ s'.queue[j] # <<>>
            /\ Head(s'.queue[j]) = Head(s.queue[j]) /\ Head(s.queue[j]) \in Queued(s)
            /\ HeadIs(j, {"prepare"})
    BY <1>1, <1>2, <1>5
  <1>7. Underway'
    BY SMTT(30), <1>5, <1>6 DEF Underway, HeadIs
  <1>8. ReadyIsAttached'
    <2> SUFFICES ASSUME NEW j \in Instances, at'[j] = "ready",
                        <<Head(s'.queue[j]).op, Head(s'.queue[j]).b>> \in s'.ops
                 PROVE  (AttachedOnBothSides(s, Head(s.queue[j]).b))'
      BY SMTT(30) DEF ReadyIsAttached
    <2> DEFINE x == Head(s.queue[j])
    <2>1. Head(s'.queue[j]) = x /\ x \in Queued(s) /\ at[j] = "ready"
      BY <1>6
    <2>2. s'.ops = t.ops /\ s'.lease = t.lease
      BY SMTT(30) DEF Popped
    <2>3. /\ <<x.op, x.b>> \in s.ops /\ t.lease[x.b].contract = s.lease[x.b].contract
          /\ s.lease[x.b].attached => t.lease[x.b].attached
      BY <1>0, <2>1, <2>2 DEF Continues, Recognises
    <2>4. AttachedOnBothSides(s, x.b)
      <3>1. ReadyIsAttached
        BY DEF Inv
      <3> QED BY ZenonT(60), <2>1, <2>3, <3>1 DEF ReadyIsAttached
    <2>5. x.b \in St(t)
      <3>1. Ledger(t, {}) /\ <<x.op, x.b>>[2] = x.b
        BY <1>0 DEF Sound
      <3> QED BY <2>1, <2>2, <3>1 DEF Ledger
    <2>6. x.b \in p.attached => x.b \in p'.attached
      <3>1. e.kind = "detach" => e.b \notin St(t)
        BY ZenonT(60), <1>0, <1>1, HeadBelongs
      <3> QED BY <2>5, <3>1 DEF Reaches
    <2>7. s'.lease[x.b].attached /\ (s'.lease[x.b].contract = agreement' => x.b \in p'.attached)
      BY <2>2, <2>3, <2>4, <2>6 DEF AttachedOnBothSides, UsesCurrentContract, agreement
    <2> QED BY <2>1, <2>7 DEF AttachedOnBothSides, UsesCurrentContract
  <1>9. (May("stall") \/ Outstanding(s))'
    <2>1. CASE May("stall")
      BY <2>1 DEF May
    <2>2. CASE ~May("stall")
      <3>1. Outstanding(t)
        BY <1>0, <2>2 DEF Inv, Continues
      <3>2. Head(t.queue[i]) = e /\ t.queue[i] # <<>>
        BY <1>1
      <3>3. e.kind # "prepare" \/ <<e.op, e.b>> \notin t.ops
        BY <2>2
      <3>4. Outstanding(s')
        BY <1>0, <3>1, <3>2, <3>3, PopOutstanding
      <3> QED BY <3>4
    <2> QED BY <2>1, <2>2
  <1>10. (Tidy(s, {}))'
    <2>1. Head(t.queue[i]) = e /\ t.queue[i] # <<>>
      BY <1>1
    <2> QED BY <1>0, <2>1, PopTidy
  <1>11. (Housed(s, p.attached))'
    <2>1. Head(t.queue[i]) = e /\ t.queue[i] # <<>>
      BY <1>1
    <2>2. Housed(t, Standing)
      BY StandingIsHoused DEF Handled, Follows
    <2> QED BY <1>0, <1>5, <2>1, <2>2, PopHoused
  <1> QED BY <1>3, <1>4, <1>7, <1>8, <1>9, <1>10, <1>11 DEF Inv

\* A section that leaves the provider and the effects under way alone.
LEMMA PlainSectionKeeps ==
    ASSUME Inv, Handled(s, s'), UNCHANGED <<at, offer, listed, agreed, hw, p, scenario>>
    PROVE  Inv'
  <1>1. World'
    BY DEF Inv, World
  <1>2. at' \in [Instances -> Stages] /\ \A i \in Instances : at'[i] = at[i]
    BY DEF Inv, Underway
  <1>3. Parted(s') /\ Provided(s')
    BY DEF Parted, Provided
  <1> QED BY <1>1, <1>2, <1>3, SectionKeeps

\* What the invariant says of the session, the provider and the preparations.
LEMMA InvFacts ==
    ASSUME Inv
    PROVE  /\ World /\ Sound(s, {}) /\ Idle(s) /\ Handled(s, s) /\ s \in SessionRecords
           /\ p.attached \union p.pressed \subseteq Ids
           /\ at \in [Instances -> Stages] /\ Tidy(s, {})
           /\ Housed(s, p.attached)
  BY FollowsItself DEF Inv, Handled, Sound, Typed, World, Underway

\* What leaves bindings only is a section.
LEMMA LeavesIsHandled ==
    ASSUME NEW t, NEW u, Sound(t, {}), Idle(t), Leaves(t, u)
    PROVE  Handled(t, u)
  <1>1. ASSUME u.page = None \/ u.stopped PROVE u.stored = <<>>
    <2>1. t.stored = <<>>
      BY <1>1 DEF Leaves, Idle
    <2>2. St(t) = {}
      BY <2>1 DEF St, ToSet
    <2>3. St(u) = {}
      BY <2>2 DEF Leaves
    <2>4. u.stored \in Seq(Ids)
      BY DEF Leaves, Sound, Typed, SessionRecords
    <2>5. Len(u.stored) = 0
      <3>1. Len(u.stored) \in Nat /\ DOMAIN u.stored = 1..Len(u.stored)
        BY <2>4
      <3>2. ASSUME Len(u.stored) # 0 PROVE FALSE
        <4>1. 1 \in DOMAIN u.stored
          BY <3>1, <3>2
        <4> QED BY <2>3, <4>1 DEF St, ToSet
      <3> QED BY <3>2
    <2> QED BY <2>4, <2>5, EmptySeq
  <1> QED BY <1>1 DEF Handled, Leaves, Idle

----------------------------------------------------------------------------
(* The invariant: handlers *)

\* The handlers of the session, one lemma each: AvailabilityChanged keeps the invariant.
LEMMA AvailabilityKeeps ==
    ASSUME Inv, AvailabilityChanged PROVE Inv'
  <1>1. Handled(s, s')
    BY InvFacts, NotifiedKeeps DEF AvailabilityChanged, CanInstall
  <1> QED BY <1>1, PlainSectionKeeps DEF AvailabilityChanged

\* A page is shown.
LEMMA ShowPageKeeps ==
    ASSUME Inv, NEW g \in Pages, ShowPage(g) PROVE Inv'
  <1>1. Handled(s, s')
    BY InvFacts, CommitPageKeeps DEF ShowPage, CanInstall
  <1> QED BY <1>1, PlainSectionKeeps DEF ShowPage, environment

\* The configuration is replaced,
LEMMA ReplaceConfigKeeps ==
    ASSUME Inv, NEW g \in Pages, ReplaceConfig(g) PROVE Inv'
  <1>1. Handled(s, s')
    BY InvFacts, ReplaceIsHandled DEF ReplaceConfig, CanInstall
  <1> QED BY <1>1, PlainSectionKeeps DEF ReplaceConfig, environment

\* or removed.
LEMMA RemoveConfigKeeps ==
    ASSUME Inv, RemoveConfig PROVE Inv'
  <1> DEFINE u == ClearPage(s)
  <1>1. Sound(u, {}) /\ u.stored = <<>> /\ Follows(s, u)
    BY InvFacts, ClearPageKeeps
  <1> HIDE DEF u
  <1>2. Handled(s, u)
    BY <1>1 DEF Handled, Idle
  <1>3. Handled(s, s')
    BY <1>2 DEF RemoveConfig, u
  <1> QED BY <1>3, PlainSectionKeeps DEF RemoveConfig, environment

\* The session is closed.
LEMMA StopInvariant ==
    ASSUME Inv, Stop PROVE Inv'
  <1>1. Handled(s, s')
    BY InvFacts, StopKeeps DEF Stop
  <1> QED BY <1>1, PlainSectionKeeps DEF Stop, environment

\* A control is pressed: what its input is routed to is stored and attached.
LEMMA PressKeeps ==
    ASSUME Inv, NEW c \in Controls, Press(c) PROVE Inv'
  <1> DEFINE t == [s EXCEPT !.suppressed = @ \ {c}]
             b == Pressed(s, c)
  <1>1. Handled(s, t) /\ t.stored = s.stored /\ t.lease = s.lease
    BY InvFacts, ExpectingIsHandled
  <1> HIDE DEF t
  <1>2. ASSUME b # None PROVE b \in St(t) /\ t.lease[b].attached
    <2>1. s.input[c] = b
      BY <1>2 DEF Pressed
    <2>2. b \in s.authority
      BY <1>2, <2>1, InvFacts DEF Sound, Routes
    <2>3. b \in St(s) /\ s.lease[b].attached
      BY <2>2, InvFacts DEF Sound, Routes
    <2> QED BY <1>1, <2>3 DEF St
  <1>3. Handled(s, s')
    <2>1. s' = IF b # None THEN Deliver(t, b, "down") ELSE t
      BY DEF Press, t
    <2>2. CASE b # None
      <3>1. Sound(t, {}) /\ Idle(t)
        BY <1>1 DEF Handled
      <3>2. Handled(t, Deliver(t, b, "down"))
        BY <1>2, <2>2, <3>1, InvFacts, PressIsHandled
      <3> QED BY <1>1, <2>1, <2>2, <3>2, InvFacts, HandledTransitively
    <2>3. CASE b = None
      BY <1>1, <2>1, <2>3
    <2> QED BY <2>2, <2>3
  <1> QED BY <1>3, PlainSectionKeeps DEF Press, environment

\* A control is released: what is held is stored.
LEMMA ReleaseKeeps ==
    ASSUME Inv, NEW c \in Controls, Release(c) PROVE Inv'
  <1>1. s.held[c] # None /\ s.held[c] \in St(s)
    BY InvFacts DEF Release, Sound, Routes
  <1>2. Contains(s.stored, s.held[c])
    <2>1. s.stored \in Seq(Ids)
      BY InvFacts DEF SessionRecords
    <2> QED BY <1>1, <2>1, ContainsIsMember DEF St
  <1>3. s' = Deliver(Taken(s, c), s.held[c], "up")
    BY <1>2 DEF Release
  <1>4. Handled(s, s')
    BY <1>1, <1>3, InvFacts, ReleaseIsHandled
  <1> QED BY <1>4, PlainSectionKeeps DEF Release, environment

\* A binding that may command is stored.
LEMMA AuthorizedIsStored ==
    ASSUME Inv, NEW b, HasAuthority(b) PROVE b \in St(s)
  <1>1. s.stored \in Seq(Ids)
    BY InvFacts DEF SessionRecords
  <1> QED BY <1>1, ContainsIsMember DEF HasAuthority, St

\* A command comes under an agreement that has been replaced.
LEMMA StaleCommandKeeps ==
    ASSUME Inv, NEW b \in Ids, StaleCommand(b) PROVE Inv'
  <1>1. Handled(s, s')
    BY InvFacts, NotifiedKeeps DEF StaleCommand, CanInstall
  <1> QED BY <1>1, PlainSectionKeeps DEF StaleCommand, environment

\* The provider has lost the instance of a binding.
LEMMA StaleRejectedKeeps ==
    ASSUME Inv, NEW b \in Ids, StaleRejected(b) PROVE Inv'
  <1> DEFINE t == [s EXCEPT !.lease[b].recoveries = @ + 1]
  <1>1. b \in St(s)
    BY AuthorizedIsStored DEF StaleRejected, Authorized, CommandAuthorized
  <1>2. Handled(s, t) /\ t.stored = s.stored
    BY <1>1, InvFacts, RecoveryIsHandled
  <1>3. s' \in {s, t, Activate(t, b, TRUE)}
    BY DEF StaleRejected, Recovered
  <1> HIDE DEF t
  <1>4. Handled(s, Activate(t, b, TRUE))
    <2> DEFINE u == Activate(t, b, TRUE)
    <2>1. Sound(t, {}) /\ Idle(t) /\ b \in St(t)
      BY <1>1, <1>2 DEF Handled, St
    <2>2. Settles(t, b, {}, u)
      BY <2>1, InvFacts, ActivationSettles
    <2> HIDE DEF u
    <2>3. Handled(t, u)
      <3>1. {} \ {b} = {}
        OBVIOUS
      <3> QED BY <2>1, <2>2, <3>1 DEF Handled, Settles, Idle
    <2>4. Handled(s, u)
      BY <1>2, <2>3, InvFacts, HandledTransitively
    <2> QED BY <2>4 DEF u
  <1>5. Handled(s, s')
    BY <1>2, <1>3, <1>4, InvFacts
  <1> QED BY <1>5, PlainSectionKeeps DEF StaleRejected, environment

\* What the provider gives up, it does not cross an agreement with.
LEMMA LessProviderKeeps ==
    ASSUME Inv, Handled(s, s'), UNCHANGED <<at, offer, listed, agreed, hw, scenario>>,
           p' \in [created : SUBSET Instances, attached : SUBSET Ids, pressed : SUBSET Ids],
           p'.attached \subseteq p.attached, Parted(s'), Provided(s')
    PROVE  Inv'
  <1>1. World'
    BY DEF Inv, World
  <1>2. at' \in [Instances -> Stages] /\ \A i \in Instances : at'[i] = at[i]
    BY DEF Inv, Underway
  <1> QED BY <1>1, <1>2, SectionKeeps DEF Parted

\* The provider rejects a binding: it is revoked on both sides.
LEMMA BindingRejectedKeeps ==
    ASSUME Inv, NEW b \in Ids, BindingRejected(b) PROVE Inv'
  <1>1. Leaves(s, s)
    BY InvFacts, LeavesItself
  <1>2. b \notin Standing
    BY DEF Standing, BindingRejected
  <1>3. Leaves(s, Revoke(s, b, FALSE)) /\ St(Revoke(s, b, FALSE)) = St(s) \ {b}
    BY <1>2, <1>1, InvFacts, RevokeLeaves
  <1>4. Handled(s, s')
    BY <1>3, InvFacts, LeavesIsHandled DEF BindingRejected
  <1>5. /\ p' \in [created : SUBSET Instances, attached : SUBSET Ids, pressed : SUBSET Ids]
        /\ p'.attached = p.attached \ {b} /\ p'.pressed = p.pressed \ {b}
        /\ p'.created = p.created
    BY DEF BindingRejected, Inv, World
  <1>6. b \notin St(s')
    BY <1>3 DEF BindingRejected
  <1>7. Parted(s') /\ Provided(s')
    BY <1>5, <1>6 DEF Parted, Provided
  <1>8. UNCHANGED <<at, offer, listed, agreed, hw, scenario>>
    BY DEF BindingRejected, environment
  <1> QED BY <1>4, <1>5, <1>7, <1>8, LessProviderKeeps

\* The provider rejects an instance: all of its bindings are revoked on both sides.
LEMMA InstanceRejectedKeeps ==
    ASSUME Inv, NEW i \in Instances, InstanceRejected(i) PROVE Inv'
  <1> DEFINE of == {b \in Ids : s.lease[b].inst = i}
             u == RevokeQuietly(s, of)
             v == Destroy(u, i, FALSE)
  <1>1. s' = v
    BY DEF InstanceRejected
  <1>2. /\ p' \in [created : SUBSET Instances, attached : SUBSET Ids, pressed : SUBSET Ids]
        /\ p'.attached = p.attached \ of /\ p'.pressed = p.pressed \ of
        /\ p'.created = p.created \ {i}
    BY ZenonT(60) DEF InstanceRejected, Inv, World
  <1>3. Leaves(s, u) /\ St(u) \intersect of = {}
    <2> HIDE DEF of
    <2>1. of \intersect Standing = {}
      BY <1>2 DEF Standing
    <2> QED BY <2>1, InvFacts, RejectionLeaves
  <1> HIDE DEF u, of
  <1>4. Handled(s, u)
    BY <1>3, InvFacts, LeavesIsHandled
  <1>5. /\ Sound(v, {}) /\ v.stored = u.stored /\ v.page = u.page /\ v.stopped = u.stopped
        /\ Follows(u, v) /\ v.lease = u.lease
    BY ZenonT(60), <1>4, InvFacts, DestroyKeeps, DestroyFollows DEF Handled
  <1>6. v.rec[i] = NoRecord
    <2>1. u \in SessionRecords
      BY <1>4 DEF Handled, Sound, Typed
    <2> QED BY <2>1 DEF Destroy, SessionRecords
  <1> HIDE DEF v
  <1>7. Handled(u, v)
    BY <1>4, <1>5 DEF Handled, Idle
  <1>8. Handled(s, s')
    BY <1>1, <1>4, <1>7, InvFacts, HandledTransitively
  <1>9. St(s') \intersect of = {}
    BY <1>3, <1>1, <1>5 DEF St
  <1>10. s'.lease = s.lease /\ s'.rec[i] = NoRecord /\ Sound(s', {}) /\ Tidy(s', {})
    BY <1>3, <1>1, <1>5, <1>8, <1>6, StandingIsHoused DEF Leaves, Handled, Follows
  <1>11. ASSUME at[i] = "accept" PROVE ~Awaited(s', i)
    <2> DEFINE q == s'.queue[i]
               e == Head(q)
    <2>1. s.queue[i] # <<>> /\ Head(s.queue[i]).kind = "prepare"
      BY <1>11 DEF Inv, Underway, HeadIs
    <2>2. q # <<>> /\ e.kind = "prepare" /\ s'.queue \in [Instances -> Seq(Effects)]
      <3>1. /\ s.queue \in [Instances -> Seq(Effects)] /\ s'.queue \in [Instances -> Seq(Effects)]
            /\ Extends(s, s')
        BY <1>8, InvFacts DEF Handled, Follows, Continues, Sound, Typed, SessionRecords
      <3>2. q # <<>> /\ e = Head(s.queue[i])
        BY <2>1, <3>1, HeadsStay
      <3> QED BY <2>1, <3>1, <3>2
    <2>3. Belongs(s', i, 1, e, {})
      BY <1>10, <2>2, HeadBelongs
    <2>4. e.b \in Ids /\ s'.lease[e.b].inst = i
      <3> HIDE DEF e
      <3> QED BY <2>2, <2>3 DEF Belongs
    <2>5. ~IsDue(s', e)
      <3>1. ASSUME <<e.op, e.b>> \in s'.ops PROVE FALSE
        <4>1. <<e.op, e.b>>[2] = e.b /\ Ledger(s', {})
          BY <1>10 DEF Sound
        <4>2. e.b \in St(s')
          BY <3>1, <4>1 DEF Ledger
        <4> QED BY <1>9, <1>10, <2>4, <4>2 DEF of
      <3> QED BY <3>1 DEF IsDue
    <2>6. e.meta # None
      <3>1. 1 \in DOMAIN q /\ e = q[1]
        BY <2>2
      <3>2. Housed(s', Standing)
        BY <1>8, StandingIsHoused DEF Handled, Follows
      <3>3. InPlace(s', Standing, i, 1, e)
        BY <3>1, <3>2 DEF Housed
      <3> HIDE DEF e
      <3> QED BY <2>2, <3>3 DEF InPlace
    <2>7. s'.rec[i].meta = None
      BY <1>10 DEF NoRecord
    <2> QED BY <2>5, <2>6, <2>7 DEF Awaited
  <1>12. UNCHANGED <<at, offer, listed, agreed, hw, scenario>>
    BY ZenonT(60) DEF InstanceRejected, environment
  <1>13. Parted(s') /\ Provided(s')
    <2>1. Parted(s')
      BY <1>2, <1>9 DEF Parted
    <2>2. \A j \in p.created \ p'.created : j = i
      BY <1>2
    <2>3. ~s'.rec[i].started /\ at' = at
      <3>1. ~s'.rec[i].started
        BY <1>10 DEF NoRecord
      <3> QED BY <1>12, <3>1
    <2>4. \A b \in Standing : s'.lease[b].inst # i
      <3>1. \A b \in Standing : b \in Ids /\ b \notin of
        BY <1>2, InvFacts DEF Standing
      <3> QED BY <1>10, <3>1 DEF of
    <2> QED BY <1>2, <1>11, <2>1, <2>2, <2>3, <2>4 DEF Provided
  <1>14. p'.attached \subseteq p.attached
    BY <1>2
  <1> QED BY <1>2, <1>8, <1>13, <1>12, <1>14, LessProviderKeeps

----------------------------------------------------------------------------
(* The invariant: effects *)

\* The effect at the head of a queue is queued.
LEMMA HeadIsEffect ==
    ASSUME Inv, NEW i \in Instances, NEW kinds, HeadIs(i, kinds)
    PROVE  /\ s.queue[i] # <<>> /\ Head(s.queue[i]) \in Queued(s)
           /\ Head(s.queue[i]) \in Effects /\ Head(s.queue[i]).kind \in kinds
  <1>1. s.queue \in [Instances -> Seq(Effects)]
    BY InvFacts DEF SessionRecords
  <1>2. s.queue[i] # <<>> /\ Head(s.queue[i]).kind \in kinds
    BY DEF HeadIs
  <1>3. Extends(s, s)
    BY <1>1, SameQueueExtends
  <1>4. Head(s.queue[i]) \in Queued(s)
    BY <1>1, <1>2, <1>3, HeadsStay
  <1>5. Head(s.queue[i]) \in Effects
    BY <1>1, <1>2
  <1> QED BY <1>2, <1>4, <1>5

\* The effects, one lemma for each of their sections: a preparation begins.
LEMMA PrepareBeginsKeeps ==
    ASSUME Inv, NEW i \in Instances, PrepareBegins(i) PROVE Inv'
  <1>1. Handled(s, s')
    BY InvFacts DEF PrepareBegins
  <1>2. /\ HeadIs(i, {"prepare"}) /\ at[i] = "begin"
        /\ \E stage \in {"accept", "end"} : at' = [at EXCEPT ![i] = stage]
    BY DEF PrepareBegins, AfterSend, Outcomes
  <1>3. /\ at' \in [Instances -> Stages]
        /\ \A j \in Instances : at'[j] # at[j] => j = i /\ at'[j] # "ready"
    BY <1>2, InvFacts DEF Stages
  <1>4. at'[i] = "accept" => i \in p'.created
    <2> DEFINE e == Head(s.queue[i])
               started == s.rec[i].meta = e.meta /\ s.rec[i].started
    <2>1. CASE PreparationCurrent(e) /\ started
      <3>1. /\ s.queue \in [Instances -> Seq(Effects)] /\ s.queue[i] # <<>>
            /\ e.kind = "prepare" /\ s.stored \in Seq(Ids)
        BY <1>2, InvFacts DEF HeadIs, SessionRecords
      <3>2. 1 \in DOMAIN s.queue[i] /\ e = s.queue[i][1]
        BY <3>1
      <3>3. InPlace(s, p.attached, i, 1, e) /\ Registered(s, i)
        BY <3>2, InvFacts DEF Housed
      <3> HIDE DEF e
      <3>4. IsDue(s, e) /\ e.meta = s.rec[i].meta /\ s.rec[i].started
        BY <2>1 DEF PreparationCurrent, OperationCurrent, IsDue
      <3>5. s.rec[i].contract = agreement
        BY <3>1, <3>3, <3>4 DEF InPlace
      <3>6. agreement # None
        <4>1. e.b \in St(s) /\ UsesCurrentContract(s.lease[e.b])
          BY <2>1, <3>1, ContainsIsMember DEF PreparationCurrent, St
        <4>2. s.lease[e.b].contract \in 1..agreed.last
          BY <4>1, InvFacts, StoredAreGranted DEF Granted
        <4> QED BY <4>1, <4>2 DEF UsesCurrentContract, None
      <3>7. i \in p.created
        BY <3>3, <3>4, <3>5, <3>6 DEF Registered
      <3>8. p.created \subseteq p'.created
        BY InvFacts DEF PrepareBegins, World
      <3> QED BY <3>7, <3>8
    <2>2. CASE ~PreparationCurrent(e)
      BY <2>2, <1>2, InvFacts DEF PrepareBegins
    <2>3. CASE PreparationCurrent(e) /\ ~started
      <3>1. \/ at' = [at EXCEPT ![i] = "end"]
            \/ \E o \in Outcomes :
                 /\ at' = [at EXCEPT ![i] = AfterSend(o, "accept")]
                 /\ p' = [p EXCEPT !.created = IF o = "lost" THEN @ ELSE @ \union {i}]
        BY ZenonT(60), <2>3 DEF PrepareBegins
      <3>2. CASE at' = [at EXCEPT ![i] = "end"]
        BY <3>2, InvFacts
      <3>3. CASE \E o \in Outcomes :
                 /\ at' = [at EXCEPT ![i] = AfterSend(o, "accept")]
                 /\ p' = [p EXCEPT !.created = IF o = "lost" THEN @ ELSE @ \union {i}]
        BY <3>3, InvFacts DEF AfterSend, World
      <3> QED BY <3>1, <3>2, <3>3
    <2> QED BY <2>1, <2>2, <2>3
  <1>5. /\ p'.attached = p.attached /\ p'.pressed = p.pressed
        /\ p' \in [created : SUBSET Instances, attached : SUBSET Ids, pressed : SUBSET Ids]
    BY DEF PrepareBegins, Inv, World
  <1>6. World'
    BY <1>5, InvFacts DEF PrepareBegins, environment, World
  <1>7. UNCHANGED <<agreed, hw, scenario>>
    BY DEF PrepareBegins, environment
  <1>8. Parted(s') /\ Provided(s')
    <2>1. p.created \subseteq p'.created
      BY InvFacts DEF PrepareBegins, World
    <2> QED BY <1>5, <2>1 DEF Parted, Provided
  <1> QED BY <1>1, <1>2, <1>3, <1>5, <1>6, <1>7, <1>8, <1>4, SectionKeeps

\* A preparation attaches its binding: it is still stored, and granted under the
\* agreement of now.
LEMMA PrepareAcceptsKeeps ==
    ASSUME Inv, NEW i \in Instances, PrepareAccepts(i) PROVE Inv'
  <1> DEFINE e == Head(s.queue[i])
             t == Accepted(i, e.meta)
             b == e.b
             u == Attach(t, b)
  <1>1. Handled(s, t) /\ t.stored = s.stored /\ t.lease = s.lease /\ t.queue = s.queue
    <2>1. at[i] = "accept"
      BY ZenonT(60) DEF PrepareAccepts
    <2> QED BY <2>1, InvFacts, AcceptedIsHandled
  <1>2. HeadIs(i, {"prepare"}) /\ at[i] = "accept" /\ UNCHANGED <<agreed, hw, scenario>>
        /\ UNCHANGED <<offer, listed>>
    BY ZenonT(60) DEF PrepareAccepts, environment
  <1>3. CASE ~PreparationCurrent(e)
    <2>1. s' = t /\ at' = [at EXCEPT ![i] = "end"] /\ UNCHANGED p
      BY <1>3 DEF PrepareAccepts
    <2>2. /\ at' \in [Instances -> Stages]
          /\ \A j \in Instances :
                at'[j] # at[j] => j = i /\ at'[j] # "ready" /\ at'[j] # "accept"
      BY <2>1, InvFacts DEF Stages
    <2>3. World'
      BY <1>2, <2>1, InvFacts DEF World
    <2>4. Parted(s') /\ Provided(s')
      BY ZenonT(60), <2>1 DEF Parted, Provided
    <2> HIDE DEF t
    <2> QED BY <1>1, <1>2, <2>1, <2>2, <2>3, <2>4, SectionKeeps
  <1>4. CASE PreparationCurrent(e)
    <2>1. PICK o \in Outcomes :
              /\ s' = u
              /\ at' = [at EXCEPT ![i] = AfterSend(o, "ready")]
              /\ p' = [p EXCEPT !.attached = IF o = "lost" THEN @ ELSE @ \union {b}]
      BY ZenonT(60), <1>4 DEF PrepareAccepts, Attach
    <2>2. b \in St(s) /\ UsesCurrentContract(s.lease[b])
      <3>1. s.stored \in Seq(Ids)
        BY SMTT(30), InvFacts DEF SessionRecords
      <3> QED BY <1>4, <3>1, ContainsIsMember DEF PreparationCurrent, St
    <2>3. b \in St(t) /\ b \in Ids /\ UsesCurrentContract(t.lease[b])
      BY SMTT(30), <1>1, <2>2, InvFacts, StoredAreIds DEF St
    <2> HIDE DEF t
    <2>4. /\ Handled(t, u) /\ u.stored = t.stored /\ u.lease[b].attached /\ u.queue = t.queue
          /\ u.lease[b].inst = t.lease[b].inst
          /\ u.lease[b].contract = t.lease[b].contract
      <3>1. World /\ Sound(t, {}) /\ Idle(t)
        BY <1>1, InvFacts DEF Handled
      <3> QED BY ZenonT(60), <2>3, <3>1, GrantIsHandled
    <2> HIDE DEF u
    <2>5. Handled(s, s')
      BY SMTT(30), <1>1, <2>1, <2>4, InvFacts, HandledTransitively
    <2>6. b \in St(s') /\ UsesCurrentContract(s'.lease[b]) /\ s'.lease[b].attached
      BY <2>1, <2>3, <2>4 DEF St, UsesCurrentContract
    <2>7. /\ at' \in [Instances -> Stages]
          /\ \A j \in Instances :
                at'[j] # at[j] => j = i /\ (at'[j] = "ready" => o = "sent") /\ at'[j] # "accept"
      BY SMTT(30), <2>1, InvFacts DEF Stages, AfterSend
    <2>8. /\ p' \in [created : SUBSET Instances, attached : SUBSET Ids, pressed : SUBSET Ids]
          /\ p'.attached \subseteq p.attached \union {b} /\ p'.pressed = p.pressed
          /\ p.attached \subseteq p'.attached /\ (o = "sent" => b \in p'.attached)
          /\ p'.created = p.created
      BY SMTT(30), <2>1, <2>3, InvFacts DEF World
    <2>9. World'
      BY SMTT(30), <1>2, <2>8, InvFacts DEF World
    <2>10. \A d \in p'.attached \union p'.pressed :
               \/ d \in p.attached \union p.pressed
               \/ d \in St(s') /\ UsesCurrentContract(s'.lease[d])
      BY SMTT(30), <2>6, <2>8
    <2>11. \A j \in Instances :
               at'[j] # at[j] => /\ HeadIs(j, {"prepare"})
                                 /\ at'[j] = "ready" =>
                                      /\ s'.lease[Head(s.queue[j]).b].attached
                                      /\ Head(s.queue[j]).b \in p'.attached
                                 /\ at'[j] = "accept" => j \in p'.created
      BY SMTT(30), <1>2, <2>6, <2>7, <2>8
    <2>12. /\ s.queue \in [Instances -> Seq(Effects)] /\ s.queue[i] # <<>>
           /\ e.kind = "prepare" /\ e = s.queue[i][1]
           /\ \A k \in DOMAIN s.queue[i] : k \in Nat /\ (k = 1 \/ 1 < k)
           /\ 1 \in DOMAIN s.queue[i]
      <3>1. s.queue \in [Instances -> Seq(Effects)] /\ s.queue[i] # <<>> /\ e.kind = "prepare"
        BY <1>2, InvFacts DEF HeadIs, SessionRecords
      <3>2. s.queue[i] \in Seq(Effects)
        BY <3>1
      <3> QED BY <3>1, <3>2
    <2>13. IsDue(s, e) /\ s.lease[b].inst = i
      <3>1. IsDue(s, e)
        BY <1>4 DEF PreparationCurrent, OperationCurrent, IsDue
      <3>2. Belongs(s, i, 1, e, {})
        BY <2>12, InvFacts, HeadBelongs
      <3> HIDE DEF e
      <3>3. s.lease[e.b].inst = i
        BY <2>12, <3>2 DEF Belongs
      <3> QED BY <3>1, <3>3
    <2>14. i \in p.created
      <3>1. Registered(s, i)
        BY InvFacts DEF Housed
      <3>2. IsDue(s, e) => i \in p.created
        BY ZenonT(30), <1>2, <3>1 DEF Registered
      <3> QED BY <2>13, <3>2
    <2>15. Undestroyed(s', i)
      <3> SUFFICES ASSUME NEW k \in DOMAIN s.queue[i], s.queue[i][k].kind = "destroy" PROVE FALSE
        BY <1>1, <2>1, <2>4 DEF Undestroyed
      <3>1. InPlace(s, p.attached, i, k, s.queue[i][k])
        BY InvFacts DEF Housed
      <3>2. Emptied(s, p.attached, i, k)
        BY <3>1 DEF InPlace
      <3>3. 1 < k
        BY <2>12
      <3>4. <<e.op, e.b>> \notin s.ops
        BY SMTT(30), <2>12, <3>2, <3>3 DEF Emptied
      <3> QED BY SMTT(30), <2>13, <3>4 DEF IsDue
    <2>16. Parted(s') /\ Provided(s')
      <3>1. Parted(s')
        BY SMTT(30), <2>8 DEF Parted
      <3>2. s'.lease[b].inst = i
        BY <1>1, <2>1, <2>4, <2>13
      <3>3. \A d \in p'.attached \ p.attached : d = b
        BY <2>8
      <3>4. p.created \ p'.created = {} /\ i \in p'.created
        BY <2>8, <2>14
      <3> QED BY <2>6, <2>15, <3>1, <3>2, <3>3, <3>4 DEF Provided
    <2> QED BY <1>2, <2>5, <2>7, <2>9, <2>10, <2>11, <2>16, SectionKeeps
  <1> QED BY <1>3, <1>4

\* A preparation completes: it attached its binding, and its operation has not been
\* taken over since.
LEMMA PrepareCompletesKeeps ==
    ASSUME Inv, NEW i \in Instances, PrepareCompletes(i) PROVE Inv'
  <1> DEFINE e == Head(s.queue[i])
  <1>1. HeadIs(i, {"prepare"}) /\ at[i] = "ready" /\ UNCHANGED <<agreed, hw, scenario, p>>
        /\ UNCHANGED <<offer, listed>> /\ at' = [at EXCEPT ![i] = "end"]
    BY DEF PrepareCompletes, environment
  <1>2. Handled(s, s')
    <2>1. CASE ~PreparationCurrent(e)
      BY <2>1, InvFacts DEF PrepareCompletes
    <2>2. CASE PreparationCurrent(e)
      <3>1. s' = Complete(s, e)
        BY <2>2 DEF PrepareCompletes, Complete
      <3>2. e.b \in St(s) /\ <<e.op, e.b>> \in s.ops
        <4>1. s.stored \in Seq(Ids)
          BY InvFacts DEF SessionRecords
        <4> QED BY <2>2, <4>1, ContainsIsMember DEF PreparationCurrent, OperationCurrent, St
      <3>3. AttachedOnBothSides(s, e.b)
        BY <1>1, <3>2 DEF Inv, ReadyIsAttached
      <3> HIDE DEF e
      <3> QED BY <3>1, <3>2, <3>3, InvFacts, CompletionIsHandled
    <2> QED BY <2>1, <2>2
  <1>3. World'
    BY <1>1, InvFacts DEF World
  <1>4. /\ at' \in [Instances -> Stages]
        /\ \A j \in Instances :
              at'[j] # at[j] => j = i /\ at'[j] # "ready" /\ at'[j] # "accept"
    BY <1>1, InvFacts DEF Stages
  <1>5. Parted(s') /\ Provided(s')
    BY <1>1 DEF Parted, Provided
  <1> QED BY <1>1, <1>2, <1>3, <1>4, <1>5, SectionKeeps

\* What taking an effect off its queue changes.
LEMMA PopIs ==
    ASSUME NEW t \in SessionRecords, NEW i \in Instances, t.queue[i] # <<>>, NEW b \in Ids \union {None}
    PROVE  /\ Pop(t, i) \in SessionRecords /\ Popped(t, Pop(t, i), i)
           /\ LET u == [Pop(t, i) EXCEPT !.lossy = @ \union {b}] IN
              u \in SessionRecords /\ Popped(t, u, i)
  <1> DEFINE queue == [t.queue EXCEPT ![i] = Tail(@)]
             u == Pop(t, i)
             v == [u EXCEPT !.lossy = @ \union {b}]
  <1>1. queue \in [Instances -> Seq(Effects)]
    BY DEF SessionRecords
  <1>2. u = [t EXCEPT !.queue = queue]
    BY DEF Pop, SessionRecords
  <1>3. ASSUME NEW q, q = queue PROVE
        /\ [t EXCEPT !.queue = q] \in SessionRecords /\ Popped(t, [t EXCEPT !.queue = q], i)
    <2> HIDE DEF queue
    <2>1. [t EXCEPT !.queue = q] \in SessionRecords
      BY ZenonT(60), <1>1, <1>3 DEF SessionRecords
    <2> QED BY ZenonT(60), <1>3, <2>1 DEF SessionRecords, Popped, queue
  <1>4. u \in SessionRecords /\ Popped(t, u, i)
    BY <1>2, <1>3
  <1> HIDE DEF u
  <1>5. v \in SessionRecords /\ Popped(t, v, i)
    <2>1. u.lossy \subseteq u.lossy \union {b}
      OBVIOUS
    <2>2. v \in SessionRecords /\ v.lossy = u.lossy \union {b}
      BY ZenonT(60), <1>4 DEF SessionRecords
    <2>3. t.lossy \subseteq v.lossy
      BY <1>4, <2>1, <2>2 DEF Popped
    <2> QED BY ZenonT(60), <1>4, <2>2, <2>3 DEF SessionRecords, Popped
  <1> QED BY <1>4, <1>5 DEF u

\* A message that is sent, refused or lost leaves its queue.
LEMMA MessageKeeps ==
    ASSUME Inv, NEW i \in Instances, NEW kinds, HeadIs(i, kinds), "prepare" \notin kinds,
           s' \in {Pop(s, i), [Pop(s, i) EXCEPT !.lossy = @ \union {Head(s.queue[i]).b}]},
           UNCHANGED <<at, offer, listed, agreed, hw, scenario>>,
           p' \in [created : SUBSET Instances, attached : SUBSET Ids, pressed : SUBSET Ids],
           \A b \in p'.attached \union p'.pressed :
               \/ b \in p.attached \union p.pressed
               \/ b \in St(s) /\ UsesCurrentContract(s.lease[b]),
           Reaches(s', Head(s.queue[i])),
           \/ p'.created = p.created
           \/ Head(s.queue[i]).kind = "destroy" /\ p'.created = p.created \ {i}
    PROVE  Inv'
  <1>1. /\ s.queue[i] # <<>> /\ Head(s.queue[i]) \in Effects /\ Head(s.queue[i]).kind # "prepare"
        /\ Head(s.queue[i]).kind \in kinds
    BY HeadIsEffect
  <1>2. s' \in SessionRecords /\ Popped(s, s', i)
    <2>1. Head(s.queue[i]).b \in Ids \union {None}
      BY <1>1 DEF Effects
    <2>2. CASE s' = Pop(s, i)
      BY <1>1, <2>1, <2>2, InvFacts, PopIs
    <2>3. CASE s' = [Pop(s, i) EXCEPT !.lossy = @ \union {Head(s.queue[i]).b}]
      <3> DEFINE b == Head(s.queue[i]).b
      <3>1. b \in Ids \union {None}
        BY <2>1
      <3>2. s' = [Pop(s, i) EXCEPT !.lossy = @ \union {b}]
        BY <2>3
      <3> HIDE DEF b
      <3> QED BY <1>1, <3>1, <3>2, InvFacts, PopIs
    <2> QED BY <2>2, <2>3
  <1>3. World'
    BY InvFacts DEF World
  <1>4. at' = [at EXCEPT ![i] = "begin"]
    <2>1. at[i] = "begin"
      BY <1>1 DEF Inv, Underway, HeadIs
    <2> QED BY <2>1, InvFacts
  <1>5. Handled(s, s)
    BY InvFacts
  <1> QED BY <1>1, <1>2, <1>3, <1>4, <1>5, EffectKeeps

\* An input is sent: a press only for a stored binding of the agreement of now.
LEMMA SendInputKeeps ==
    ASSUME Inv, NEW i \in Instances, SendInput(i) PROVE Inv'
  <1> DEFINE e == Head(s.queue[i])
  <1>1. HeadIs(i, {"down", "up", "cancel"}) /\ UNCHANGED <<at, offer, listed, agreed, hw, scenario>>
    BY DEF SendInput, environment
  <1>2. p \in [created : SUBSET Instances, attached : SUBSET Ids, pressed : SUBSET Ids]
    BY InvFacts DEF World
  <1>3. s' \in {Pop(s, i), [Pop(s, i) EXCEPT !.lossy = @ \union {e.b}]}
    <2>1. Pop(s, i) \in SessionRecords
      <3>1. HeadIs(i, {"down", "up", "cancel"})
        BY <1>1
      <3>2. s.queue[i] # <<>> /\ None \in Ids \union {None}
        BY <3>1, HeadIsEffect
      <3> QED BY <3>2, InvFacts, PopIs
    <2>2. [Pop(s, i) EXCEPT !.lossy = @] = Pop(s, i)
      BY <2>1 DEF SessionRecords
    <2>3. \/ s' = Pop(s, i)
          \/ s' = [Pop(s, i) EXCEPT !.lossy = IF e.kind = "down" THEN @ ELSE @ \union {e.b}]
      BY DEF SendInput
    <2> HIDE DEF e
    <2> QED BY <2>2, <2>3
  <1>4. p'.created = p.created /\ p'.attached = p.attached
    BY <1>2 DEF SendInput
  <1>5. e.kind # "detach"
    BY <1>1, HeadIsEffect
  <1>6. /\ p' \in [created : SUBSET Instances, attached : SUBSET Ids, pressed : SUBSET Ids]
        /\ \A b \in p'.attached \union p'.pressed :
               \/ b \in p.attached \union p.pressed
               \/ b \in St(s) /\ UsesCurrentContract(s.lease[b])
    <2>1. CASE UNCHANGED p
      BY <1>2, <2>1
    <2>2. CASE /\ MaySend(e)
               /\ p' = [p EXCEPT !.pressed = IF e.kind = "down" THEN @ \union {e.b} ELSE @ \ {e.b}]
      <3>1. CASE e.kind = "down"
        <4>1. Contains(s.stored, e.b) /\ UsesCurrentContract(s.lease[e.b])
          BY SMTT(30), <2>2, <3>1 DEF MaySend
        <4>2. e.b \in St(s) /\ e.b \in Ids
          <5>1. s.stored \in Seq(Ids)
            BY InvFacts DEF SessionRecords
          <5>2. e.b \in St(s)
            BY <4>1, <5>1, ContainsIsMember DEF St
          <5> QED BY <5>2, InvFacts, StoredAreIds
        <4>3. p' = [p EXCEPT !.pressed = @ \union {e.b}]
          BY <2>2, <3>1
        <4> HIDE DEF e
        <4> QED BY <1>2, <4>1, <4>2, <4>3
      <3>2. CASE e.kind # "down"
        <4>1. p' = [p EXCEPT !.pressed = @ \ {e.b}]
          BY <2>2, <3>2
        <4> HIDE DEF e
        <4> QED BY <1>2, <4>1
      <3> QED BY <3>1, <3>2
    <2> QED BY <2>1, <2>2 DEF SendInput
  <1>7. Reaches(s', e)
    <2>1. CASE /\ ~MaySend(e) /\ UNCHANGED p
      <3>1. e.b \in p.pressed => UsesCurrentContract(s.lease[e.b])
        BY InvFacts DEF Sound, Crosses
      <3> HIDE DEF e
      <3> QED BY <1>4, <1>5, <2>1, <3>1 DEF Reaches, MaySend
    <2>2. CASE /\ MaySend(e)
               /\ p' = [p EXCEPT !.pressed = IF e.kind = "down" THEN @ \union {e.b} ELSE @ \ {e.b}]
      <3>1. CASE e.kind = "down"
        <4>1. /\ Contains(s.stored, e.b) /\ UsesCurrentContract(s.lease[e.b])
              /\ s.lease[e.b].ready
          BY SMTT(30), <2>2, <3>1 DEF MaySend
        <4>2. e.b \in St(s)
          <5>1. s.stored \in Seq(Ids)
            BY InvFacts DEF SessionRecords
          <5> QED BY SMTT(30), <4>1, <5>1, ContainsIsMember DEF St
        <4>3. p' = [p EXCEPT !.pressed = @ \union {e.b}]
          BY <2>2, <3>1
        <4>4. e.b \in p.attached
          BY <4>1, <4>2, InvFacts DEF Tidy
        <4> HIDE DEF e
        <4> QED BY SMTT(30), <1>2, <1>4, <1>5, <3>1, <4>3, <4>4 DEF Reaches
      <3>2. CASE e.kind # "down"
        <4>1. p' = [p EXCEPT !.pressed = @ \ {e.b}]
          BY <2>2, <3>2
        <4> HIDE DEF e
        <4> QED BY <1>2, <1>4, <1>5, <4>1 DEF Reaches
      <3> QED BY <3>1, <3>2
    <2>3. CASE /\ s' = [Pop(s, i) EXCEPT !.lossy = IF e.kind = "down" THEN @ ELSE @ \union {e.b}]
               /\ UNCHANGED p
      <3>1. CASE e.kind = "down"
        <4> HIDE DEF e
        <4> QED BY <1>4, <1>5, <2>3, <3>1 DEF Reaches
      <3>2. CASE e.kind # "down"
        <4>1. Pop(s, i) \in SessionRecords
          <5>1. s.queue[i] # <<>> /\ None \in Ids \union {None}
            BY <1>1, HeadIsEffect
          <5> QED BY <5>1, InvFacts, PopIs
        <4> HIDE DEF e
        <4>2. e.b \in s'.lossy
          BY <2>3, <3>2, <4>1 DEF SessionRecords
        <4> QED BY <1>4, <1>5, <2>3, <3>2, <4>2 DEF Reaches
      <3> QED BY <3>1, <3>2
    <2> QED BY <2>1, <2>2, <2>3 DEF SendInput
  <1> QED BY <1>1, <1>3, <1>6, <1>7, <1>4, MessageKeeps

\* A detach is sent,
LEMMA SendDetachKeeps ==
    ASSUME Inv, NEW i \in Instances, SendDetach(i) PROVE Inv'
  <1>1. HeadIs(i, {"detach"}) /\ UNCHANGED <<at, offer, listed, agreed, hw, scenario>>
    BY DEF SendDetach, environment
  <1>2. s' \in {Pop(s, i), [Pop(s, i) EXCEPT !.lossy = @ \union {Head(s.queue[i]).b}]}
    BY DEF SendDetach
  <1>3. p \in [created : SUBSET Instances, attached : SUBSET Ids, pressed : SUBSET Ids]
    BY InvFacts DEF World
  <1>4. UNCHANGED p \/ p' = [p EXCEPT !.attached = @ \ {Head(s.queue[i]).b}]
    BY DEF SendDetach
  <1>5. /\ p' \in [created : SUBSET Instances, attached : SUBSET Ids, pressed : SUBSET Ids]
        /\ p'.attached \union p'.pressed \subseteq p.attached \union p.pressed
        /\ p'.created = p.created
    BY <1>3, <1>4
  <1>6. Reaches(s', Head(s.queue[i]))
    <2>1. Head(s.queue[i]).kind = "detach"
      BY <1>1, HeadIsEffect
    <2>2. p'.pressed = p.pressed /\ p'.attached \subseteq p.attached
          /\ \A b \in p.attached \ p'.attached : b = Head(s.queue[i]).b
      BY <1>3, <1>4
    <2>3. Head(s.queue[i]).b \in p'.attached => Head(s.queue[i]).b \in s'.lossy
      <3> DEFINE b == Head(s.queue[i]).b
      <3>1. b \in p.attached => UsesCurrentContract(s.lease[b])
        BY InvFacts DEF Sound, Crosses
      <3>2. \/ UNCHANGED p /\ ~UsesCurrentContract(s.lease[b])
            \/ p' = [p EXCEPT !.attached = @ \ {b}]
            \/ UNCHANGED p /\ s' = [Pop(s, i) EXCEPT !.lossy = @ \union {b}]
        BY DEF SendDetach
      <3>3. Pop(s, i) \in SessionRecords
        <4>1. s.queue[i] # <<>> /\ None \in Ids \union {None}
          BY <1>1, HeadIsEffect
        <4> QED BY <4>1, InvFacts, PopIs
      <3> HIDE DEF b
      <3>4. CASE p' = [p EXCEPT !.attached = @ \ {b}]
        BY <1>3, <3>4 DEF b
      <3>5. CASE UNCHANGED p /\ s' = [Pop(s, i) EXCEPT !.lossy = @ \union {b}]
        <4>1. b \in s'.lossy
          BY <3>3, <3>5 DEF SessionRecords
        <4> QED BY <4>1 DEF b
      <3> QED BY <3>1, <3>2, <3>4, <3>5 DEF b
    <2> QED BY <2>1, <2>2, <2>3 DEF Reaches
  <1> QED BY <1>1, <1>2, <1>5, <1>6, MessageKeeps

\* and the destruction of an instance.
LEMMA SendDestroyKeeps ==
    ASSUME Inv, NEW i \in Instances, SendDestroy(i) PROVE Inv'
  <1>1. HeadIs(i, {"destroy"}) /\ UNCHANGED <<at, offer, listed, agreed, hw, scenario>>
    BY DEF SendDestroy, environment
  <1>2. s' = Pop(s, i)
    BY DEF SendDestroy
  <1>3. p \in [created : SUBSET Instances, attached : SUBSET Ids, pressed : SUBSET Ids]
    BY InvFacts DEF World
  <1>4. UNCHANGED p \/ p' = [p EXCEPT !.created = @ \ {i}]
    BY DEF SendDestroy
  <1>5. /\ p' \in [created : SUBSET Instances, attached : SUBSET Ids, pressed : SUBSET Ids]
        /\ p'.attached \union p'.pressed \subseteq p.attached \union p.pressed
    BY <1>3, <1>4
  <1>6. Reaches(s', Head(s.queue[i]))
    <2>1. Head(s.queue[i]).kind = "destroy"
      BY <1>1, HeadIsEffect
    <2>2. p'.pressed = p.pressed /\ p'.attached = p.attached
      BY <1>3, <1>4
    <2> QED BY <2>1, <2>2 DEF Reaches
  <1>7. \/ p'.created = p.created
        \/ Head(s.queue[i]).kind = "destroy" /\ p'.created = p.created \ {i}
    <2>1. Head(s.queue[i]).kind = "destroy"
      BY <1>1, HeadIsEffect
    <2> QED BY <1>3, <1>4, <2>1
  <1> QED BY <1>1, <1>2, <1>5, <1>6, <1>7, MessageKeeps

\* A preparation is cut off: this is what leaves a binding preparing for ever.
LEMMA PreparationExpiresKeeps ==
    ASSUME Inv, NEW i \in Instances, PreparationExpires(i) PROVE Inv'
  <1>1. /\ HeadIs(i, {"prepare"}) /\ UNCHANGED <<offer, listed, agreed, hw, scenario, p>>
        /\ s' = Pop(s, i) /\ at' = [at EXCEPT ![i] = "begin"] /\ May("stall")
    BY DEF PreparationExpires, environment
  <1>2. s.queue[i] # <<>>
    BY <1>1, HeadIsEffect
  <1>3. s' \in SessionRecords /\ Popped(s, s', i)
    <2>1. None \in Ids \union {None}
      OBVIOUS
    <2> QED BY <1>1, <1>2, <2>1, InvFacts, PopIs
  <1>4. World'
    BY <1>1, InvFacts DEF World
  <1>5. Reaches(s', Head(s.queue[i]))
    <2>1. Head(s.queue[i]).kind = "prepare"
      BY SMTT(30), <1>1, HeadIsEffect
    <2> QED BY <1>1, <2>1 DEF Reaches
  <1> QED BY <1>1, <1>2, <1>3, <1>4, <1>5, InvFacts, EffectKeeps

\* A preparation ends: an operation that is still in the ledger then is revoked with
\* its binding, so that no binding is left preparing.
LEMMA PrepareEndsKeeps ==
    ASSUME Inv, NEW i \in Instances, PrepareEnds(i) PROVE Inv'
  <1> DEFINE e == Head(s.queue[i])
             t == IF OperationCurrent(e) /\ ~s.lease[e.b].ready THEN Revoke(s, e.b, TRUE) ELSE s
             u == [t EXCEPT !.ops = @ \ {<<e.op, e.b>>}]
  <1>1. /\ HeadIs(i, {"prepare"}) /\ UNCHANGED <<offer, listed, agreed, hw, scenario, p>>
        /\ s' = Pop(u, i) /\ at' = [at EXCEPT ![i] = "begin"]
    BY ZenonT(60) DEF PrepareEnds, environment
  <1>2. s.queue[i] # <<>>
    BY ZenonT(60), <1>1, HeadIsEffect
  <1> HIDE DEF e
  <1>3. Ledger(s, {}) /\ Routes(s)
    BY InvFacts DEF Sound
  <1>4. Handled(s, t) /\ <<e.op, e.b>> \notin t.ops
    <2>1. CASE OperationCurrent(e) /\ ~s.lease[e.b].ready
      <3> DEFINE v == Revoke(s, e.b, TRUE)
      <3>1. Leaves(s, s)
        BY InvFacts, LeavesItself
      <3>2. Leaves(s, v) /\ St(v) = St(s) \ {e.b}
        BY <3>1, InvFacts, RevokeLeaves
      <3> HIDE DEF v
      <3>3. Handled(s, v)
        BY <3>2, InvFacts, LeavesIsHandled
      <3>4. <<e.op, e.b>> \notin v.ops
        <4>1. \A o \in v.ops : o[2] \in St(v)
          BY <3>3 DEF Handled, Sound, Ledger
        <4>2. <<e.op, e.b>>[2] \notin St(v)
          BY <3>2
        <4> QED BY <4>1, <4>2
      <3>5. t = v
        BY <2>1 DEF v
      <3> QED BY ONLY <3>3, <3>4, <3>5
    <2>2. CASE ~(OperationCurrent(e) /\ ~s.lease[e.b].ready)
      <3>1. ASSUME <<e.op, e.b>> \in s.ops PROVE FALSE
        <4>1. e.b \in St(s) /\ s.status[e.b] = "preparing"
          <5>1. <<e.op, e.b>>[2] = e.b
            OBVIOUS
          <5> QED BY <1>3, <3>1, <5>1 DEF Ledger
        <4>2. ~s.lease[e.b].ready
          BY <1>3, <4>1 DEF Ledger
        <4>3. s.stopped
          BY <2>2, <3>1, <4>2 DEF OperationCurrent
        <4>4. s.stored = <<>>
          BY <4>3, InvFacts DEF Idle
        <4> QED BY <4>1, <4>4 DEF St, ToSet
      <3> QED BY <2>2, <3>1, InvFacts
    <2> QED BY <2>1, <2>2
  <1> HIDE DEF t
  <1>5. t \in SessionRecords
    BY <1>4 DEF Handled, Sound, Typed
  <1>6. u = t
    <2>1. t.ops \ {<<e.op, e.b>>} = t.ops
      BY <1>4
    <2> QED BY <1>5, <2>1 DEF SessionRecords
  <1>7. t.queue[i] # <<>>
    <2>1. /\ s.queue \in [Instances -> Seq(Effects)] /\ t.queue \in [Instances -> Seq(Effects)]
          /\ Extends(s, t)
      BY <1>4, <1>5, InvFacts DEF Handled, Follows, Continues, SessionRecords
    <2> QED BY <1>2, <2>1, HeadsStay
  <1>8. s' \in SessionRecords /\ Popped(t, s', i)
    <2>1. None \in Ids \union {None}
      OBVIOUS
    <2> HIDE DEF u
    <2>2. s' = Pop(t, i)
      BY <1>1, <1>6
    <2>3. Pop(t, i) \in SessionRecords /\ Popped(t, Pop(t, i), i)
      BY ONLY <1>5, <1>7, <2>1, PopIs, i \in Instances
    <2> QED BY ONLY <2>2, <2>3
  <1>9. World'
    BY <1>1, InvFacts DEF World
  <1>10. Reaches(s', e)
    <2>1. e.kind = "prepare"
      <3>1. HeadIs(i, {"prepare"})
        BY <1>1
      <3> QED BY <3>1, HeadIsEffect DEF e
    <2>2. p' = p
      BY <1>1
    <2> QED BY ONLY <2>1, <2>2 DEF Reaches
  <1> QED BY <1>1, <1>2, <1>4, <1>8, <1>9, <1>10, EffectKeeps DEF e

----------------------------------------------------------------------------
(* The invariant: capacity and the world outside *)

\* There is room again: every binding that waited is activated.
LEMMA ResumeKeeps ==
    ASSUME Inv, Resume PROVE Inv'
  <1> DEFINE t == Woken(s)
             live == {d \in s.deferred : UsesCurrentContract(s.lease[d[1]])}
  <1>1. UNCHANGED <<at, offer, listed, agreed, hw, p, scenario>>
    BY DEF Resume, environment
  <1>2. CASE ~HardwareCurrent(s)
    <2>1. s' = t
      BY <1>2 DEF Resume, Woken
    <2>2. /\ Sound(t, {}) /\ t.stored = s.stored /\ t.page = s.page /\ t.stopped = s.stopped
          /\ Follows(s, t)
      BY <1>2, InvFacts, WokenKeeps
    <2> HIDE DEF t
    <2>3. Handled(s, t)
      BY <2>2, InvFacts DEF Handled, Idle
    <2> QED BY <1>1, <2>1, <2>3, PlainSectionKeeps
  <1>3. CASE HardwareCurrent(s)
    <2>1. PICK order \in SetToSeqs(live) : s' = ActivateAll(t, order)
      BY <1>3 DEF Resume, Woken
    <2> HIDE DEF t
    <2>2. Handled(s, s')
      BY <1>3, <2>1, InvFacts, ResumedKeeps DEF t
    <2> QED BY <1>1, <2>2, PlainSectionKeeps
  <1> QED BY <1>2, <1>3

\* Agreements come one after the other; what was granted under one of them is of
\* no use under a later one.
LEMMA AgreementKeeps ==
    ASSUME Inv, UNCHANGED <<s, at, offer, listed, hw, scenario>>, p' = FreshProvider,
           agreed' \in [last : Agreements, live : BOOLEAN],
           \/ agreed'.last = agreed.last /\ ~agreed'.live
           \/ agreed'.last > agreed.last
    PROVE  Inv'
  <1>1. Agreements \subseteq Nat \ {0} /\ agreed.last \in Agreements
    BY InvFacts, LifecycleAssumption DEF Agreements, World
  <1>2. World'
    BY InvFacts DEF World, FreshProvider
  <1>3. p'.attached = {} /\ p'.pressed = {}
    BY DEF FreshProvider
  <1>4. (Typed(s))' /\ (Routes(s))' /\ (Idle(s))'
    <2>1. Typed(s) /\ Routes(s) /\ Idle(s)
      BY InvFacts DEF Sound
    <2>2. s' = s
      OBVIOUS
    <2> QED BY <2>1, <2>2
  <1>5. (Crosses(s))'
    BY <1>3 DEF Crosses
  <1>6. agreed'.last \in Nat /\ agreed.last \in Nat /\ agreed.last <= agreed'.last
    <2>1. agreed'.last \in Agreements /\ (agreed'.last = agreed.last \/ agreed'.last > agreed.last)
      OBVIOUS
    <2> DEFINE m == agreed'.last
               n == agreed.last
    <2>2. m \in Nat /\ n \in Nat /\ (m = n \/ m > n)
      BY <1>1, <2>1
    <2> HIDE DEF m, n
    <2>3. n <= m
      BY <2>2
    <2> QED BY <2>2, <2>3 DEF m, n
  <1>7. (Grants(s))'
    <2> SUFFICES ASSUME NEW b \in Ids, (InUse(s, b))' PROVE (Granted(s.lease[b]))'
      BY DEF Grants
    <2>1. InUse(s, b)
      BY <1>3 DEF InUse
    <2>2. Granted(s.lease[b])
      BY <2>1, InvFacts DEF Sound, Grants
    <2> QED BY <1>6, <2>2 DEF Granted
  <1>8. ASSUME NEW b \in St(s) PROVE (~UsesCurrentContract(s.lease[b]))'
    <2>1. s.lease[b].contract \in 1..agreed.last
      BY InvFacts, StoredAreGranted DEF Granted
    <2>2. agreement' = None \/ agreement' > agreed.last
      BY <1>6 DEF agreement
    <2> QED BY <1>6, <2>1, <2>2 DEF UsesCurrentContract, None
  <1>9. (Ledger(s, {}))'
    <2>1. Ledger(s, {})
      BY InvFacts DEF Sound
    <2> QED BY <1>8, <2>1 DEF Ledger, St
  <1>10. Underway' /\ (May("stall") \/ Outstanding(s))'
    <2>1. Underway /\ (May("stall") \/ Outstanding(s)) /\ s' = s /\ at' = at
      BY DEF Inv
    <2>2. (Outstanding(s))' <=> Outstanding(s)
      BY <2>1
    <2> QED BY <2>1, <2>2 DEF Underway, HeadIs, May
  <1>11. ReadyIsAttached'
    <2> SUFFICES ASSUME NEW i \in Instances, at[i] = "ready",
                        LET e == Head(s.queue[i]) IN <<e.op, e.b>> \in s.ops
                 PROVE  (AttachedOnBothSides(s, Head(s.queue[i]).b))'
      BY DEF ReadyIsAttached
    <2> DEFINE b == Head(s.queue[i]).b
    <2>1. AttachedOnBothSides(s, b)
      BY DEF Inv, ReadyIsAttached
    <2>2. b \in St(s)
      <3>1. Ledger(s, {}) /\ <<Head(s.queue[i]).op, b>>[2] = b
        BY InvFacts DEF Sound
      <3> QED BY <3>1 DEF Ledger
    <2>3. (~UsesCurrentContract(s.lease[b]))'
      BY <1>8, <2>2
    <2> QED BY <2>1, <2>3 DEF AttachedOnBothSides
  <1>12. (Tidy(s, {}))'
    <2>1. Tidy(s, {}) /\ s' = s
      BY InvFacts
    <2>2. (InOrder(s, {}))'
      <3>1. InOrder(s, {})
        BY <2>1 DEF Tidy
      <3> QED BY <2>1, <3>1
    <2>3. (\A b \in St(s) : s.lease[b].ready /\ UsesCurrentContract(s.lease[b]) => b \in p.attached)'
      BY <1>8, <2>1 DEF St
    <2> QED BY <1>3, <2>1, <2>2, <2>3 DEF Tidy
  <1>13. (Housed(s, p.attached))'
    <2>1. s' = s /\ at' = at /\ Housed(s, p.attached) /\ Ledger(s, {})
      BY InvFacts DEF Sound
    <2>2. agreement' = None \/ agreement' > agreed.last
      BY <1>6 DEF agreement
    <2>3. ASSUME NEW e PROVE (~IsDue(s, e))'
      <3>1. ASSUME <<e.op, e.b>> \in s.ops PROVE e.b \in St(s)
        <4>1. <<e.op, e.b>>[2] = e.b
          OBVIOUS
        <4> QED BY <2>1, <3>1, <4>1 DEF Ledger
      <3>2. <<e.op, e.b>> \in s.ops => s.lease[e.b].contract # agreement'
        BY <1>8, <3>1 DEF UsesCurrentContract
      <3> QED BY <2>1, <3>2 DEF IsDue, UsesCurrentContract
    <2>4. ASSUME NEW i \in Instances, NEW k \in DOMAIN s.queue[i]
          PROVE  (InPlace(s, p.attached, i, k, s.queue[i][k]))'
      <3> DEFINE x == s.queue[i][k]
      <3>1. InPlace(s, p.attached, i, k, x)
        BY <2>1 DEF Housed
      <3>2. x.kind = "destroy" => (Emptied(s, p.attached, i, k))'
        <4>1. x.kind = "destroy" => Emptied(s, p.attached, i, k)
          BY <3>1 DEF InPlace
        <4> HIDE DEF x
        <4> QED BY <1>3, <2>1, <4>1 DEF Emptied
      <3>3. x.kind = "prepare" => x.meta # None
        BY <3>1 DEF InPlace
      <3>4. (~IsDue(s, s.queue[i][k]))'
        BY <2>1, <2>3
      <3> QED BY <2>1, <3>2, <3>3, <3>4 DEF InPlace
    <2>5. ASSUME NEW i \in Instances PROVE (Registered(s, i))'
      <3>1. Registered(s, i)
        BY <2>1 DEF Housed
      <3>2. s.rec[i].contract \in 0..agreed'.last
        BY <1>6, <3>1 DEF Registered
      <3>3. ~(agreement' # None /\ s.rec[i].contract = agreement')
        <4>1. s.rec[i].contract \in 0..agreed.last
          BY <3>1 DEF Registered
        <4> QED BY <1>6, <2>2, <4>1
      <3>4. (~IsDue(s, Head(s.queue[i])))'
        BY <2>1, <2>3
      <3>5. at[i] = "accept" => s.queue[i] # <<>> /\ Head(s.queue[i]).kind = "prepare"
        BY ZenonT(30), <3>1 DEF Registered
      <3> QED BY ZenonT(30), <2>1, <3>2, <3>3, <3>4, <3>5 DEF Registered
    <2>6. (\A i \in Instances : \A k \in DOMAIN s.queue[i] : InPlace(s, p.attached, i, k, s.queue[i][k]))'
      BY <2>1, <2>4
    <2>7. (\A i \in Instances : Registered(s, i))'
      BY <2>5
    <2>8. (\A b \in p.attached : Sheltered(s, b))'
      BY <1>3
    <2> QED BY <2>6, <2>7, <2>8 DEF Housed
  <1> QED BY <1>2, <1>4, <1>5, <1>7, <1>9, <1>10, <1>11, <1>12, <1>13 DEF Inv, Sound

\* Hardware that is lost makes no promise false.
LEMMA HardwareLostKeeps ==
    ASSUME Inv, HardwareLost PROVE Inv'
  <1>1. s' = s /\ at' = at /\ agreed' = agreed /\ p' = p /\ scenario' = scenario /\ ~hw'
    BY DEF HardwareLost
  <1>2. World'
    BY InvFacts DEF World, HardwareLost
  <1>3. (Typed(s))' /\ (Routes(s))' /\ (Idle(s))'
    BY <1>1, InvFacts DEF Sound
  <1>4. (Grants(s))' /\ (Crosses(s))'
    <2>1. Grants(s) /\ Crosses(s)
      BY InvFacts DEF Sound
    <2> QED BY <1>1, <2>1 DEF Grants, InUse, Granted, Crosses, UsesCurrentContract, agreement
  <1>5. (Ledger(s, {}))'
    <2>1. Ledger(s, {})
      BY InvFacts DEF Sound
    <2>2. (~HardwareCurrent(s))'
      BY SMTT(30), <1>1 DEF HardwareCurrent
    <2> QED BY <1>1, <2>1, <2>2 DEF Ledger, St
  <1>6. Underway' /\ ReadyIsAttached' /\ (May("stall") \/ Outstanding(s))'
    <2>1. Underway /\ ReadyIsAttached /\ (May("stall") \/ Outstanding(s))
      BY DEF Inv
    <2>2. (Outstanding(s))' <=> Outstanding(s)
      BY <1>1
    <2> QED BY <1>1, <2>1, <2>2
        DEF Underway, ReadyIsAttached, AttachedOnBothSides, UsesCurrentContract, agreement, HeadIs, May
  <1>7. (Tidy(s, {}))'
    <2>1. Parted(s')
      BY <1>1 DEF Parted
    <2>2. Tidy(s', {})
      BY <1>1, InvFacts
    <2> QED BY <1>1, <2>1, <2>2, TidyCarries
  <1>8. (Housed(s, p.attached))'
    <2>1. Provided(s')
      BY <1>1 DEF Provided
    <2>2. Housed(s', Standing)
      BY <1>1, StandingIsHoused
    <2> QED BY <1>1, <2>1, <2>2, HousedCarries
  <1> QED BY <1>2, <1>3, <1>4, <1>5, <1>6, <1>7, <1>8 DEF Inv, Sound

\* The catalog speaks for itself until the session is told.
LEMMA CatalogKeeps ==
    ASSUME Inv, NEW o \in {"bound", "pending", "unavailable"}, CatalogChanges(o) PROVE Inv'
  <1>1. PICK r \in BOOLEAN : s' = [s EXCEPT !.recovery = r]
    BY InvFacts DEF CatalogChanges, SessionRecords
  <1>2. UNCHANGED <<at, agreed, hw, p, scenario>> /\ offer' = o
        /\ listed' \in {SessionOf[agreed.last], listed}
    BY DEF CatalogChanges
  <1>3. Handled(s, s')
    <2>1. s' \in SessionRecords /\ Hands(s, s') /\ s'.held = s.held /\ s'.rec = s.rec
      BY <1>1, InvFacts DEF SessionRecords, Hands
    <2>2. \A c \in Controls : s'.held[c] # None =>
              s'.held[c] \in St(s) /\ s.lease[s'.held[c]].ctl = c
      BY <2>1, InvFacts DEF Sound, Routes
    <2>3. Kept(s, s')
      BY <2>1, <2>2, InvFacts, HandsAreKept
    <2> QED BY <2>1, <2>3, KeptIsHandled DEF Hands
  <1>4. World'
    <2>1. SessionOf[agreed.last] \in Sessions \ {None}
      <3>1. agreed.last \in Agreements
        BY InvFacts DEF World
      <3>2. SessionOf[agreed.last] \in Nat \ {None}
        BY <3>1, LifecycleAssumption DEF Agreements
      <3> QED BY <3>1, <3>2 DEF Sessions
    <2> QED BY <1>2, <2>1, InvFacts DEF World
  <1>5. at' \in [Instances -> Stages] /\ \A i \in Instances : at'[i] = at[i]
    BY <1>2, InvFacts
  <1>6. Parted(s') /\ Provided(s')
    BY <1>2 DEF Parted, Provided
  <1> QED BY <1>2, <1>3, <1>4, <1>5, <1>6, SectionKeeps

\* A session that has just been opened.
LEMMA InitHolds ==
    ASSUME Init PROVE Inv
  <1>1. World
    <2>1. 1 \in Agreements /\ SessionOf[1] \in Nat \ {None}
      BY LifecycleAssumption DEF Agreements
    <2> QED BY <2>1 DEF Init, World, FreshProvider, Sessions
  <1>2. s \in SessionRecords
    <2>1. NoLease \in Leases
      BY DEF NoLease, Leases
    <2>2. NoRecord \in Records
      BY DEF NoRecord, Records, Sessions, None
    <2>3. <<>> \in Seq(Ids) /\ <<>> \in Seq(Effects)
      OBVIOUS
    <2> HIDE DEF NoLease, NoRecord
    <2> QED BY <2>1, <2>2, <2>3 DEF Init, SessionRecords
  <1>3. /\ s.stored = <<>> /\ s.ops = {} /\ s.deferred = {} /\ s.authority = {}
        /\ s.queue = [i \in Instances |-> <<>>] /\ p.attached = {} /\ p.pressed = {}
        /\ s.input = [c \in Controls |-> None] /\ s.held = [c \in Controls |-> None]
    BY DEF Init, FreshProvider
  <1>4. St(s) = {}
    BY <1>3 DEF St, ToSet
  <1>5. Queued(s) = {}
    BY <1>3 DEF Queued, ToSet
  <1>6. Typed(s)
    <2>1. IsInjective(s.stored) /\ IsFiniteSet(s.ops)
      BY <1>3, FS_EmptySet DEF IsInjective
    <2>2. Places(s) = {}
      BY <1>3 DEF Places
    <2>3. Load(s, Ordinary) = 0 /\ Load(s, Cleanup) = 0
      <3>1. Cardinality({}) = 0
        BY FS_EmptySet
      <3> QED BY <2>2, <3>1 DEF Load
    <2> QED BY <1>2, <2>1, <2>3, LifecycleAssumption DEF Typed, WithinReserves
  <1>7. Grants(s) /\ Crosses(s)
    BY <1>3, <1>4, <1>5 DEF Grants, InUse, Crosses
  <1>8. Routes(s)
    BY <1>3, <1>4 DEF Routes
  <1>9. Ledger(s, {})
    BY <1>3, <1>4 DEF Ledger
  <1>10. Idle(s) /\ Underway /\ ReadyIsAttached /\ Outstanding(s)
    BY <1>3, <1>4 DEF Init, Idle, Underway, Stages, ReadyIsAttached, Outstanding
  <1>11. Tidy(s, {})
    <2>1. InOrder(s, {})
      BY <1>3 DEF InOrder
    <2> QED BY <1>3, <1>4, <2>1 DEF Tidy
  <1>12. Housed(s, p.attached)
    <2>1. ASSUME NEW i \in Instances PROVE Registered(s, i)
      <3>1. s.rec[i].contract = None /\ ~s.rec[i].started /\ at[i] = "begin" /\ agreed.last = 1
        BY DEF Init, NoRecord
      <3> QED BY <3>1 DEF Registered, None
    <2> QED BY <1>3, <2>1 DEF Housed
  <1> QED BY <1>1, <1>6, <1>7, <1>8, <1>9, <1>10, <1>11, <1>12 DEF Inv, Sound

\* Every step keeps the invariant.
LEMMA StepKeeps ==
    ASSUME Inv, [Next]_vars PROVE Inv'
  <1>1. CASE \E g \in Pages : ShowPage(g) \/ ReplaceConfig(g)
    BY <1>1, ShowPageKeeps, ReplaceConfigKeeps
  <1>2. CASE AvailabilityChanged \/ RemoveConfig \/ Stop \/ Resume
    BY <1>2, AvailabilityKeeps, RemoveConfigKeeps, StopInvariant, ResumeKeeps
  <1>3. CASE \E c \in Controls : Press(c) \/ Release(c)
    BY <1>3, PressKeeps, ReleaseKeeps
  <1>4. CASE \E b \in Ids : StaleRejected(b) \/ BindingRejected(b) \/ StaleCommand(b)
    BY <1>4, StaleRejectedKeeps, BindingRejectedKeeps, StaleCommandKeeps
  <1>5. CASE \E i \in Instances : InstanceRejected(i) \/ RunEffect(i) \/ PreparationExpires(i)
    <2>1. PICK i \in Instances : InstanceRejected(i) \/ RunEffect(i) \/ PreparationExpires(i)
      BY <1>5
    <2>2. CASE InstanceRejected(i) \/ PreparationExpires(i)
      BY <2>2, InstanceRejectedKeeps, PreparationExpiresKeeps
    <2>3. CASE RunEffect(i)
      BY <2>3, PrepareBeginsKeeps, PrepareAcceptsKeeps, PrepareCompletesKeeps,
         PrepareEndsKeeps, SendInputKeeps, SendDetachKeeps, SendDestroyKeeps DEF RunEffect
    <2> QED BY <2>1, <2>2, <2>3
  <1>6. CASE HardwareLost
    BY <1>6, HardwareLostKeeps
  <1>7. CASE AgreementEnds
    <2>1. agreed' \in [last : Agreements, live : BOOLEAN] /\ agreed'.last = agreed.last
          /\ ~agreed'.live
      BY <1>7, InvFacts DEF AgreementEnds, World
    <2> QED BY <1>7, <2>1, AgreementKeeps DEF AgreementEnds
  <1>8. CASE \E a \in Agreements : AgreementBegins(a)
    <2>1. PICK a \in Agreements : AgreementBegins(a)
      BY <1>8
    <2>2. agreed' \in [last : Agreements, live : BOOLEAN] /\ agreed'.last > agreed.last
      BY <2>1 DEF AgreementBegins
    <2> QED BY <2>1, <2>2, AgreementKeeps DEF AgreementBegins
  <1>9. CASE \E o \in {"bound", "pending", "unavailable"} : CatalogChanges(o)
    BY <1>9, CatalogKeeps
  <1>10. CASE Renewed
    <2>1. s' = s /\ UNCHANGED <<at, offer, listed, agreed, hw, p, scenario>>
      BY <1>10 DEF Renewed
    <2> QED BY <2>1, InvFacts, PlainSectionKeeps
  <1>11. CASE UNCHANGED vars
    <2>1. s' = s /\ UNCHANGED <<at, offer, listed, agreed, hw, p, scenario>>
      BY <1>11 DEF vars
    <2> QED BY <2>1, InvFacts, PlainSectionKeeps
  <1> QED BY <1>1, <1>2, <1>3, <1>4, <1>5, <1>6, <1>7, <1>8, <1>9, <1>10, <1>11 DEF Next

----------------------------------------------------------------------------
(* Theorems *)

\* The inductive invariant holds in every behaviour, for all values of the constants.
THEOREM LifecycleInvariant == Spec => []Inv
  <1>1. Init => Inv
    BY InitHolds
  <1>2. Inv /\ [Next]_vars => Inv'
    BY StepKeeps
  <1> QED BY <1>1, <1>2, PTL DEF Spec

\* Whatever routes an input, admits a command or owns a held interaction is an attached
\* binding that is still stored, and a control has one binding at most
\* (disable_binding_authority and cancel_held_inputs in every revocation).
THEOREM RoutesAreTrue == Spec => []RoutesPointToLeases
  <1>1. Inv => RoutesPointToLeases
    BY DEF Inv, Sound, Routes, RoutesPointToLeases, OneBindingPerControl, Stored, St
  <1> QED BY <1>1, LifecycleInvariant, PTL

\* Nothing is attached or pressed at the provider under an agreement that is over
\* (_preparation_current and _send_input look at the agreement again).
THEOREM AgreementsAreKept == Spec => []NothingCrossesAgreements
  <1>1. Inv => NothingCrossesAgreements
    BY DEF Inv, Sound, Crosses, NothingCrossesAgreements
  <1> QED BY <1>1, LifecycleInvariant, PTL

\* What the session takes for an active binding of the agreement of now is attached at
\* the provider, and what is attached has its instance, unless its detach was refused or
\* lost: whatever detachments, rejections, restarts and destructions of earlier grants
\* are still queued (_activate_binding, reserve_action_instance, the queue of an instance).
THEOREM ActiveAreAttached == Spec => []ActiveIsAttached
  <1>1. ASSUME Inv PROVE ActiveIsAttached
    <2>1. Tidy(s, {}) /\ Housed(s, p.attached)
      BY <1>1 DEF Inv
    <2>2. \A b \in Stored : s.lease[b].ready /\ UsesCurrentContract(s.lease[b]) => b \in p.attached
      BY <2>1 DEF Tidy, Stored, St
    <2>3. \A b \in p.attached \ s.lossy : s.lease[b].inst \in p.created
      BY <2>1 DEF Housed, Sheltered
    <2> QED BY <2>2, <2>3 DEF ActiveIsAttached, AttachedInstanceExists
  <1> QED BY <1>1, LifecycleInvariant, PTL

\* The provider sees presses of attached bindings only, unless a message that ends one
\* was refused or lost: a detach comes after the end of every press
\* (_cancel_held_inputs_for_binding before the detach effect; _send_input).
THEOREM PressesAreWithinGrants == Spec => []PressWithinGrant
  <1>1. Inv => PressWithinGrant
    BY DEF Inv, Tidy, PressWithinGrant
  <1> QED BY <1>1, LifecycleInvariant, PTL

\* A press the provider has seen is still held, or its end is queued, unless a message
\* that ends it was refused or lost: whatever releases, revocations, page changes and
\* full reserves come in between (_deliver_input_to_lease, _cancel_held_inputs).
THEOREM PressesEnd == Spec => []PressHasAnEnd
  <1>1. ASSUME Inv PROVE PressHasAnEnd
    <2> SUFFICES ASSUME NEW b \in p.pressed
                 PROVE  \/ b \in s.lossy
                        \/ s.held[s.lease[b].ctl] = b
                        \/ \E e \in Queued(s) : e.b = b /\ e.kind \in {"up", "cancel"}
      BY DEF PressHasAnEnd
    <2>1. Ends(s, b, 0) /\ Sound(s, {}) /\ World
      BY <1>1 DEF Inv, Tidy
    <2>2. s.lease[b].inst \in Instances
      BY <2>1 DEF World, Sound, Grants, InUse, Granted
    <2>3. s.queue \in [Instances -> Seq(Effects)]
      BY <2>1 DEF Sound, Typed, SessionRecords
    <2>4. CASE Ended(s, b, 0)
      <3>1. PICK j \in DOMAIN s.queue[s.lease[b].inst] :
                LET e == s.queue[s.lease[b].inst][j] IN e.b = b /\ e.kind \in {"up", "cancel"}
        BY <2>4 DEF Ended
      <3>2. s.queue[s.lease[b].inst][j] \in Queued(s)
        BY <2>2, <2>3, QueuedInUse
      <3> QED BY SMTT(30), <3>1, <3>2
    <2> QED BY <2>1, <2>4 DEF Ends
  <1> QED BY <1>1, LifecycleInvariant, PTL

\* The status of an installed binding tells the truth: active is ready, with
\* authority; unavailable is deferred with a callback asked for, or of no use any more.
THEOREM StatusIsTrue == Spec => []StatusIsReadiness
  <1>1. ASSUME Inv PROVE StatusIsReadiness
    <2>1. Ledger(s, {}) /\ Routes(s)
      BY <1>1 DEF Inv, Sound
    <2> SUFFICES ASSUME NEW b \in Stored
                 PROVE  /\ s.status[b] \in {"preparing", "active", "unavailable"}
                        /\ s.status[b] = "active" <=> s.lease[b].ready
                        /\ s.lease[b].ready => s.lease[b].attached /\ b \in s.authority
                        /\ (\E r \in BOOLEAN : <<b, r>> \in s.deferred) =>
                              s.status[b] = "unavailable" /\ s.wake
                        /\ s.status[b] = "unavailable" =>
                              \/ \E r \in BOOLEAN : <<b, r>> \in s.deferred
                              \/ ~UsesCurrentContract(s.lease[b]) \/ ~HardwareCurrent(s)
      BY DEF StatusIsReadiness
    <2>2. b \in St(s)
      BY DEF Stored, St
    <2>3. s.lease[b].ready => s.lease[b].attached /\ b \in s.authority
      BY <2>1, <2>2 DEF Ledger, Routes
    <2>4. (\E r \in BOOLEAN : <<b, r>> \in s.deferred) => s.status[b] = "unavailable" /\ s.wake
      <3> SUFFICES ASSUME NEW r, <<b, r>> \in s.deferred PROVE s.status[b] = "unavailable" /\ s.wake
        OBVIOUS
      <3>1. <<b, r>>[1] = b
        OBVIOUS
      <3> QED BY <2>1, <3>1 DEF Ledger
    <2> QED BY <2>1, <2>2, <2>3, <2>4 DEF Ledger
  <1> QED BY <1>1, LifecycleInvariant, PTL

\* Operations, queued preparations and the status preparing correspond, and the
\* queues stay within their reserves; unless an effect is cut off by its deadline, a
\* binding that is preparing has its preparation to come.
THEOREM PreparationsAreAccounted == Spec => []PreparationAccounted
  <1>1. ASSUME Inv PROVE PreparationAccounted
    <2>0. /\ Typed(s) /\ World /\ Ledger(s, {}) /\ Routes(s)
          /\ s \in SessionRecords /\ St(s) \subseteq Ids /\ Stored = St(s)
      BY <1>1, StoredAreIds DEF Inv, Sound, Typed, Stored, St
    <2>1. TypeOK
      <3>1. Len(s.stored) = Cardinality(Stored)
        <4> DEFINE q == s.stored
                   n == Len(q)
        <4>1. q \in Seq(Ids) /\ IsInjective(q) /\ n \in Nat /\ DOMAIN q = 1..n
          BY <2>0 DEF Typed, SessionRecords
        <4>2. q \in Bijection(1..n, Stored)
          BY <4>1 DEF Bijection, Injection, Surjection, IsInjective, Stored, ToSet
        <4>3. Cardinality(1..n) = n /\ IsFiniteSet(1..n)
          <5>1. 1 \in Int /\ n \in Int
            BY <4>1
          <5>2. IsFiniteSet(1..n) /\ Cardinality(1..n) = IF 1 > n THEN 0 ELSE n - 1 + 1
            BY <5>1, FS_Interval
          <5> QED BY <4>1, <5>2
        <4>4. ExistsBijection(1..n, Stored)
          BY <4>2 DEF ExistsBijection
        <4>5. Cardinality(Stored) = Cardinality(1..n)
          BY <4>3, <4>4, FS_Bijection
        <4> QED BY <4>3, <4>5
      <3>2. \A b \in Stored : s.lease[b].ctl \in Controls /\ s.lease[b].contract \in Agreements
        <4>1. Agreements = 1..Len(SessionOf) /\ Len(SessionOf) \in Nat /\ agreed.last \in Agreements
          BY <2>0, LifecycleAssumption DEF Agreements, World
        <4>2. \A b \in Stored : Granted(s.lease[b])
          BY <1>1, <2>0, StoredAreGranted DEF Inv
        <4> QED BY <4>1, <4>2 DEF Granted
      <3>3. Load(s, Ordinary) <= Capacity /\ Load(s, Cleanup) <= CleanupCapacity
        BY <2>0 DEF Typed, WithinReserves
      <3>4. \A i \in Instances : at[i] # "begin" => HeadIs(i, {"prepare"})
        BY <1>1 DEF Inv, Underway
      <3> QED BY <2>0, <3>1, <3>2, <3>3, <3>4 DEF TypeOK, SessionRecords, World
    <2>2. ~May("stall") => PreparingIsOutstanding
      <3>1. ASSUME ~May("stall"), NEW b \in Stored, s.status[b] = "preparing"
            PROVE  \E o \in s.ops, e \in Queued(s) : o[2] = b /\ e.kind = "prepare" /\ e.op = o[1]
        BY <1>1, <2>0, <3>1 DEF Inv, Outstanding, Prepares
      <3> QED BY <3>1 DEF PreparingIsOutstanding
    <2>3. /\ \A o, q \in s.ops : o[2] = q[2] => o = q
          /\ \A o \in s.ops : o[2] \in Stored /\ s.status[o[2]] = "preparing"
      BY <2>0 DEF Ledger
    <2> QED BY <2>1, <2>2, <2>3 DEF PreparationAccounted
  <1> QED BY <1>1, LifecycleInvariant, PTL

----------------------------------------------------------------------------
(* The decision table, for all of its inputs *)

\* A binding is kept exactly when it is compatible with the desired status.
THEOREM TableKeepsCompatible ==
    ASSUME NEW status \in Statuses, NEW i \in Installed \union {NotInstalled}
    PROVE  KeptIffCompatible(status, i)
  <1>1. CASE i = NotInstalled
    BY <1>1 DEF NotInstalled, KeptIffCompatible
  <1>2. ASSUME NEW f \in Facts, i = [installed |-> TRUE, facts |-> f]
        PROVE  KeptIffCompatible(status, i)
    <2>1. i.installed /\ i.facts = f
      BY <1>2
    <2> QED
      BY <2>1
      DEF KeptIffCompatible, Decide, Pending, Bound, Decision, Statuses, Facts
  <1> QED
    BY <1>1, <1>2 DEF Installed

\* A grant is only issued over a retired one or onto an empty control.
THEOREM TableGrantsExclusively ==
    ASSUME NEW status \in Statuses, NEW i \in Installed \union {NotInstalled}
    PROVE  NoGrantOverGrant(status, i)
  <1>1. CASE i = NotInstalled
    BY <1>1 DEF NotInstalled, NoGrantOverGrant, Decide, Pending, Decision, Statuses
  <1>2. ASSUME NEW f \in Facts, i = [installed |-> TRUE, facts |-> f]
        PROVE  NoGrantOverGrant(status, i)
    <2>1. i.installed /\ i.facts = f
      BY <1>2
    <2>2. CASE status = "bound"
      BY <2>1, <2>2 DEF NoGrantOverGrant, Decide, Bound, Decision, Facts
    <2>3. CASE status # "bound"
      <3>1. Decide(status, i).change \notin {"install", "replace"}
        BY <2>1, <2>3 DEF Decide, Pending, Decision, Statuses
      <3> QED
        BY <3>1 DEF NoGrantOverGrant
    <2> QED
      BY <2>2, <2>3
  <1> QED
    BY <1>1, <1>2 DEF Installed
=============================================================================
