# Verification of the Deckr controller

TLA+ modules that model the control logic of `src/src/deckr/controller`, TLC runs
that check them on small instances, and theorems about them checked by TLAPS.
All source paths below are relative to that package unless they start with `src/`.

## 1. The system

The controller claims hardware panels (button decks, dials), shows pages on
them, and connects every control of the page to an *action*, most of which live
in remote *action providers*.  Everything runs in one asyncio event loop: two
pieces of code interleave only where one of them awaits.  So the hard part is
not data races but what happens between two awaits.

| Part | State it keeps | Operations | Talks to |
| --- | --- | --- | --- |
| `ControllerService` (`_controller_service.py`) | one session and one disconnect event per configuration | connect, disconnect, forward input, rejections and descriptor changes, start, stop | hardware service (callbacks), sessions |
| Hardware service (`_hardware/`) | devices in use, routes by configuration, claims, event scopes | discovery and configuration reconciliation, claim watch, route, disconnect, commands | managed hardware client, controller service |
| Action supervisor and gateway (`_actions/_supervisor.py`, `_runtime_gateway.py`) | watches, runtime leases of provider sessions | watch, ingest a view, mark unavailable, tell the sessions, send, receive, authorize | managed services, catalog, sessions |
| Action catalog and availability (`_actions/_availability.py`, ...) | a record per action and provider, the mapping of intents, interest | ingest, mark, select, map, prune | supervisor, planning |
| Device session (`_device_session.py`, `_device_components.py`, `_session_state.py`) | operations in flight, binding statuses, stopped flag, hardware identity | every handler of a device | all parts below |
| Session boundary (`_state_gate.py`) | owner, depth, semaphore | enter, nest, leave | every handler of the session |
| Session effects (`_session_effects.py`) | a FIFO queue per action instance, two counters, capacity callback, idle event | submit, run, callback, idle | adapters, settings, installer |
| Navigation (`_pages/`) | configured route, temporary page, revision, deadline | set, open, replace, close, refresh, expire, clear | planning, reconciler, page owners |
| Page commands and requests (`_bindings/_page_commands.py`, `_requests.py`) | none across calls, but a plan across one await | local requests, remote commands in two sections | navigation, action gateway |
| Planning (`_binding_planner.py`, `_bindings/_planning.py`) | none | plan a page, compare a change with a plan | catalog snapshot, device layout |
| Reconcilers (`_bindings/_reconcile.py`, `_availability_reconcile.py`, `_decisions.py`) | none of their own | commit a page, revoke, install, reconcile each control after an availability change | attachments, installer, instances, effects |
| Installer (`_bindings/_installation.py`) | deferred preparations | activate, prepare (four sections with adapter calls between), resume | effects, instances, boundary |
| Attachments (`_bindings/_attachments.py`) | leases, input and output routes, command authority, held and suppressed inputs | add, remove, enable, disable, route an event, cancel held | everything about bindings |
| Input interactions (`_bindings/_input.py`) | none | route, deliver, cancel, send | attachments, effects |
| Action instances (`_bindings/_action_lifecycle.py`) | a record per instance: agreement, started | reserve, start, accept, destroy, recover, page notices | catalog contracts, effects |
| Lifecycle rejections (`_bindings/_lifecycle_rejections.py`) | none | stale, binding, instance and page rejections | installer, reconciler, navigation |
| Presentation and rendering of bindings (`_presentation.py`, `_bindings/_rendering.py`, `_render_execution.py`) | base and overlay of a binding, jobs and their results | output and overlay commands, jobs, refresh, replacement | dispatcher, workers, provider (results) |
| Render dispatcher (`_render_dispatcher.py`, `_render_feedback.py`) | per control: generations, base revision, pending request and clear, running renders, io lock | submit, publish, accept, clear, loading indicator and its restoration | hardware commands |
| Render workers (`_render_workers.py`, `_render_process.py`, `_render_observation.py`) | thread pool, worker processes, limiters, one file | compose, render, retry, replace a worker, close | operating system |
| Image resources (`_render_resources.py`) | cache, semaphores by origin, request slots | acquire, get, close | HTTP |
| Configuration files (`config/_service.py`) | a snapshot of the directory, subscribers, published version | scan, write, publish, subscribe | file system, bucket |
| Configuration projection (`config/_materialized.py`) | active configurations and their revision | follow, adopt, report, edit | bucket |
| Settings (`settings/`) | none: snapshots computed from the configuration on every read | get, read-only | installer, providers |
| Render graph, recipes, diagnostics, builtin actions, documents | data and small tables | | |

What is hard, and for which part:

* *The boundary*: a cancelled waiter stays queued in the semaphore until it
  unwinds.  It must be a lock, first come first served, and strand nobody.
* *Bounded work*: the effects have a one-slot callback that is cleared before it
  is awaited, two reserves over one counter and runners that remove their queue;
  threads cannot be interrupted and worker processes only killed; requests to an
  origin share a semaphore that comes and goes.  Capacity must come back exactly
  once, no wakeup may be lost, nobody waits for ever.
* *Preparation of a binding*: four sections of the boundary with adapter calls
  between.  Agreements, catalogs, pages, hardware and the binding itself change
  in between, and sends may succeed, be lost, or fail although they arrived.
  The session must not believe in an attachment the provider does not have, nor
  leave one that nobody knows, nor carry a grant into another agreement.
* *Input*: a press the provider has seen must get an end, within its attachment,
  although the reserve may be full.
* *Navigation*: six ways to end a temporary page, a timer that sleeps while
  deadlines move, a remote command that plans in one section and commits in
  another.  The page that is shown must be the current one, its owner must know.
* *Output*: two renders at a time, finished frames, clears and loading indicators
  of one control overtake one another while its binding is replaced and revoked.
  The control must end up with what was declared last, and never show a page that
  is gone.
* *The outside*: routes of one configuration succeed one another faster than
  sessions start and end; watches of a provider are cancelled while they hold its
  lease, and tell many sessions one after the other; files are edited while they
  are scanned; several editors write one projection.

## 2. Modules

| Module | Models | Its state in a sentence |
| --- | --- | --- |
| `StateGate` | `_state_gate.py` over `anyio.Semaphore(1)` | a task is out, waiting, granted, cancelled or inside |
| `SessionEffects` | `_session_effects.py` with the installer's deferral | queues of ordinary and cleanup work, runners, counters, callback |
| `EffectReserves` | what `SessionEffects` promises | pending work per resource, accepted in order within a reserve |
| `RenderWorkers` | `_render_workers.py`, `_render_process.py`, `_render_observation.py` | where each request is, executions in the thread pool, free capacity, idle workers |
| `ImageResources` | `_render_resources.py` | where each call is, semaphores, cache, bytes |
| `BindingDecision` | `_bindings/_decisions.py` | the table as an operator |
| `BindingLifecycle` | installer, reconcilers, attachments, input, instances, rejections of one session | one record `s` for the session, one `p` for what the provider has seen |
| `PageNavigation` | `_pages/`, `_page_commands.py`, the page half of `_availability_reconcile.py` | frames, planned commands, timer, what owners were told |
| `RenderDispatcher` | `_render_dispatcher.py`, `_render_feedback.py`, `_presentation.py`, `_bindings/_rendering.py` | one control: dispatcher, io lock, jobs, renders, clear, indicators, binding, what is shown |
| `Connections` | `_hardware/_service.py`, `_routes.py`, `_controller_service.py` | devices, routes, the task that routes, the map of sessions and its queue, lifecycles |
| `ActionProviders` | `_actions/_supervisor.py`, `_runtime_gateway.py`, the marking in `_availability.py` | watches, leases, one record, what each session's page was planned with |
| `ActionSelection` | `_actions/_availability.py` | records of one action by provider, mapping, interest, plans |
| `ConfigFiles` | `config/_service.py` | directory, snapshot, scan, publication, subscribers, bucket |
| `ConfigProjection` | `config/_materialized.py` | bucket, source, active configurations, reconciliation, edits |
| `MC*` | instances for TLC | |
| `FoldProofs` | nothing of the code: what any fold keeps | a step and a property as constants |
| `*Proofs` | theorems | |

How they compose.  `StateGate` shows that the sections of the boundary exclude
one another; that is what lets every handler be one action in `BindingLifecycle`,
`PageNavigation` and `RenderDispatcher`, and what makes the waits between the
sections of a preparation or a page command the only places where others act.
Its first-come-first-served hand-over is also what the io lock of a control and
the lock of the hardware routing rely on.  `SessionEffects` implements
`EffectReserves` (`ImplementsReserves`); the queues of `BindingLifecycle` are that
abstraction, with the same two reserves.  `BindingLifecycle` EXTENDS
`BindingDecision` and calls its table as the code does.  `PageNavigation` knows a
binding only by the agreement it was installed under; `BindingLifecycle` knows a
page only by the controls it binds; `RenderDispatcher` knows a binding by when it
is installed, replaced and revoked.  `ActionProviders` is where the catalog changes
and agreements of these two come from, and `Connections` where sessions do.
`MCSession` and `MCOutside` bring together parts that share no state: which of
them runs is chosen at the start of a behaviour, so one run asks the same kind of
question of several parts.

### Correspondence

*StateGate.*  `where[t]` is the place of task t; `Enter` is `acquire_nowait`
succeeding, `EnterBlocked` its `WouldBlock`, `Exit` the last `__aexit__`.
`ReleaseBy`, `CancelWaiting`, `CancelGranted`, `LeaveQueue` and `RunOn` are the
semaphore of anyio as the code uses it (external in the map).

*SessionEffects.*  `Submit` is `submit` with its refusals; `Finish` is one turn of
the loop in `_run` up to the callback or the next effect; `Resume` is
`_resume_deferred_preparations` in the boundary, called by the notifier;
`CancelScope`, `Unwind`, `CloseScope` are the end of the task group.

*RenderWorkers.*  A request goes from its limiter to a thread (`Submit`,
`StartThread`, `EndThread`) or to a worker process (`TakeProcessSlot`, `RunProcess`,
`Answer`, `Fail`, `Join`).  `Expire` and `Cancel` call it off; `Abandon` is what a
cancelled waiter of a thread does, `Attempt` and `Judged` the retry.  `Close`, `Cut`,
`Await` and `Sweep` are `aclose`; `AwaitFails` is its `fail_after`, which ends it while
workers are still being joined.

*ImageResources.*  Each call of `get` looks at the cache, enters the origin and the
slots, fetches and remembers; `Stop` is its unwinding from wherever it is, `Refuse` a call
that ends before it has asked for anything.  An answer that the entry is still good may
forbid to keep it.

*BindingLifecycle.*  The fields of `s` carry the names of the code's tables in
comments (`binding_leases`, `active_input_by_control`,
`command_authority_by_binding`, `held_input_bindings`, `operations`,
`_deferred_bindings`, `_instances`).  `Revoke`, `Activate`, `Install`, `Deliver`
and the others are the handlers' helpers as operators from state to state, so
that an action is the whole handler.  `PrepareBegins`, `PrepareAccepts`,
`PrepareCompletes` and `PrepareEnds` are the sections of `_prepare_binding`; the
adapter call that precedes a section is folded into the action before it with
its outcome (`Outcomes`: it arrived, it arrived but failed at the sender, it was
lost), because a message that is on its way and one that has arrived are not
told apart by the session.  `p` is the provider under the current agreement:
which instances were created, which bindings attached, which pressed; a new
agreement starts it afresh.  A rejection that destroys nothing reaches the session
as a catalog change.

*PageNavigation.*  `Commit` is `commit_page_draft` with the notices that follow;
`PlanOpen`/`PlanUpdate`/`PlanClose` and `CommitCommand` are the two sections of
`handle_page_command`.  The revision is only compared for equality, so a planned
command carries whether it moved.  `told` is what `emit_page_opened` and
`emit_page_closed` have told the owner of a page session.

*RenderDispatcher.*  A section under the dispatcher's lock never suspends, so it is
an operator from state to state (`Submit`, `Accept`, `ClearControl`, ...), and the
handlers compose them.  The tasks are those of the code: `Run*` is `_run_control`,
`Clear*` is `_clear_output`, `Job*` a job of the binding renderer, `Feed*` a loading
indicator, `Undo*` its restoration.  They meet at `io`, the queue of the control's
io lock.  A render task may show the indicator of its next request while that of the
last is still being written (`Second`).  `shown` is what the hardware has.  `lost`
remembers why the declared composition may be missing: a render, a write or a job
failed; or, without any failure, an overlay was stranded, a base undercut by a clear of
its generation, or a job superseded by a reactivation while it was being sent.  What
each of these may leave behind is part of `Settled` (`LeftBehind`), and for the first
two a run shows that the code should not (`OverlaysEnd`, `ClearsAreOlder`).

*Connections.*  `router` is the one task that holds the routing lock, with a phase
for every await in `_route_authorized`; `parting` are the calls of `_disconnect`, which
the end of a use makes without the lock; `queue` is the order in which the map's
operations were begun; `life[r]` is `_device_lifecycle` of route r.

*ActionProviders.*  A task is a watch or a sender, and its phase says which
session it tells next.  `DropOwn` is `_drop_runtime_lease_for_object`, which compares
the watch's generation; `Tells` is one turn of `_notify_availability_changed`.

*ActionSelection.*  `PlanIntent` is `planning_snapshot`, `LookUp` is
`record_for_intent`; `Ingest`, `SessionEnds`, `Rejected` and `Interest` are what changes
records and interest, and each prunes where the code does; a rejection of an action
whose record was pruned makes one without labels.  `steady` remembers
which intents the selection must not move.

*ConfigFiles.*  A scan is one step per file (`BeginScan`, `ReadFile`, `EndScan`); the
publication has the bucket's answer as a step of its own (`EndPublish`,
`FailPublish`, which includes an answer that is lost after the write).  A call of
`write_config` scans, makes the directory when there is none (`MakeDirectory`), places
its file (`PlaceFile`), or fails to (`FailWrite`), and refreshes.  A directory that is made
anew has no other files; `disk.swept` remembers whose went with the old one.

*ConfigProjection.*  `Observe` and `CutOff` are the materialized source, `TakeChange`
the watch loop, `ReadEntry`, `Commit`, `Awaited`, `TakeWrite` the parts of
`write_config`.  A reconciliation reads the source under its lock (`Take`), replaces what
is active under another (`Replace`), which it may have to wait for, and puts the result
(`Report`).

## 3. Runs

| Run | Question | Instance | States |
| --- | --- | --- | --- |
| `session` | is the boundary a lock, fair among live waiters, under cancellation? does bounded work stay bounded, come back, end and close? do the effects implement `EffectReserves`? is the page of local requests current, does an idle one close? | 4 tasks, nesting 2; 3 resources with reserves of 2; 3 renders, 1 thread, 1 worker; 3 image calls, 2 origins; 2 routes, 1 temporary page, 2 page sessions, all devices that fit it | 86,359 |
| `bindings` | do grants stay within agreements, routes within leases, presses within attachments? is what the session believes of the provider true? | three scenarios (see below) of 2 pages, 2 controls, 3 identities, 3 agreements of 2 provider sessions, reserves of 1 and 2 | 699,980 |
| `bindings_stall` | (violated) is a preparing binding always being prepared? | 1 control; effects that run into their deadline | |
| `pages_remote` | what can overtake a remote command? does every owner know? | 1 route, 1 temporary page, 1 command, 2 agreements, all devices | 296,757 |
| `pages_stale_plan` | (violated) is the page shown the current one? | 3 actions, 1 command | |
| `pages_descriptor` | (violated) does closing replan the route? | 1 route, all devices | |
| `render` | what does the control show in the end, and on the way? | six budgets over 3 messages (render, clear, finished frame), 2 bindings, 2 renders at a time | 1,180,144 |
| `render_clears` | (violated) does a clear spare what came after it? | the same | |
| `render_overlays` | (violated) does an overlay end when it is ended? | the budget with clears | |
| `outside` | one session per route, one watch per service, every session told, no configuration lost, selections kept | 2 devices, 2 configurations, 2 agreements, 2 routes; 2 sessions, 2 provider sessions, 1 sender; 2 files; 2 projections, 1 edit; 2 providers, 2 intents | 295,643 |
| `providers_revoke` | (violated) does no binding outlive its agreement? | 2 sessions, 2 provider sessions, 1 sender | |
| `files_vanished` | (violated) is no configuration given up for a directory that vanished? | 2 files, 1 call that writes | |

A property of a run names related facts as conjuncts: `RoutesPointToLeases` has
`OneBindingPerControl`, `ActiveIsAttached` has `AttachedInstanceExists`,
`SessionsAreRouted` has `OneSession`, `NothingToReplace` and `OneDevicePerConfig`,
`CountsMatch` has `IdleIffDrained`, and so on; `GateInv` contains that no waiter is
stranded and, by counting, mutual exclusion, which the theorems state.

*Scenarios and budgets.*  All kinds of disturbance together are out of reach, so a
behaviour has some of each, chosen at the start.  `bindings` has three scenarios:
agreements, catalog changes and deadlines over one control; lost messages,
rejections, hardware loss and agreements over one control; page and
configuration changes over two controls that share an instance, with a full
reserve.  `render` has six budgets: much of one kind (bindings and turns, overlays,
slow renders, clears, finished frames with faults, builtin contents) and some of the
others.  Between them every action fires.

*Bounds.*  `MaxDepth`, `MaxBindings`, `MaxAgreements`, `Generations`, `Sessions`,
`MaxContracts`, `MaxRoutes`, `MaxChanges`, `MaxWatches`, `MaxUses`, `MaxEvents`,
`Attempts`, the budgets and the length of `SessionOf` bound counters, identities and
disturbances; each is a constant of its module and a guard.  Two binding
identities are enough for a grant and its successor with the cleanup of the first
still queued; three for two controls of which one is replaced.  Identities are
reused when nothing refers to them.  Reserves of one or two make refusals frequent,
where the code has 256; one thread and one worker make every queue non-empty; one
kept record makes every ingestion prune.  Three agreements give a renewal within a
session and a reconnection.  Three page sessions give the one shown, the one of a
command in flight and the one the timer sleeps on; without commands two do.  Two routes are a route and its
successor, whose lifecycles overlap; three watches are one that unwinds, its
successor, and the one that a stale sender starts.

*View and symmetry.*  `bindings` and `render` use the view `Canonical` of their MC
module: it hides which number an operation, generation or ticket carries beyond its
order, and what is left of identities and jobs that nothing reads.  `pages_remote`
and two of the violation runs declare page sessions symmetric; they have no
liveness property.

*Deadlock.*  Not checked: a session that was stopped, or whose bounded disturbances
are used up, has nothing to do.  That nobody waits for somebody who waits is what
`GateInv`, `WaiterServed`, `NoLostWakeup`, `EveryRenderEnds` and `Settled` say.

*Fairness.*  `session`: in the boundary, the task that was handed the token runs
again and the outermost block ends (the event loop is fair and handlers have
timeouts); nothing is asked of a cancelled task, which may stay in the queue.  An
effect ends by its `fail_after`, the callback runs, cancelled runners unwind; a
render's deadline passes and what is due happens, but neither a thread nor a worker
process need ever end; time passes and the timeout loop of the pages wakes from its
fixed sleep.  `outside`: tasks that can go on do;
the routing lock is first come first served and every used device is routed again
every second, hence strong fairness for its turn; watch loops poll; subscribers
take what they are woken for.  No fairness is assumed of providers, users, editors or
hardware.

*Mutants.*  Definitions named "Mutant" are plausible mistakes in one definition
(a guard dropped, two statements swapped, a reset forgotten).  Each property is
violated when the mutant replaces the definition.

## 4. What the runs show

All properties of the passing runs hold.  Seven statements of the documentation and
the comments do not:

* `bindings_stall` (`PreparingIsOutstanding`, `src/docs/architecture.md` line 166).  The
  deadline of the whole preparation is the sum of its inner timeouts and a second,
  but its waits for the boundary count against it as well.  When it fires, the
  `finally` of `_prepare_binding` enters the boundary in the cancelled scope, where
  `StateGate.__aenter__` raises before the operation is removed.  The status
  stays `PREPARING` and `_activate_binding` refuses that binding from then on.
* `pages_stale_plan` (`PageIsCurrent`, lines 214 and 563).  A remote `ClosePage` plans
  the configured route while an action is unavailable; before it commits, the
  action comes back, and the session ignores the notice because the page then
  shown does not use the action; the old plan is committed, since no revision
  moved.  The control stays unbound until something else changes.
* `pages_descriptor` (`ClosingReplans`, lines 214-215).  When a descriptor change
  invalidates the temporary page only, it is closed and every binding revoked;
  the configured route, which still fits, is not planned.
* `render_clears` (`ClearsAreOlder`, lines 339-340 and the comment at
  `_render_dispatcher.py` 309-311).  A clear that waits is skipped only if something of a
  *later* generation was published.  A base admitted before the clear and composed
  after it carries the clear's own generation; it is published, reported as
  dispatched, and then erased.
* `render_overlays` (`OverlaysEnd`, the comment at `_render_dispatcher.py` 168-170).  A
  provider clears a base while an overlay lies over it: the clear is composed with the
  overlay and its bytes are sent.  While they are in flight the overlay ends, and the
  base, which is still accepted, is to be drawn alone.  The clear is then accepted and
  composed again; but now there is neither base nor overlay, so that composing only
  claims the route, which cancels the drawing that was to come.  Nothing failed, and the
  control goes on showing the overlay.
* `files_vanished` (`LossIsNotDeletion`, line 569).  The directory is gone (a mount that
  was lost) and a configuration is written.  `write_config` makes the directory and
  refreshes; the scan succeeds, so every configuration whose file went with the old
  directory is taken for deleted: it leaves the snapshot, the bucket and its subscribers.
* `providers_revoke` (`RevokedWithTheAgreement`, line 563).  The sender that finds the
  agreement ended marks the records and then tells the sessions one by one; it runs
  under a deadline of one session's effect.  When it is cancelled in between,
  nobody tells the others: the records are marked already, so no later mark is a
  change.

Met while modelling, and left as they are: an overlay shown on a control without
base stays until the next output when its expiry meets a revoked agreement; a binding
replaced in place keeps the pixels of its predecessor until it draws (the model and
`Settled` allow it); reactivation supersedes a job in flight, and pixels that were being
sent by then stay although nothing is declared; a sender that failed on
an old agreement restarts the watch of a newer, healthy use; `write_config` of an id
that is not known writes `<id>.yml` even when that file holds another
configuration; a lifecycle rejection in one session remaps the shared intent and may
move the controls of another; a recovery that arrives during a preparation is spent;
`trust_mapped_key` can never decide a selection; at the closing of the backend
extension graphs run shielded, and their worker returns after the idle ones were
closed, where nobody closes it any more (`outside` in `RenderWorkers`, which
`CapacityAccounted` leaves out: such a worker holds no slot; line 354 of the architecture
says that idle workers are closed with the backend).  No property says that no worker
outlives its backend; it would fail.

## 5. Theorems

`StateGateProofs`: for every set of tasks and every nesting depth, `GateInv` is an
invariant (`GateInvariant`), and with it mutual exclusion (`GateExcludes`), that no
free token lies beside a pending waiter (`GateStrandsNobody`), and first come first
served (`GateIsFifo`).  Mutual exclusion is not inductive: `GateInv` adds that value
1 means no holder, that a holder is either granted or the owner, that the owner
and the depth agree, and that the queue holds each waiting or cancelled task
once and no other.

`SessionEffectsProofs`: for every capacity and finite set of resources, `WakeupInv`
is an invariant (`WakeupInvariant`), and so a deferred preparation always has
somebody who will wake it (`WakeupIsNeverLost`).  `NoLostWakeup` alone is not
inductive: one needs that a reserve that refused is full of work that runs, that
there is one notifier, and that counters stay within their reserves.  On top of it
`EffectsInv` adds that queued work has a runner (`Attended`) and `CountsMatch`: the two
counters are what the queues hold and the idle event is set exactly when that is
nothing (`CountersMatchQueues`).  Work is counted as a set of pairs of a resource and a
place in its queue, so that an effect that ends is a one-to-one correspondence of what
is left with what moved up (`ItemsEnded`), admission a union (`ItemsAccepted`) and the
unwinding of a cancelled runner a difference (`ItemsDropped`); no induction is needed.
From the same invariant every step is a step of `EffectReserves` or changes nothing
that it sees (`EffectsStep`), which is the refinement `ImplementsReserves`
(`EffectsImplementReserves`).  The bound of `Accept` there is that of the counters
here, so the refinement would be false if a counter drifted.

`BindingLifecycleProofs`, for any number of controls, pages, instances, agreements
and identities and any two reserves: `Inv` is an invariant (`LifecycleInvariant`), and
with it `RoutesPointToLeases` (`RoutesAreTrue`), `NothingCrossesAgreements`
(`AgreementsAreKept`), `StatusIsReadiness` (`StatusIsTrue`), `PreparationAccounted`
with the type invariant (`PreparationsAreAccounted`), `ActiveIsAttached`
(`ActiveAreAttached`), `PressWithinGrant` (`PressesAreWithinGrants`) and `PressHasAnEnd`
(`PressesEnd`).  Assumed are finitely many controls and instances, plans that name
controls and instances there are, each control once, and reserves that are not empty
(`LifecycleAssumption`).

The argument follows the code: an action is a section of the boundary, a section is a
composition of helpers from state to state, and some helpers run others in a loop.  So
the invariant is about a session state and not about the variables, and is proved of
every helper once, whoever calls it:

* `Sound(t, Y)` is what holds within a section, Y being the bindings that it has
  installed and not yet activated.  `Typed`: the tables are within their domains and the
  queues within their reserves.  `Grants`: an identity that the session, a queue or the
  provider refers to has been granted.  `Routes`: what routes, commands or holds is an
  installed binding, attached, on its control, and a control has one.  `Crosses`: what is
  attached or pressed is of the agreement of now.  `Ledger`: operations, deferrals and
  status are one account.  The properties are not inductive by themselves: that
  `RoutesPointToLeases` survives an installation needs that the identity which is taken
  is in use nowhere (`Grants`, and the reserves in `Typed`, for there to be one), and
  that it survives a late preparation needs that an operation in the ledger is that of a
  stored binding (`Ledger`).
* `Continues(t, u)` is what a section from t to u owes to the preparations under way in
  other tasks: effects are only added behind, a number of the ledger is given to
  nobody else, what is attached stays so while stored, and what was left preparing has
  something to come.
* `Tidy(t, B)` is the order of the queue of an instance, which the presses depend on.
  Every press, queued or seen by the provider, is held, or has its release or
  cancellation behind it, or one such message of its binding was refused (`Ends`);
  nothing of a binding follows its detach, and a queued detach is of a binding that is
  not stored; what is held is attached; the provider has presses of what is attached
  only; and what is stored, ready and of the agreement of now is attached at the
  provider.  A revocation first takes the press out of `held` and then submits its end:
  in between the press is owed, B being the bindings of which that holds.  That the
  property survives a press which arrives late needs the order of the whole queue and
  not only its first effect: the end must be behind the press, and the detach behind
  the end.
* `Housed(t, A)` is about the instances, A being what the provider has attached.  What is
  attached has its instance, and is installed or has its detach queued, unless a message
  to the provider was lost (`Sheltered`).  A queued destruction has the detaches of all
  bindings of its instance before it, and no preparation before it that could start the
  instance again (`Emptied`): that alone is not inductive, because a preparation which was
  accepted late could attach a binding ahead of the destruction, so it must be known of
  which record and agreement each queued preparation is (`InPlace`), and that a record
  started under the agreement of now, or accepted by a preparation, has been created
  (`Registered`).  Within a step A is what is attached before and after it (`Standing`),
  since what the provider detaches in between needs no instance.
* `Follows(t, u)` is these together for a whole section: it continues what is under way
  and keeps `Tidy` and `Housed`.  The helpers are proved to follow one by one, and so are
  their loops.
* `Underway` and `ReadyIsAttached` tie the stages of a preparation to both, and
  `Outstanding` is the other direction of the ledger: it holds unless a deadline cuts a
  preparation off (`May("stall")`), which is the finding `bindings_stall`.

The loops (revoking what a page does not keep, installing a page control by control,
resuming what was deferred, ending all held inputs or all instances) are folds over
lists and sets of any length.  `FoldProofs`, which is about nothing of the code, has the
lemma for any step and any property: a fold keeps what each of its steps keeps:
its recursion has a solution, by the least number up to which it would not have one,
and the property passes along it in the same way.  No induction theorem of the library
is used, since those take an operator; the step and the property are constants of the
module instead, and the seven loops are seven instances of it.  The model's loops are
those folds by definition.

`PageNavigationProofs`, for all devices, pages, page sessions, commands and agreements:
`NavigationInv` is an invariant (`NavigationInvariant`).  Its parts are the shapes of
frames and sessions, that a temporary page lies over a route of an active
configuration, that an owner believes open what is shown (`ToldWhatIsShown`), that the
page shown belongs to an agreement its owner has unless a notice is due (`Owned`), and
that a command which nothing has overtaken has a draft of what is shown
(`CommandInv`): without it a commit of a planned command could bring back an owner
that has gone.  It gives `ToldWhatIsShown` (`OwnersKnowTheirPages`), `OwnerHolds`
(`PagesHaveTheirOwner`) and `CommandsSeeTheirBase` (`CommandsKnowTheirBase`).
`PageIsCurrent` is proved under two conditions (`LocalPagesAreCurrent`): that there are
no remote page commands, and that every device has what the temporary pages need.
Neither can go: the runs `pages_stale_plan` and `pages_descriptor` show what breaks it
otherwise.

Of the decision table, for every input (it is part of `BindingLifecycle`, and so are
its proofs): a binding is kept exactly when the plan still wants it, its agreement is
current and nothing differs (`TableKeepsCompatible`); a grant is issued only over a
retired one or onto an empty control (`TableGrantsExclusively`).

`RenderDispatcherProofs`, for any number of messages, bindings, render tasks, pages and
contents, any of them slow or failing: `Inv` is an invariant (`DispatcherInvariant`), and
with it hold `OneResult` (`OneResultEach`), `PublishedInOrder` (`OutputInOrder`),
`NoOldPixels` (`PagesEndWithTheirClear`) and the types with `NobodyForgotten`
(`NobodyIsForgotten`).  Assumed are finitely many messages, none of them named like a
render task or a content (`DispatcherAssumption`).  The parts of the invariant:

* `Line` is the lock of the output: in line are exactly the tasks in a stage that waits
  for the output or holds it, each once, and who holds it is first.
* `Ordered`: who writes brings nothing older than what is published.  The generation of a
  task is compared when it enters the lock and published when it leaves it, while the
  control moves on in between; that the comparison is still true then is so because
  nobody else publishes meanwhile, which is `Line`.  So `PublishedInOrder` says that no
  publication escapes the lock, that of a cancelled job which had sent already included.
* `Belongs`: what the control accepted, its owner, and the requests and indicators of
  the generation of now are of the page of now; a write for another page is under way
  only while a clear waits or is performed.  Without the clause on the generation, a
  render that waited over a page turn could pass the comparison and draw the old page.
* `Expected`: what waits has its task, and is of the owner of now.
* `Told`: how far each job is and what its provider was told are one account; `_finish`
  may be called for one job by the next message, a page turn, an expiry, the task itself
  and the hardware, in any order.

Each operation of the dispatcher is proved to keep `Sound(t, X)`, the invariant but for
the tasks X that are between two stages, so that one lemma serves all actions that
call it.  What stays with TLC is the rest of `Settled`, that with nothing under way the
control shows what was declared last: it is about the end of a run, and would need an
account of which task still owes each difference between what is shown and what is
accepted.

`ConfigProjectionProofs`, for all projections, edits and numbers of attempts and
events: `ProjectionInv` is an invariant (`ProjectionInvariant`). Its parts are that
the adopted revision is at most that of the source and this at most that of the
bucket (`Revisions`), and that of the entry whoever reconciles has taken lies
between the first two, so that it replaces nothing newer although the source moves
on (`Taken`); that an entry a call has read is the bucket's entry as long as that
has its revision (`Reads`), which is what makes a revision-checked edit keep the
others (`EditsKeepTheRest`); and that, unless the watch loop has a change to look
at, what is active and what was or will be reported is what the source has
(`Follows`), which gives `ProjectionIsFollowed` in every state with the lock free.
`ProjectionIsAdoptedInOrder` follows from `Taken` and `Revisions`.

`ActionSelectionProofs`, for all intents, admissions and providers that are ordered
(`ProvidersOrdered`, the assumption of these theorems: None is no provider, and of
some providers one is the first): `SelectionInv` is an invariant
(`SelectionInvariant`).  It says that a mapping is justified by a record with what
the intent asks for, so that pruning, which asks the interest, spares it
(`PruningSparesControls`, `MappingExists`, `SelectionIsWithin`); and that an intent
whose plan has been usable ever since is mapped to that provider, so that planning
and looking up select it again (`SelectionIsSticky`).

Assumptions are those named in the modules: the null task is no task, bounds are
positive naturals, plans are within the controls, providers are ordered, messages are
finitely many; TLC evaluates
each of them on the instances of the runs (`MCOutside` states those of the modules it
instantiates).

*Only model-checked.*  Liveness, which is out of the prover's reach.  The invariants of
`RenderWorkers`, `ImageResources`, `Connections` and `ActionProviders`, `Settled` of
`RenderDispatcher` but for its first line, and the action properties of the files.  Every
safety invariant that the run `bindings` checks is proved.

## 6. What is not modelled

Data: selector resolution, capability matching and layouts (a plan is what fits
and what is available), the contents of settings, page descriptors, images and
graphs, validation of documents (a constant says what is valid and what matches).
Logging.  Settings are computed from the configuration on every read and keep no
state.  Of bindings: the destruction of the child instances of external dynamic pages;
capabilities (a control has one, and its held and suppressed keys are per control).
Of rendering: repeated messages (`_retained`), the admission slots shared by all
controls, `clear_raster` of local actions (it has no caller), the sixty seconds and the
1024 entries of observed render commands, the warming up of workers.  Of providers:
more than one service and action, a view stream that ends normally, the
synchronisation of the builtin catalog.  Of the selection: a time limit on fresh
records, which production has not, and metadata lookups for settings.  Of the
configuration: writes before the projection's start.  The order in which a session's
collaborators are constructed, started and closed.  Everything `PROJECT.json` lists
as `not_modelled`.

## 7. Plan

1. Proofs of `SessionsAreRouted` of `Connections`; `OneWatch` and `SessionsKnow` of
   `ActionProviders`; `CapacityAccounted` and `CacheAccounted` of the workers and images.
2. Start and close of a session's collaborators, with the drain of its effects; two
   controls of one session that share the admission slots.
