--------------------------- MODULE RenderDispatcher ---------------------------
(****************************************************************************)
(* The output of one control: the dispatcher that orders what is written to *)
(* it, the jobs of its provider, the ordinary renders, the clears and the   *)
(* loading indicator, against the session that installs and revokes         *)
(* bindings meanwhile.                                                      *)
(*                                                                          *)
(* A section under the dispatcher's lock never suspends, and a handler of   *)
(* the session is one section of the boundary, so both are atomic.  What    *)
(* takes time is rendering and writing; writes hold the control's io lock,  *)
(* which is first come first served (StateGate: FifoHandoff).               *)
(****************************************************************************)
EXTENDS Integers, Sequences, FiniteSets, SequencesExt

CONSTANTS
    Jobs,           \* messages of providers: binding_render and binding_output
    ClearJobs,      \* those that clear
    DirectJobs,     \* those that carry finished frames (binding_output)
    Budgets,        \* bounds: what may happen in a behaviour (see Budget)
    MaxBindings,    \* bound on the bindings the control has in a behaviour
    MaxActive       \* MAX_ACTIVE_RENDERS_PER_CONTROL, and jobs per control

None == 0
Bindings == 1..MaxBindings
Runs == 1..MaxActive

\* A render task has a loading indicator, and may start another one for its next
\* request while the pixels of the first are still being sent.
Second(k) == k + MaxActive
Feeds == Jobs \union Runs \union {Second(k) : k \in Runs}

\* The jobs, bindings, overlays, contents of builtin actions and transitions of the
\* session that may still come, the renders slow enough for a loading indicator,
\* whether the hardware rejects and the agreement lapses, and whether renders, writes
\* and jobs may fail or expire.
Budget == [jobs : SUBSET Jobs, slow : SUBSET (Jobs \union Runs),
           bindings : 0..MaxBindings, overlays : Nat, contents : Nat, turns : Nat,
           faults : BOOLEAN, failing : BOOLEAN]

ASSUME DispatcherAssumption ==
    /\ {MaxBindings, MaxActive} \subseteq Nat
    /\ \A u \in Budgets : u \in Budget
    /\ ClearJobs \subseteq Jobs /\ DirectJobs \subseteq Jobs
    /\ IsFiniteSet(Jobs) /\ Jobs \intersect 0..2*MaxActive = {}
    /\ None \notin Jobs /\ \A u \in Budgets : Jobs \intersect 0..u.contents = {}

\* What a control shows.  A frame is the composition of a binding's accepted
\* base (the job or the builtin content that made it) and its overlay.
Frame(b, base, ov) ==
    [own |-> IF base = None /\ ov = None THEN None ELSE b, base |-> base, ov |-> ov]
Blank == Frame(None, None, None)
Loading(b) == Frame(b, None, -1)
Status == Frame(None, None, -2)     \* pending and unavailable cards

NoRequest == [gen |-> 0, own |-> None, frame |-> Blank]

VARIABLES
    ctl,        \* _ControlRenderState
    io,         \* the queue of io_lock; its head is inside
    run,        \* the tasks of _run_control
    clear,      \* the task of _clear_output, and _pending_clears
    job,        \* the jobs of BindingRenderer
    results,    \* what the provider was told about each message
    feed,       \* the loading indicators: of jobs and of runs
    undo,       \* the tasks of _restore_loading
    store,      \* ControlStateStore of each binding
    bind,       \* the binding installed on the control, its authority, and the
                \* last binding whose page is over
    shown,      \* what the hardware shows
    left,       \* what may still happen
    lost        \* for the properties only: what has come between the latest composition
                \* and the control (Mishaps)

vars == <<ctl, io, run, clear, job, results, feed, undo, store, bind, shown, left, lost>>

\* A render, a write or a job failed; an overlay ended during the send of a clear that
\* bears it (Stranded); a base was sent that a clear of the same generation erases
\* (Undercut); a job that may be sending was superseded by a reactivation.
Mishaps == {"failed", "stranded", "undercut", "superseded"}

IdleRun == [ph |-> "idle", req |-> NoRequest]
IdleFeed == [ph |-> "off", gen |-> 0, own |-> None]
IdleUndo == [ph |-> "off", gen |-> 0]
NewJob == [ph |-> "new", b |-> None, ticket |-> 0, rev |-> 0, ov |-> None,
           done |-> FALSE, ready |-> FALSE, command |-> "none"]

Init ==
    /\ ctl = [gen |-> 0, published |-> 0, base |-> 0, own |-> None,
              pending |-> NoRequest, accepted |-> Blank, provisional |-> FALSE,
              cancelled |-> {}]
    /\ io = <<>>
    /\ run = [k \in Runs |-> IdleRun]
    /\ clear = [ph |-> "idle", gen |-> 0, pending |-> 0]
    /\ left \in Budgets
    /\ job = [j \in Jobs |-> NewJob]
    /\ results = [j \in Jobs |-> <<>>]
    /\ feed = [x \in Feeds |-> IdleFeed]
    /\ undo = [j \in Jobs |-> IdleUndo]
    /\ store = [b \in Bindings |-> [base |-> None, ov |-> None]]
    /\ bind = [last |-> None, cur |-> None, act |-> None, wiped |-> None,
               agreed |-> TRUE]
    /\ shown = Blank
    /\ lost = {}

----------------------------------------------------------------------------
(* Admission of requests, as operators from state to state *)

State == [ctl |-> ctl, io |-> io, run |-> run, clear |-> clear, job |-> job,
          results |-> results, feed |-> feed, undo |-> undo, store |-> store,
          bind |-> bind, left |-> left]

Becomes(t) ==
    /\ ctl' = t.ctl /\ io' = t.io /\ run' = t.run /\ clear' = t.clear
    /\ job' = t.job /\ results' = t.results /\ feed' = t.feed /\ undo' = t.undo
    /\ store' = t.store /\ bind' = t.bind /\ left' = t.left

Shows(f, mishaps) == shown' = f /\ lost' = mishaps
FailedIf(P) == IF P THEN lost \union {"failed"} ELSE lost
MendedIf(P) == IF P THEN {} ELSE lost

\* A command that fails, because the claim changed or the write ended in an
\* error, may have reached the hardware or not.
FailedWrite(f) == left.failing /\ \E g \in {shown, f} : Shows(g, FailedIf(TRUE))
Untouched == UNCHANGED <<shown, lost>>

Join(t, task) == [t EXCEPT !.io = Append(@, task)]
Leave(t, task) == [t EXCEPT !.io = RemoveFirst(@, task)]
Inside(task) == io # <<>> /\ Head(io) = task

\* The scopes a newer request cancels: those of the renders still computing.
Scopes(t) == {k \in Runs : t.run[k].ph = "render"}
Working(j) == job[j].ph \notin {"new", "end"}

\* output_render_authorized.
Authorized(t) == t.ctl.own = t.bind.act

\* A control that changes hands forgets its accepted frame.
Owned(c, b) ==
    IF c.own = b /\ b # None THEN c
    ELSE [c EXCEPT !.own = b, !.accepted = Blank, !.provisional = FALSE]

\* reserve_base, and submit_request without a request.
Claim(t, b, base) ==
    [t EXCEPT !.ctl = [Owned(t.ctl, b) EXCEPT !.base = @ + base, !.gen = @ + 1,
                                              !.pending = NoRequest,
                                              !.cancelled = Scopes(t)]]

\* The task of _run_control renders a request; without an overlay, a loading
\* indicator is shown when it takes long.
StartRun(t, k, req) ==
    LET x == IF t.feed[k].ph = "off" THEN k ELSE Second(k)
    IN [t EXCEPT
            !.run[k] = [ph |-> "render", req |-> req],
            !.ctl.cancelled = @ \ {k},
            !.feed[x] = IF k \in t.left.slow /\ req.frame.ov = None /\ @.ph = "off"
                        THEN [ph |-> "timer", gen |-> req.gen, own |-> req.own] ELSE @]

\* submit_request: start at once, or replace what is pending.
Submit(t, b, frame, base) ==
    LET claimed == Claim(t, b, base)
        req == [gen |-> claimed.ctl.gen, own |-> b, frame |-> frame]
        idle == {k \in Runs : t.run[k].ph = "idle"}
    IN IF idle = {} THEN [claimed EXCEPT !.ctl.pending = req]
       ELSE StartRun(claimed, CHOOSE k \in idle : TRUE, req)

\* clear_control: queue a clear; only the latest is kept.
ClearControl(t, b, clearOutput, base) ==
    [t EXCEPT
        !.ctl = [t.ctl EXCEPT !.own = b, !.base = @ + base, !.gen = @ + 1,
                              !.pending = NoRequest, !.accepted = Blank,
                              !.provisional = FALSE, !.cancelled = Scopes(t)],
        !.clear = IF ~clearOutput THEN @
                  ELSE [t.clear EXCEPT !.pending = t.ctl.gen + 1,
                                       !.ph = IF @ = "idle" THEN "start" ELSE @]]

Composed(t, b) == Frame(b, t.store[b].base, t.store[b].ov)
Empty(t, b) == t.store[b] = [base |-> None, ov |-> None]

\* PresentationController._render: with nothing to show, clear or only claim.
Render(t, b, clearWhenEmpty) ==
    IF ~Empty(t, b) THEN Submit(t, b, Composed(t, b), 0)
    ELSE IF clearWhenEmpty THEN ClearControl(t, b, TRUE, 0)
    ELSE Claim(t, b, 0)

\* Stop the indicator unless its pixels are being sent (that part is shielded).
StopFeed(t, x) ==
    IF t.feed[x].ph \in {"off", "write"} THEN t
    ELSE Leave([t EXCEPT !.feed[x] = IdleFeed], <<"feed", x>>)

\* Mutant: whoever ends a job reports it.
FinishAgain(t, j, result) ==
    LET told == IF j \in DirectJobs THEN <<>> ELSE <<result>>
    IN StopFeed([t EXCEPT !.job[j].done = TRUE, !.results[j] = @ \o told,
                          !.undo[j].ph = IF result = "dispatched" THEN @ ELSE "start"], j)

\* Mutant: a job gives up the control although its send is still under way.
FinishReleases(t, j, result) ==
    IF t.job[j].done THEN t
    ELSE LET told == IF j \in DirectJobs THEN <<>>
                     ELSE IF t.job[j].command = "rejected" THEN <<result, "hardware">>
                     ELSE <<result>>
         IN StopFeed(Leave([t EXCEPT !.job[j].done = TRUE,
                               !.results[j] = @ \o told,
                               !.undo[j].ph = IF result = "dispatched" THEN @ ELSE "start"],
                           <<"job", j>>), j)

\* BindingRenderer._finish: the one result of a job; whatever it waits for is
\* cancelled, and a hardware rejection that was held back follows.
Finish(t, j, result) ==
    IF t.job[j].done THEN t
    ELSE LET told == IF j \in DirectJobs THEN <<>>
                     ELSE IF t.job[j].command = "rejected" THEN <<result, "hardware">>
                     ELSE <<result>>
         IN StopFeed([t EXCEPT !.job[j].done = TRUE,
                               !.results[j] = @ \o told,
                               !.undo[j].ph = IF result = "dispatched" THEN @ ELSE "start"],
                     j)

FinishAll(t, js, result) == FoldSet(LAMBDA j, u : Finish(u, j, result), t, js)

----------------------------------------------------------------------------
(* Ordinary renders: _run_control, _apply_result, restore_feedback *)

\* The task takes what is pending, or ends.
NextRequest(t, k) ==
    LET freed == [t EXCEPT !.run[k] = IdleRun, !.ctl.pending = NoRequest,
                           !.ctl.cancelled = @ \ {k}]
    IN IF t.ctl.pending = NoRequest THEN freed
       ELSE StartRun(freed, k, t.ctl.pending)

\* After its attempt the task passes the lock again, to undo an indicator.
Settle(t, k) == Join([t EXCEPT !.run[k].ph = "settle"], <<"run", k>>)

\* The workers answer: a frame, nothing because it is stale, or a failure.
RunRenders(k) ==
    LET r == run[k]
        t == StopFeed(StopFeed(State, k), Second(k))
    IN /\ k \in Scopes(State)
       /\ \/ k \in ctl.cancelled /\ Becomes(NextRequest(t, k)) /\ Untouched
          \/ /\ k \notin ctl.cancelled
             /\ Becomes(Join([t EXCEPT !.run[k].ph = "apply"], <<"run", k>>))
             /\ Untouched
          \/ /\ k \notin ctl.cancelled /\ left.failing
             /\ Becomes(Settle(t, k))
             /\ Shows(shown, FailedIf(r.req.gen = ctl.gen))

\* The result is checked again inside the lock.
RunApplies(k) ==
    LET r == run[k]
        gone == Leave(State, <<"run", k>>)
    IN /\ r.ph = "apply" /\ Inside(<<"run", k>>)
       /\ Untouched
       /\ IF ctl.gen = r.req.gen /\ ctl.own = r.req.own /\ Authorized(State)
          THEN Becomes([State EXCEPT !.run[k].ph = "write"])
          ELSE Becomes(Settle(gone, k))

RunWritten(k) ==
    LET r == run[k]
        gone == Settle(Leave(State, <<"run", k>>), k)
        current == ctl.gen = r.req.gen
        accept(c) == IF current THEN [c EXCEPT !.accepted = r.req.frame,
                                               !.provisional = FALSE]
                     ELSE c
    IN /\ r.ph = "write"
       /\ \/ /\ Becomes([gone EXCEPT !.ctl = [accept(@) EXCEPT !.published = r.req.gen]])
             /\ Shows(r.req.frame, MendedIf(current))
          \/ /\ Becomes(gone)
             /\ FailedWrite(r.req.frame)

\* restore_feedback, reached through the lock.
Restorable(gen) == ctl.gen = gen /\ ctl.provisional /\ Authorized(State)

RunSettles(k) ==
    LET r == run[k]
    IN /\ r.ph = "settle" /\ Inside(<<"run", k>>)
       /\ Untouched
       /\ IF Restorable(r.req.gen) THEN Becomes([State EXCEPT !.run[k].ph = "restore"])
          ELSE Becomes(NextRequest(Leave(State, <<"run", k>>), k))

Restored(t, gen) ==
    [t EXCEPT !.ctl.provisional = @ /\ t.ctl.gen # gen]

RunRestored(k) ==
    LET gone == NextRequest(Leave(State, <<"run", k>>), k)
    IN /\ run[k].ph = "restore"
       /\ \/ /\ Becomes(NextRequest(Leave(Restored(State, run[k].req.gen), <<"run", k>>), k))
             /\ Shows(ctl.accepted, lost)
          \/ /\ Becomes(gone)
             /\ FailedWrite(ctl.accepted)

----------------------------------------------------------------------------
(* Clears: _clear_output *)

ClearPops ==
    /\ clear.ph = "start"
    /\ Becomes(Join([State EXCEPT !.clear = [ph |-> "queue", gen |-> clear.pending,
                                             pending |-> None]], <<"clear", 0>>))
    /\ Untouched

\* Look for a newer clear, or end.
ClearAgain(t) ==
    Leave([t EXCEPT !.clear.ph = IF t.clear.pending = None THEN "idle" ELSE "start"],
          <<"clear", 0>>)

\* Mutant: a clear is performed whatever reached the control since.
ClearEntersAnyway ==
    /\ clear.ph = "queue" /\ Inside(<<"clear", 0>>) /\ Untouched
    /\ Becomes([State EXCEPT !.clear.ph = "write"])

ClearEnters ==
    /\ clear.ph = "queue" /\ Inside(<<"clear", 0>>)
    /\ Untouched
    /\ IF ctl.published > clear.gen \/ ~Authorized(State)
       THEN Becomes(ClearAgain(State))
       ELSE Becomes([State EXCEPT !.clear.ph = "write"])

ClearWritten ==
    /\ clear.ph = "write"
    /\ \/ /\ Becomes(ClearAgain([State EXCEPT !.ctl.published = clear.gen]))
          /\ Shows(Blank, MendedIf(ctl.gen = clear.gen))
       \/ /\ Becomes(ClearAgain(State))
          /\ FailedWrite(Blank)

----------------------------------------------------------------------------
(* The jobs of the provider: BindingRenderer, RenderExecution, publish_base *)

BaseIsCurrent(t, j) ==
    /\ t.ctl.own = t.job[j].b /\ t.ctl.base = t.job[j].ticket
    /\ Authorized(t)

\* _authorize: the job is not over, its binding and its agreement still hold.
Allowed(j) == ~job[j].done /\ bind.act = job[j].b /\ bind.agreed

Running(t) == {j \in Jobs : t.job[j].ph \notin {"new", "end"}}

\* A message that is refused never becomes a job; a direct one is dropped silently.
Refuse(t, j) ==
    [t EXCEPT !.job[j].ph = "end", !.job[j].done = TRUE,
              !.results[j] = IF j \in DirectJobs THEN @ ELSE <<"rejected">>]

\* _admit: reserve the base, supersede what is unfinished.
Admit(t, j) ==
    LET reserved == Claim(t, bind.act, 1)
        others == FinishAll(reserved, Running(t), "superseded")
    IN IF Cardinality(Running(t)) >= MaxActive THEN Refuse(t, j)
       ELSE [others EXCEPT
                !.job[j] = [NewJob EXCEPT !.ph = "content", !.b = bind.act,
                                          !.ticket = reserved.ctl.base],
                !.feed[j] = IF j \in DirectJobs \union ClearJobs \/ j \notin left.slow
                            THEN @ ELSE [ph |-> "timer", gen |-> 0, own |-> bind.act]]

Coming(j) == job[j].ph = "new" /\ j \in left.jobs /\ bind.act # None

\* handle: a binding_render of the installed binding.
HandleRender(j) ==
    /\ Coming(j) /\ j \notin DirectJobs /\ Untouched
    /\ Becomes(IF bind.agreed THEN Admit(State, j) ELSE Refuse(State, j))

\* direct_output.
AdmitDirect(t, j) == IF bind.agreed THEN Admit(t, j) ELSE Refuse(t, j)

\* _handle_binding_output: a binding_output of the owner, with a finished frame.
DirectOutput(j) ==
    /\ Coming(j) /\ j \in DirectJobs /\ Untouched
    /\ Becomes(AdmitDirect(State, j))

End(t, j) == Leave([t EXCEPT !.job[j].ph = "end"], <<"job", j>>)

\* The job ends by itself; a reservation that showed nothing may have cancelled
\* the render of an overlay.
EndsWith(t, j, result) ==
    /\ Becomes(End(Finish(t, j, result), j))
    /\ Shows(shown, FailedIf(BaseIsCurrent(t, j)))

Base(j) == IF j \in ClearJobs THEN None ELSE j
JobFrame(r, j) == Frame(r.b, Base(j), r.ov)

\* Ready for the handoff: no indicator from here on.
Ready(t, j) ==
    Join(StopFeed([t EXCEPT !.job[j].ph = "queue", !.job[j].ready = TRUE], j), <<"job", j>>)

\* The composition of the base with the overlay of now; a clear without overlay
\* and a direct frame without overlay need no worker.
Compose(t, j) ==
    LET ov == t.store[t.job[j].b].ov
        u == [t EXCEPT !.job[j].rev = t.ctl.gen, !.job[j].ov = ov,
                       !.job[j].ph = "compose"]
    IN IF ov = None /\ j \in ClearJobs \union DirectJobs THEN Ready(u, j) ELSE u

\* One turn of the loop in execute.
Turn(t, j) ==
    IF ~Allowed(j) \/ ~BaseIsCurrent(t, j) THEN EndsWith(t, j, "superseded")
    ELSE Becomes(Compose(t, j)) /\ Untouched

JobComputes(j) ==
    /\ job[j].ph = "content" /\ ~job[j].done
    /\ \/ Turn(State, j)
       \/ left.failing /\ EndsWith(State, j, "failed")

JobComposed(j) ==
    /\ job[j].ph = "compose" /\ ~job[j].done
    /\ \/ IF BaseIsCurrent(State, j) /\ Allowed(j)
          THEN Becomes(Ready(State, j)) /\ Untouched
          ELSE EndsWith(State, j, "superseded")
       \/ left.failing /\ EndsWith(State, j, "failed")

\* publish_base up to the send: what was composed must still be the composition.
JobHandsOff(j) ==
    /\ job[j].ph = "queue" /\ ~job[j].done /\ Inside(<<"job", j>>)
    /\ IF Allowed(j) /\ BaseIsCurrent(State, j) /\ job[j].rev = ctl.gen
       THEN /\ Becomes([State EXCEPT !.job[j].ph = "send",
                                     !.job[j].command = IF @ = "none" THEN "sent" ELSE @])
            /\ Untouched
       ELSE Turn(Leave(State, <<"job", j>>), j)

\* Mutant: an overlay that changed during the send is not composed again.
AcceptOnly(t, j) ==
    IF ~BaseIsCurrent(t, j) THEN t
    ELSE [t EXCEPT !.ctl.accepted = JobFrame(t.job[j], j), !.ctl.provisional = FALSE,
                   !.ctl.gen = @ + 1, !.ctl.pending = NoRequest,
                   !.store[t.job[j].b].base = Base(j)]

\* publish_base after the send: the base is accepted if its ticket is current,
\* and composed again if the composition changed during the send.
Accept(t, j) ==
    LET changed == t.ctl.gen # t.job[j].rev
        u == [t EXCEPT !.ctl = [t.ctl EXCEPT !.accepted = JobFrame(t.job[j], j),
                                             !.provisional = FALSE, !.gen = @ + 1,
                                             !.pending = NoRequest],
                       !.store[t.job[j].b].base = Base(j)]
    IN IF ~BaseIsCurrent(t, j) THEN t
       ELSE IF changed THEN Render(u, t.job[j].b, FALSE) ELSE u

\* A clear that waits although it was asked for at generation gen.
Awaits(gen) ==
    \/ clear.ph = "queue" /\ clear.gen = gen
    \/ clear.pending # None /\ clear.pending = gen

\* An overlay over an earlier base ended while a clear was sent under it: there
\* is nothing left to compose again, the claim of the empty route cancels the
\* render that would have shown the base alone, and no newer clear waits; the
\* overlay stays on the control.
Stranded(t, j) ==
    /\ BaseIsCurrent(t, j) /\ t.ctl.gen # t.job[j].rev
    /\ t.job[j].ov # None /\ j \in ClearJobs /\ t.store[t.job[j].b].ov = None
    /\ \A gen \in t.job[j].rev..t.ctl.gen : ~Awaits(gen)

\* A clear of the very generation that is published still waits: it will be
\* performed (see ClearsAreOlder).
Undercut(j) == Awaits(job[j].rev)

JobSent(j) ==
    LET sent == [State EXCEPT !.ctl.published = job[j].rev]
    IN /\ job[j].ph = "send" /\ ~job[j].done
       /\ \/ /\ Becomes(End(Finish(Accept(sent, j), j, "dispatched"), j))
             /\ Shows(JobFrame(job[j], j),
                      MendedIf(BaseIsCurrent(State, j) /\ ctl.gen = job[j].rev)
                          \union {m \in {"undercut"} : Undercut(j)}
                          \union {m \in {"stranded"} : Stranded(State, j)})
          \/ /\ left.failing
             /\ Becomes(End(Finish(State, j, IF BaseIsCurrent(State, j) THEN "failed"
                                             ELSE "superseded"), j))
             /\ Shows(shown, FailedIf(BaseIsCurrent(State, j)))

\* The task of a job that was finished from outside unwinds; a send that was
\* under way may have arrived.
JobUnwinds(j) ==
    /\ Working(j) /\ job[j].done
    /\ \/ Becomes(End(State, j)) /\ Untouched
       \/ /\ job[j].ph = "send"
          /\ \E gen \in {ctl.published, job[j].rev} :
                Becomes(End([State EXCEPT !.ctl.published = gen], j))
          /\ Shows(JobFrame(job[j], j), lost)

\* _expire: the deadline.
Expire(j) ==
    /\ Working(j) /\ ~job[j].done /\ left.failing
    /\ Becomes(Finish(State, j, "failed"))
    /\ Shows(shown, FailedIf(BaseIsCurrent(State, j)))

\* observe_render_command and render_command_rejected: a command of a job that
\* is known is rejected once.
Rejectable(j) == job[j].command = "sent" /\ j \notin DirectJobs

\* The hardware rejects the command of a job, before or after its result.
HardwareRejects(j) ==
    /\ left.faults /\ Rejectable(j)
    /\ Becomes([State EXCEPT
            !.job[j].command = "rejected",
            !.results[j] = IF job[j].done THEN Append(@, "hardware") ELSE @])
    /\ Untouched

----------------------------------------------------------------------------
(* Loading feedback: _show_loading of jobs and runs, publish_feedback,       *)
(* _restore_loading                                                         *)

IsJob(x) == x \in Jobs

\* is_pending and authorize.
Awaited(x) ==
    IF IsJob(x) THEN /\ Allowed(x) /\ ~job[x].ready /\ BaseIsCurrent(State, x)
                     /\ store[job[x].b].ov = None
    ELSE TRUE

FeedFires(x) ==
    /\ feed[x].ph = "timer" /\ Untouched
    /\ IF Awaited(x)
       THEN Becomes(Join([State EXCEPT
                             !.feed[x] = [feed[x] EXCEPT !.ph = "queue",
                                                         !.gen = IF IsJob(x) THEN ctl.gen ELSE @]],
                         <<"feed", x>>))
       ELSE Becomes([State EXCEPT !.feed[x] = IdleFeed])

FeedEnters(x) ==
    /\ feed[x].ph = "queue" /\ Inside(<<"feed", x>>) /\ Untouched
    /\ IF ctl.gen = feed[x].gen /\ Awaited(x) /\ ctl.accepted = Blank /\ Authorized(State)
       THEN Becomes([State EXCEPT !.feed[x].ph = "write", !.ctl.provisional = TRUE])
       ELSE Becomes(Leave([State EXCEPT !.feed[x] = IdleFeed], <<"feed", x>>))

FeedWritten(x) ==
    LET gone == Leave([State EXCEPT !.feed[x] = IdleFeed], <<"feed", x>>)
    IN /\ feed[x].ph = "write"
       /\ \/ Becomes([gone EXCEPT !.ctl.published = feed[x].gen]) /\ Shows(Loading(feed[x].own), lost)
          \/ left.failing /\ Becomes(gone) /\ \E f \in {shown, Loading(feed[x].own)} : Shows(f, lost)

\* _restore_loading, begun by a job that ended without being dispatched.
UndoBegins(j) ==
    /\ undo[j].ph = "start" /\ Untouched
    /\ IF BaseIsCurrent(State, j)
       THEN Becomes(Join([State EXCEPT !.undo[j] = [ph |-> "queue", gen |-> ctl.gen]],
                         <<"undo", j>>))
       ELSE Becomes([State EXCEPT !.undo[j] = IdleUndo])

UndoEnters(j) ==
    /\ undo[j].ph = "queue" /\ Inside(<<"undo", j>>) /\ Untouched
    /\ IF Restorable(undo[j].gen) /\ BaseIsCurrent(State, j) /\ store[job[j].b].ov = None
       THEN Becomes([State EXCEPT !.undo[j].ph = "write"])
       ELSE Becomes(Leave([State EXCEPT !.undo[j] = IdleUndo], <<"undo", j>>))

UndoWritten(j) ==
    LET gone(t) == Leave([t EXCEPT !.undo[j] = IdleUndo], <<"undo", j>>)
    IN /\ undo[j].ph = "write"
       /\ \/ Becomes(gone(Restored(State, undo[j].gen))) /\ Shows(ctl.accepted, lost)
          \/ Becomes(gone(State)) /\ FailedWrite(ctl.accepted)

----------------------------------------------------------------------------
(* The session: installation, revocation, overlays *)

\* _revoke_binding as far as the output is concerned.
Revoke(t, clearOutput) ==
    LET b == t.bind.cur
        retired == FinishAll(t, {j \in Jobs : t.job[j].ph # "new" /\ t.job[j].b = b},
                                "superseded")
    IN IF b = None THEN t
       ELSE ClearControl([retired EXCEPT !.bind.cur = None, !.bind.act = None,
                                         !.store[b] = [base |-> None, ov |-> None]],
                         None, clearOutput, 1)

\* _render_status_to_control.
Card(t) == Submit(t, None, Status, 1)

\* _install_planned_binding: a new binding is prepared behind a card.
Install(t) ==
    Card([t EXCEPT !.bind.last = @ + 1, !.bind.cur = t.bind.last + 1, !.bind.agreed = TRUE,
                   !.left.bindings = @ - 1])

\* One of the bounded transitions of the session.
Turned(t) ==
    left.turns > 0 /\ Becomes([t EXCEPT !.left.turns = @ - 1])

\* _apply_page_commit: what the page had is cleared; the new page binds the
\* control, shows a card on it, or leaves it alone.
PageTurns ==
    LET empty == ClearControl(Revoke(State, TRUE), None, TRUE, 1)
        cleared == [empty EXCEPT !.bind.wiped = bind.last]
    IN /\ Untouched
       /\ \/ Turned(cleared)
          \/ Turned(Card(cleared))
          \/ left.bindings > 0 /\ Turned(Install(cleared))

\* A binding is replaced in place, or gives way to a card: its pixels stay until
\* there are others.
Replaced ==
    /\ bind.cur # None /\ Untouched
    /\ \/ Turned(Card(Revoke(State, FALSE)))
       \/ left.bindings > 0 /\ Turned(Install(Revoke(State, FALSE)))

\* _enable_binding_authority during the preparation, and _refresh_binding_output
\* at its end.
Attach ==
    /\ bind.cur # bind.act /\ Untouched
    /\ Becomes(Claim([State EXCEPT !.bind.act = bind.cur], bind.cur, 1))

Refresh ==
    /\ bind.act # None /\ Untouched
    /\ Turned(Render(State, bind.act, FALSE))

\* A binding that is kept is activated again: its route is claimed anew, which
\* supersedes what its provider has under way, and it is refreshed.
Reactivate ==
    /\ bind.act # None
    /\ Turned(Render(Claim(State, bind.act, 1), bind.act, FALSE))
    /\ Shows(shown, lost \union {m \in {"superseded"} : Running(State) # {}})

\* PresentationController.show_overlay.
OverlayShown(t, b, ov) == Render([t EXCEPT !.store[b].ov = ov], b, FALSE)

\* _handle_binding_overlay: a command of the binding that owns the output.
ShowOverlay ==
    /\ bind.act # None /\ left.overlays > 0 /\ Untouched
    /\ Becomes(OverlayShown([State EXCEPT !.left.overlays = @ - 1], bind.act, left.overlays))

\* SetTitle and SetRasterImage of a builtin action: a new base, and the overlay is
\* over.  Nothing else declares the base of such a binding.
SetContent ==
    LET b == bind.act
        content == [State EXCEPT !.left.contents = @ - 1,
                                 !.store[b] = [base |-> left.contents, ov |-> None]]
    IN /\ b # None /\ left.contents > 0 /\ Untouched
       /\ \A j \in Jobs : job[j].ph = "new"
       /\ Becomes(Submit(content, b, Composed(content, b), 1))

\* PresentationController.clear_overlay.
OverlayEnded(t, b) == Render([t EXCEPT !.store[b].ov = None], b, TRUE)

\* _handle_binding_overlay_clear, or the expiry of this overlay.
EndOverlay ==
    /\ bind.cur # None /\ store[bind.cur].ov # None /\ Untouched
    /\ Becomes(OverlayEnded(State, bind.cur))

\* The agreement with the provider lapses; the session replaces the binding.
Lapse ==
    /\ left.faults /\ bind.act # None /\ bind.agreed /\ Untouched
    /\ Becomes([State EXCEPT !.bind.agreed = FALSE])

Session ==
    PageTurns \/ Replaced \/ Attach \/ Refresh \/ Reactivate
    \/ ShowOverlay \/ SetContent \/ EndOverlay \/ Lapse

RunStep(k) == RunRenders(k) \/ RunApplies(k) \/ RunWritten(k) \/ RunSettles(k) \/ RunRestored(k)
ClearStep == ClearPops \/ ClearEnters \/ ClearWritten
JobStep(j) == JobComputes(j) \/ JobComposed(j) \/ JobHandsOff(j) \/ JobSent(j) \/ JobUnwinds(j)
FeedStep(x) == FeedFires(x) \/ FeedEnters(x) \/ FeedWritten(x)
UndoStep(j) == UndoBegins(j) \/ UndoEnters(j) \/ UndoWritten(j)

Next ==
    \/ Session \/ ClearStep
    \/ \E k \in Runs : RunStep(k)
    \/ \E j \in Jobs : HandleRender(j) \/ DirectOutput(j) \/ JobStep(j) \/ UndoStep(j)
    \/ \E j \in Jobs : Expire(j) \/ HardwareRejects(j)
    \/ \E x \in Feeds : FeedStep(x)

Spec == Init /\ [][Next]_vars

----------------------------------------------------------------------------
Quiet ==
    /\ io = <<>> /\ clear.ph = "idle"
    /\ \A k \in Runs : run[k].ph = "idle"
    /\ \A j \in Jobs : ~Working(j) /\ undo[j].ph = "off"
    /\ \A x \in Feeds : feed[x].ph = "off"

TypeOK ==
    /\ ctl.gen \in Nat /\ ctl.published \in 0..ctl.gen /\ ctl.own \in 0..MaxBindings
    /\ \A k \in Runs : run[k].ph \in {"idle", "render", "apply", "write", "settle", "restore"}
    /\ clear.ph \in {"idle", "start", "queue", "write"}
    /\ \A j \in Jobs :
          /\ job[j].ph \in {"new", "content", "compose", "queue", "send", "end"}
          /\ undo[j].ph \in {"off", "start", "queue", "write"}
    /\ \A x \in Feeds : feed[x].ph \in {"off", "timer", "queue", "write"}
    /\ bind.act \in {None, bind.cur} /\ lost \subseteq Mishaps

\* A request that waits has a render task that will take it, and a clear that
\* waits has the task that performs it.
NobodyForgotten ==
    /\ ctl.pending # NoRequest => \A k \in Runs : run[k].ph # "idle"
    /\ clear.pending # None => clear.ph # "idle"

\* When nothing is under way any more, and no render, write or job of the latest
\* composition failed, the control shows what its binding declared last: its accepted
\* base under its overlay.  A binding that declared nothing may inherit the pixels of
\* one it replaced in place, never those of an earlier page, and no loading indicator
\* is left.  Three things are left behind without a failure, and nothing else: the
\* blank of a clear that came after the base of its own generation (ClearsAreOlder
\* says it should not), an overlay that ended during the send of a clear that bears it
\* (OverlaysEnd), and the frame of a job that was superseded while it was sent.
\* Until then everything that waits has a task that takes it.
Declared == bind.act # None /\ ~Empty(State, bind.act)
LeftBehind ==
    \/ "undercut" \in lost /\ Declared /\ shown = Blank
    \/ /\ "stranded" \in lost /\ ~Declared /\ shown.own = bind.act
       /\ shown.base = None /\ shown.ov > 0
    \/ "superseded" \in lost /\ ~Declared /\ shown.own = bind.act /\ shown.base # None
Settled ==
    /\ TypeOK /\ NobodyForgotten
    /\ (Quiet /\ "failed" \notin lost) =>
          \/ LeftBehind
          \/ IF Declared THEN shown = Composed(State, bind.act)
             ELSE \/ shown \in {Blank, Status}
                  \/ shown.own > bind.wiped /\ shown.own # bind.act

\* An overlay that has ended does not stay on the control of its binding when nothing
\* failed: a change during a send is composed again (publish_base).
OverlaysEnd ==
    (Quiet /\ "failed" \notin lost /\ bind.act # None /\ shown.own = bind.act) =>
        shown.ov \in {None, store[bind.act].ov}

\* A clear erases only what was published before it was asked for.
ClearsAreOlder == clear.ph = "write" => ctl.published < clear.gen

\* Each message gets at most one result of the controller, and what the hardware
\* says of it comes after.
OneResult ==
    \A j \in Jobs : results[j] \in {<<>>} \union {<<r>> : r \in {"rejected", "dispatched", "superseded", "failed"}}
                     \union {<<r, "hardware">> : r \in {"dispatched", "superseded", "failed"}}

\* Output is published in the order it was requested.
PublishedInOrder == [][ctl'.published >= ctl.published]_vars

\* Pixels of an earlier page reach the control only ahead of the clear that page
\* ended with: never after it.
NoOldPixels ==
    [][(shown' # shown /\ shown'.own # None) =>
          \/ shown'.own > bind'.wiped
          \/ clear.ph # "idle"]_vars
==============================================================================
