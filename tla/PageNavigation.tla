---------------------------- MODULE PageNavigation ----------------------------
(****************************************************************************)
(* What one device session shows: a configured route and at most one        *)
(* temporary page over it (_pages/_service.py, _pages/_navigation.py).      *)
(*                                                                          *)
(* Local requests, timeouts, configuration, descriptor and availability     *)
(* changes each plan and commit in one section of the session boundary.  A  *)
(* page command of a remote provider plans in one section, is authorized    *)
(* again outside of it, and commits in another (_page_commands.py); the     *)
(* revision of the navigation tells whether anything was committed between. *)
(* A revision is only ever compared for equality with an earlier one, so a  *)
(* command carries whether it has moved.                                    *)
(*                                                                          *)
(* An action is known here by the agreement with its provider: 0 when it is *)
(* unavailable.  Which bindings survive a transition, and how they attach,  *)
(* is BindingLifecycle.                                                     *)
(****************************************************************************)
EXTENDS Integers, FiniteSets

CONSTANTS
    Routes,         \* the pages of the configuration
    Home,           \* the first of them
    Definitions,    \* the temporary pages actions open
    Actions,
    Builtin,        \* the action that runs in the controller
    UsesOf,         \* UsesOf[e]: the actions entry e binds
    Devices,        \* sets of entries that a device may be able to satisfy
    Sessions,       \* identities of page sessions
    Commands,       \* page commands in flight
    MaxAgreements,  \* bound on the agreements with one provider
    Generations     \* generations are counted modulo this

None == 0
Entries == Routes \union Definitions

ASSUME NavigationAssumption ==
    /\ Home \in Routes /\ Builtin \in Actions
    /\ Routes \intersect Definitions = {} /\ Cardinality(Sessions) > Cardinality(Commands) + 1
    /\ \A e \in Entries : UsesOf[e] \subseteq Actions
    /\ Entries \in Devices /\ Devices \subseteq SUBSET Entries
    /\ MaxAgreements \in Nat /\ Generations \in Nat \ {0, 1}

VARIABLES
    nav,        \* [route, temp: frames; active: the configuration is]
    fits,       \* the entries whose bindings the device can satisfy
    agreement,  \* agreement[a]: with a's provider, or 0
    last,       \* last[a]: the latest agreement there was
    notices,    \* the actions whose change the session has not been told of
    cmds,       \* remote page commands between their two sections
    timer,      \* the deadline the timeout loop is sleeping on
    due,        \* the last activity on the temporary page is a timeout ago
    told        \* told[x]: what the owner of session x was told last

vars == <<nav, fits, agreement, last, notices, cmds, timer, due, told>>

world == <<agreement, last>>

----------------------------------------------------------------------------
(* Frames, drafts and plans *)

NoFrame == [entry |-> None]
NoSession == [id |-> None, owner |-> None, contract |-> None, gen |-> 0]
Idle == [kind |-> None]
NoTimer == [id |-> None, fresh |-> FALSE]
Untold == [state |-> "none", gen |-> 0]

HasTemp(n) == n.temp # NoFrame

\* current_frame: the temporary page, else the configured route.
Current(n) == IF HasTemp(n) THEN n.temp ELSE n.route

\* A draft: what is to be shown, and the page sessions that end with it.
Draft(kind, entry, sess, closes) ==
    [kind |-> kind, entry |-> entry, sess |-> sess, closes |-> closes]

Dynamic == IF HasTemp(nav) THEN {nav.temp.sess.id} ELSE {}

SetDraft(r) == Draft("set", r, NoSession, Dynamic)

OpenDraft(d, id, a) ==
    Draft("open", d, [id |-> id, owner |-> a, contract |-> agreement[a], gen |-> 0],
          Dynamic)

UpdateDraft(d) ==
    Draft("replace", d, [nav.temp.sess EXCEPT !.gen = (@ + 1) % Generations], {})

CloseDraft == Draft("close", nav.route.entry, NoSession, Dynamic)

RefreshDraft == Draft("refresh", Current(nav).entry, Current(nav).sess, {})

\* The planning snapshot: which of the actions of e are available.
Snapshot(e) == {a \in UsesOf[e] : agreement[a] # None}

\* The bindings a plan installs: an action that was unavailable when it was
\* planned stays unbound, one that is unavailable now cannot be resolved.
Installed(e, available) ==
    [a \in UsesOf[e] |-> IF a \in available THEN agreement[a] ELSE None]

NoBindings(e) == [a \in UsesOf[e] |-> None]

Frame(d, bound) == [entry |-> d.entry, sess |-> d.sess, bound |-> bound]

\* PageSessionService.commit.
Shown(d, bound) ==
    IF d.entry \in Routes
      THEN [nav EXCEPT !.route = Frame(d, bound), !.temp = NoFrame]
      ELSE [nav EXCEPT !.temp = Frame(d, bound)]

\* The revision moves: what was planned before is superseded.
Superseded(c) ==
    [k \in Commands |-> IF c[k] = Idle THEN Idle ELSE [c[k] EXCEPT !.fresh = FALSE]]

\* emit_page_closed, for every page session that ends.
Closed(t, ids) ==
    [x \in Sessions |-> IF x \in ids THEN [t[x] EXCEPT !.state = "closed"] ELSE t[x]]

\* emit_page_opened follows the commit of an opened or updated page.
Opened(t, d) ==
    IF d.kind \in {"open", "replace"}
      THEN [t EXCEPT ![d.sess.id] = [state |-> "open", gen |-> d.sess.gen]]
      ELSE t

\* Mutant: new content counts as activity.
TouchedByContent(d) == d.kind # "refresh"

\* A page session begins with its activity; new content does not renew it.
Touched(d) == d.kind \in {"set", "open", "close"}

\* _apply_page_transition_effects.
Effects(d) == Closed(told, d.closes)

(****************************************************************************)
(* commit_page_draft with the notifications that follow it.                 *)
(****************************************************************************)
Commit(d, bound) ==
    /\ nav' = Shown(d, bound)
    /\ told' = Opened(Effects(d), d)
    /\ due' = (due /\ ~Touched(d))

\* Mutant: the route comes back with the bindings it had.
ClosePageCached ==
    IF nav.route = NoFrame THEN UNCHANGED <<nav, told, due>>
    ELSE Commit(CloseDraft, nav.route.bound)

\* begin_close_page and build_transition_plan: a route the device cannot
\* satisfy any more is remembered without bindings.
ClosePage ==
    IF nav.route = NoFrame THEN UNCHANGED <<nav, told, due>>
    ELSE Commit(CloseDraft, IF nav.route.entry \in fits
                              THEN Installed(nav.route.entry, Snapshot(nav.route.entry))
                              ELSE NoBindings(nav.route.entry))

\* _execute_page_draft within one section of the boundary.
Execute(d) ==
    /\ d.entry \in fits
    /\ Commit(d, Installed(d.entry, Snapshot(d.entry)))

Cleared == [nav EXCEPT !.route = NoFrame, !.temp = NoFrame]

----------------------------------------------------------------------------
(* Local requests (_requests.py, DeviceNavigation) *)

Init ==
    /\ nav = [route |-> NoFrame, temp |-> NoFrame, active |-> TRUE]
    /\ fits = Entries
    /\ agreement = [a \in Actions |-> IF a = Builtin THEN 1 ELSE None]
    /\ last = agreement
    /\ notices = {}
    /\ cmds = [k \in Commands |-> Idle]
    /\ timer = NoTimer /\ due = FALSE
    /\ told = [x \in Sessions |-> Untold]

SetPage(r) ==
    /\ nav.active
    /\ Execute(SetDraft(r))
    /\ cmds' = Superseded(cmds)
    /\ UNCHANGED <<fits, world, notices, timer>>

\* make_page_session_id: an identity nothing refers to.
FreshSession(x) ==
    /\ x \notin Dynamic /\ timer.id # x
    /\ \A k \in Commands : cmds[k] # Idle => cmds[k].draft.sess.id # x

\* The binding of action a may speak for it.
BoundNow(a) ==
    /\ nav.active /\ Current(nav) # NoFrame
    /\ a \in UsesOf[Current(nav).entry]
    /\ Current(nav).bound[a] # None /\ Current(nav).bound[a] = agreement[a]

\* The owner of the temporary page may speak for it.
OwnedNow(a) ==
    /\ nav.active /\ HasTemp(nav)
    /\ nav.temp.sess.owner = a /\ nav.temp.sess.contract = agreement[a]

LocalOpen(d, x) ==
    /\ BoundNow(Builtin) /\ FreshSession(x)
    /\ Execute(OpenDraft(d, x, Builtin))
    /\ cmds' = Superseded(cmds)
    /\ UNCHANGED <<fits, world, notices, timer>>

LocalUpdate(d) ==
    /\ OwnedNow(Builtin)
    /\ Execute(UpdateDraft(d))
    /\ cmds' = Superseded(cmds)
    /\ UNCHANGED <<fits, world, notices, timer>>

\* ClosePage of a local action, or a rejection of the page by its provider.
CloseRequested ==
    /\ HasTemp(nav)
    /\ ClosePage
    /\ cmds' = Superseded(cmds)
    /\ UNCHANGED <<fits, world, notices, timer>>

----------------------------------------------------------------------------
(* Remote page commands (_page_commands.py) *)

\* What is shown; a planned command remembers it (base: for the property only).
Shows(n) == [route |-> n.route.entry, page |-> n.temp.entry,
             session |-> IF HasTemp(n) THEN <<n.temp.sess.id, n.temp.sess.gen>> ELSE <<>>]

Planned(k, a, d) ==
    /\ cmds[k] = Idle /\ a # Builtin
    /\ d.entry \in fits \/ d.kind = "close"
    /\ cmds' = [cmds EXCEPT ![k] =
                  [kind |-> d.kind, draft |-> d, owner |-> a, contract |-> agreement[a],
                   available |-> IF d.entry \in fits THEN Snapshot(d.entry) ELSE {},
                   base |-> Shows(nav), fresh |-> TRUE]]
    /\ UNCHANGED <<nav, fits, world, notices, timer, due, told>>

PlanOpen(k, a, d, x) == BoundNow(a) /\ FreshSession(x) /\ Planned(k, a, OpenDraft(d, x, a))
PlanUpdate(k, a, d) == OwnedNow(a) /\ Planned(k, a, UpdateDraft(d))
PlanClose(k, a) == OwnedNow(a) /\ Planned(k, a, CloseDraft)

\* Mutant: the revision is not compared.
StillValidAnyRevision(c) ==
    /\ agreement[c.owner] = c.contract
    /\ IF c.kind = "open" THEN BoundNow(c.owner) ELSE OwnedNow(c.owner)

\* The transition is the one that was planned, and its owner may ask for it.
StillValid(c) ==
    /\ c.fresh
    /\ agreement[c.owner] = c.contract
    /\ IF c.kind = "open" THEN BoundNow(c.owner) ELSE OwnedNow(c.owner)

CommitCommand(k) ==
    LET c == cmds[k] IN
    /\ c # Idle /\ StillValid(c)
    /\ Commit(c.draft, Installed(c.draft.entry, c.available))
    /\ cmds' = Superseded([cmds EXCEPT ![k] = Idle])
    /\ UNCHANGED <<fits, world, notices, timer>>

\* It was superseded, its second authorization failed, or validation does.
DropCommand(k) ==
    /\ cmds[k] # Idle
    /\ cmds' = [cmds EXCEPT ![k] = Idle]
    /\ UNCHANGED <<nav, fits, world, notices, timer, due, told>>

----------------------------------------------------------------------------
(* The timeout loop *)

\* record_activity: an input restarts the timeout and moves the deadline.
Activity ==
    /\ HasTemp(nav)
    /\ due' = FALSE
    /\ timer' = [timer EXCEPT !.fresh = FALSE]
    /\ UNCHANGED <<nav, fits, world, notices, cmds, told>>

TimePasses ==
    /\ HasTemp(nav) /\ ~due /\ due' = TRUE
    /\ UNCHANGED <<nav, fits, world, notices, cmds, timer, told>>

Deadline(n) ==
    IF n.temp = NoFrame THEN NoTimer ELSE [id |-> n.temp.sess.id, fresh |-> TRUE]

\* The loop wakes: page_expired for the deadline it slept on, then the next one.
TimerTick ==
    /\ IF timer # NoTimer /\ timer = Deadline(nav) /\ due
         THEN ClosePage /\ cmds' = Superseded(cmds)
         ELSE UNCHANGED <<nav, due, told, cmds>>
    /\ timer' = Deadline(nav')
    /\ UNCHANGED <<fits, world, notices>>

----------------------------------------------------------------------------
(* Configuration, device and providers *)

\* on_config_changed with a configuration; f is what fits under it.
ConfigChanged(f) ==
    /\ fits' = f
    /\ IF Home \in f
         THEN nav' = [nav EXCEPT !.active = TRUE, !.temp = NoFrame, !.route =
                        Frame(Draft("set", Home, NoSession, {}),
                              Installed(Home, Snapshot(Home)))]
         ELSE nav' = [Cleared EXCEPT !.active = TRUE]
    /\ told' = Closed(told, Dynamic)
    /\ due' = FALSE
    /\ cmds' = Superseded(cmds)
    /\ UNCHANGED <<world, notices, timer>>

ConfigRemoved ==
    /\ nav.active
    /\ nav' = [Cleared EXCEPT !.active = FALSE]
    /\ told' = Closed(told, Dynamic)
    /\ due' = FALSE
    /\ cmds' = Superseded(cmds)
    /\ UNCHANGED <<fits, world, notices, timer>>

\* Mutant: the temporary page that no longer fits goes without a word.
FinalizeSilently ==
    /\ nav' = [nav EXCEPT !.temp = NoFrame, !.route.bound = NoBindings(nav.route.entry)]
    /\ due' = FALSE
    /\ UNCHANGED told

\* _finalize_dynamic_page and the revocation of every binding.
Finalize ==
    /\ nav' = [nav EXCEPT !.temp = NoFrame, !.route.bound = NoBindings(nav.route.entry)]
    /\ told' = Closed(told, Dynamic)
    /\ due' = FALSE

\* on_device_descriptor_changed.
DescriptorChanged(f) ==
    /\ fits' = f
    /\ LET e == Current(nav).entry IN
       IF Current(nav) = NoFrame THEN UNCHANGED <<nav, told, due, cmds>>
       ELSE /\ IF e \in f THEN Commit(RefreshDraft, Installed(e, Snapshot(e)))
                          ELSE Finalize
            /\ cmds' = Superseded(cmds)
    /\ UNCHANGED <<world, notices, timer>>

\* Mutant: the owner of the temporary page is not looked at.
OwnerNeverLost == FALSE

OwnerLost == HasTemp(nav) /\ nav.temp.sess.contract # agreement[nav.temp.sess.owner]

\* _action_availability_change_affects_plan.
Affects(a, e) == a \in UsesOf[e]

(****************************************************************************)
(* on_action_availability_changed: a temporary page without its owner is    *)
(* closed; else the page is planned again when the change affects it.       *)
(****************************************************************************)
AvailabilityChanged(a) ==
    /\ a \in notices /\ notices' = notices \ {a}
    /\ LET e == Current(nav).entry IN
       IF OwnerLost THEN ClosePage /\ cmds' = Superseded(cmds)
       ELSE IF Current(nav) # NoFrame /\ e \in fits /\ Affects(a, e)
         THEN Commit(RefreshDraft, Installed(e, Snapshot(e))) /\ cmds' = Superseded(cmds)
       ELSE UNCHANGED <<nav, told, due, cmds>>
    /\ UNCHANGED <<fits, world, timer>>

AgreementEnds(a) ==
    /\ a # Builtin /\ agreement[a] # None
    /\ agreement' = [agreement EXCEPT ![a] = None]
    /\ notices' = notices \union {a}
    /\ UNCHANGED <<nav, fits, last, cmds, timer, due, told>>

AgreementBegins(a) ==
    /\ last[a] < MaxAgreements /\ a # Builtin
    /\ agreement' = [agreement EXCEPT ![a] = last[a] + 1]
    /\ last' = [last EXCEPT ![a] = @ + 1]
    /\ notices' = notices \union {a}
    /\ UNCHANGED <<nav, fits, cmds, timer, due, told>>

Opens ==
    \/ \E d \in Definitions, x \in Sessions : LocalOpen(d, x)
    \/ \E k \in Commands : cmds[k].kind = "open" /\ CommitCommand(k)

Next ==
    \/ \E r \in Routes : SetPage(r)
    \/ \E d \in Definitions : LocalUpdate(d) \/ \E x \in Sessions : LocalOpen(d, x)
    \/ CloseRequested \/ Activity \/ TimePasses \/ TimerTick \/ ConfigRemoved
    \/ \E k \in Commands, a \in Actions :
         \/ PlanClose(k, a)
         \/ \E d \in Definitions :
              PlanUpdate(k, a, d) \/ \E x \in Sessions : PlanOpen(k, a, d, x)
    \/ \E k \in Commands : CommitCommand(k) \/ DropCommand(k)
    \/ \E f \in Devices : ConfigChanged(f) \/ DescriptorChanged(f)
    \/ \E a \in Actions : AvailabilityChanged(a) \/ AgreementEnds(a) \/ AgreementBegins(a)

Spec == Init /\ [][Next]_vars

\* The loop sleeps a fixed interval, and time does not stop.
LiveSpec == Spec /\ WF_vars(TimePasses) /\ WF_vars(TimerTick)

----------------------------------------------------------------------------
(* Properties *)

Frames(entries) == [entry : entries, sess : {NoSession} \union
                      [id : Sessions, owner : Actions, contract : 1..MaxAgreements + 1,
                       gen : 0..Generations - 1],
                    bound : UNION {[A -> 0..MaxAgreements + 1] : A \in SUBSET Actions}]

\* A frame binds the actions its entry uses, and a temporary page alone has a
\* session.
TypeOK ==
    /\ nav.active \in BOOLEAN /\ due \in BOOLEAN /\ fits \subseteq Entries
    /\ nav.route # NoFrame =>
         /\ nav.route \in Frames(Routes)
         /\ nav.route.sess = NoSession /\ DOMAIN nav.route.bound = UsesOf[nav.route.entry]
    /\ nav.temp # NoFrame =>
         /\ nav.temp \in Frames(Definitions)
         /\ nav.temp.sess # NoSession /\ DOMAIN nav.temp.bound = UsesOf[nav.temp.entry]
    /\ agreement \in [Actions -> 0..MaxAgreements + 1] /\ notices \subseteq Actions

\* A temporary page lies over a configured route of an active configuration,
\* so that closing it always finds something to show: no sequence of failed
\* plans, removals and late commands leaves it alone (begin_close_page).
TemporaryHasRoute == HasTemp(nav) => nav.route # NoFrame /\ nav.active

\* An owner believes that its page session is open exactly while it is the one
\* that is shown, and knows its generation: every way a page can end tells it,
\* once, and a superseded command tells nobody (emit_page_opened,
\* emit_page_closed on six paths).
ToldWhatIsShown ==
    \A x \in Sessions :
        /\ told[x].state = "open" <=> HasTemp(nav) /\ nav.temp.sess.id = x
        /\ told[x].state = "open" => told[x].gen = nav.temp.sess.gen

\* Once the session has been told of the changes, a temporary page belongs to
\* the current agreement of its owner (on_action_availability_changed closes
\* it; a command in flight must not bring it back), and has a route under it.
OwnerHolds ==
    /\ TypeOK /\ TemporaryHasRoute
    /\ HasTemp(nav) /\ nav.temp.sess.owner \notin notices =>
          nav.temp.sess.contract = agreement[nav.temp.sess.owner]

\* Once the session has been told of the changes, the page that is shown binds
\* what is available: no availability change is lost between pages, although
\* the ones that do not affect the current page are ignored.
PageIsCurrent ==
    LET f == Current(nav) IN
    f # NoFrame /\ f.entry \in fits /\ UsesOf[f.entry] \intersect notices = {} =>
        \A a \in UsesOf[f.entry] : f.bound[a] = agreement[a]

\* Closing a temporary page replans the configured route against the current
\* device, configuration and provider facts (architecture.md, Navigation).
ClosingReplans ==
    [][HasTemp(nav) /\ ~HasTemp(nav') /\ nav'.route # NoFrame =>
         LET e == nav'.route.entry IN
         e \in fits' => nav'.route.bound = Installed(e, Snapshot(e))]_vars

\* A page command commits only over the pages it was planned over: nothing
\* that was committed between its two sections is undone by it.
CommandsSeeTheirBase ==
    [][\A k \in Commands : CommitCommand(k) => Shows(nav) = cmds[k].base]_vars

\* A temporary page that gets no input is closed, however often its content is
\* refreshed (_page_timeout_loop, record_activity), unless pages are opened for
\* ever.
IdlePageCloses ==
    \/ []<>~HasTemp(nav)
    \/ []<><<Activity>>_vars
    \/ []<><<Opens>>_vars
=============================================================================
