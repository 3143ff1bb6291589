------------------------- MODULE PageNavigationProofs -------------------------
(****************************************************************************)
(* What holds of the navigation of a session for every configuration, every *)
(* device and every number of page commands in flight.                      *)
(****************************************************************************)
EXTENDS PageNavigation, TLAPS

Contracts == 0..MaxAgreements + 1
PageSessions == [id : Sessions, owner : Actions, contract : 1..MaxAgreements + 1,
                 gen : 0..Generations - 1]

Bindings(e) == [UsesOf[e] -> Contracts]

IsRoute(f) ==
    /\ f.entry \in Routes /\ f.bound \in Bindings(f.entry)
    /\ f = [entry |-> f.entry, sess |-> NoSession, bound |-> f.bound]

IsPage(f) ==
    /\ f.entry \in Definitions /\ f.sess \in PageSessions /\ f.bound \in Bindings(f.entry)
    /\ f = [entry |-> f.entry, sess |-> f.sess, bound |-> f.bound]

Shapes ==
    /\ nav = [route |-> nav.route, temp |-> nav.temp, active |-> nav.active]
    /\ nav.active \in BOOLEAN
    /\ nav.route # NoFrame => IsRoute(nav.route)
    /\ nav.temp # NoFrame => IsPage(nav.temp)
    /\ due \in BOOLEAN /\ fits \subseteq Entries /\ notices \subseteq Actions
    /\ agreement \in [Actions -> Contracts] /\ last \in [Actions -> Contracts]
    /\ told \in [Sessions -> [state : {"none", "open", "closed"}, gen : 0..Generations - 1]]

\* Once the session is told, a temporary page is under the agreement of its owner.
Owned ==
    HasTemp(nav) /\ nav.temp.sess.owner \notin notices =>
        nav.temp.sess.contract = agreement[nav.temp.sess.owner]

PagesInv == Shapes /\ TemporaryHasRoute /\ ToldWhatIsShown /\ Owned

\* A draft of what is shown now: of a configured route, of a page that opens, or of
\* one that goes on with the same session.
Drafted(d) ==
    \/ /\ d.entry \in Routes /\ d.sess = NoSession
       /\ d.kind \notin {"open", "replace"} /\ d.closes = Dynamic
    \/ /\ d.kind = "open" /\ d.entry \in Definitions
       /\ d.sess \in PageSessions /\ d.closes = Dynamic
    \/ /\ d.kind \in {"replace", "refresh"} /\ d.entry \in Definitions
       /\ HasTemp(nav) /\ d.closes = {}
       /\ d.sess \in PageSessions
       /\ d.sess.id = nav.temp.sess.id
       /\ d.sess.owner = nav.temp.sess.owner /\ d.sess.contract = nav.temp.sess.contract
       /\ d.kind = "refresh" => d.sess.gen = nav.temp.sess.gen

\* As long as nothing was committed since, a command has a draft of what is shown.
CommandInv(c) ==
    /\ c = [kind |-> c.kind, draft |-> c.draft, owner |-> c.owner, contract |-> c.contract,
            available |-> c.available, base |-> c.base, fresh |-> c.fresh]
    /\ c.draft.kind = c.kind /\ c.kind \in {"open", "replace", "close"}
    /\ c.kind = "open" => c.draft.sess.owner = c.owner /\ c.draft.sess.contract = c.contract
    /\ c.fresh => Drafted(c.draft) /\ c.base = Shows(nav)

CommandsInv ==
    /\ DOMAIN cmds = Commands
    /\ \A k \in Commands : cmds[k] # Idle => CommandInv(cmds[k])

NavigationInv == PagesInv /\ CommandsInv

----------------------------------------------------------------------------
(* What a commit keeps *)

LEMMA InstalledBinds ==
    ASSUME Shapes, NavigationAssumption, NEW e \in Entries, NEW available
    PROVE  Installed(e, available) \in Bindings(e) /\ NoBindings(e) \in Bindings(e)
  <1>1. UsesOf[e] \subseteq Actions /\ MaxAgreements \in Nat
    BY DEF NavigationAssumption
  <1> QED BY <1>1 DEF Installed, NoBindings, Bindings, Contracts, Shapes, None

\* A draft is committed while the agreements stay; and the notices do too, unless the
\* owner of the page was looked at.
LEMMA CommitKeeps ==
    ASSUME NavigationAssumption, PagesInv, NEW d, NEW bound, Drafted(d), Commit(d, bound),
           bound \in Bindings(d.entry),
           d.kind = "open" => /\ nav.active /\ nav.route # NoFrame
                              /\ d.sess.contract = agreement[d.sess.owner],
           fits' \subseteq Entries, UNCHANGED world,
           notices' \subseteq notices,
           d.entry \in Routes \/ notices' = notices \/ ~OwnerLost
    PROVE  PagesInv'
  <1> DEFINE f == Frame(d, bound)
             shown(route, temp) == [route |-> route, temp |-> temp, active |-> nav.active]
  <1> USE DEF HasTemp
  <1>0. /\ agreement' = agreement /\ last' = last
        /\ due' \in BOOLEAN /\ notices' \subseteq Actions
    BY DEF Commit, world, PagesInv, Shapes
  <1>1. CASE d.entry \in Routes
    <2>1. nav' = shown(f, NoFrame)
      BY <1>1 DEF Commit, Shown, PagesInv, Shapes
    <2>2. told' = Closed(told, Dynamic)
      BY <1>1 DEF Commit, Drafted, NavigationAssumption, Opened, Effects
    <2>3. IsRoute(f) /\ nav'.temp = NoFrame /\ nav'.route = f /\ nav'.active = nav.active
      BY <1>1, <2>1 DEF Drafted, Frame, IsRoute, PageSessions, NavigationAssumption
    <2>4. Shapes'
      BY <1>0, <2>1, <2>2, <2>3 DEF PagesInv, Shapes, Closed
    <2>5. ToldWhatIsShown'
      BY <2>2, <2>3 DEF PagesInv, Shapes, ToldWhatIsShown, Closed, Dynamic
    <2> QED
      BY <2>3, <2>4, <2>5 DEF PagesInv, TemporaryHasRoute, Owned
  <1>2. CASE d.entry \in Definitions
    <2>0. nav.active /\ nav.route # NoFrame /\ d.entry \notin Routes
      BY <1>2 DEF Drafted, PagesInv, TemporaryHasRoute, NavigationAssumption
    <2>1. nav' = shown(nav.route, f)
      BY <2>0 DEF Commit, Shown, PagesInv, Shapes
    <2>2. /\ IsPage(f) /\ f # NoFrame /\ f.sess = d.sess
          /\ nav'.temp = f /\ nav'.route = nav.route /\ nav'.active = nav.active
      BY <1>2, <2>0, <2>1 DEF Drafted, Frame, IsPage, NoFrame
    <2>3. d.sess.id \in Sessions /\ d.sess.gen \in 0..Generations - 1
      BY <2>0 DEF Drafted, PageSessions
    <2>4. told' = IF d.kind = "refresh" THEN Closed(told, d.closes)
                  ELSE [Closed(told, d.closes) EXCEPT ![d.sess.id] =
                           [state |-> "open", gen |-> d.sess.gen]]
      BY <2>0 DEF Commit, Drafted, Opened, Effects
    <2>5. Shapes'
      BY <1>0, <2>1, <2>2, <2>3, <2>4 DEF PagesInv, Shapes, Closed
    <2>6. ToldWhatIsShown'
      BY <2>0, <2>2, <2>3, <2>4
         DEF PagesInv, Shapes, ToldWhatIsShown, Closed, Dynamic, Drafted
    <2>7. Owned'
      BY <1>0, <2>0, <2>2 DEF PagesInv, Owned, OwnerLost, Drafted
    <2> QED
      BY <2>0, <2>2, <2>5, <2>6, <2>7 DEF PagesInv, TemporaryHasRoute
  <1> QED
    BY <1>1, <1>2 DEF Drafted

\* Closing commits the route under the page, if there is one.
LEMMA CloseKeeps ==
    ASSUME NavigationAssumption, PagesInv, ClosePage,
           fits' \subseteq Entries, UNCHANGED world, notices' \subseteq notices
    PROVE  PagesInv'
  <1>1. CASE nav.route = NoFrame
    BY <1>1 DEF ClosePage, PagesInv, Shapes, TemporaryHasRoute, ToldWhatIsShown, Owned,
                HasTemp, world
  <1>2. CASE nav.route # NoFrame
    <2>1. CloseDraft.entry \in Routes /\ Drafted(CloseDraft) /\ CloseDraft.kind = "close"
      BY <1>2 DEF CloseDraft, Draft, Drafted, PagesInv, Shapes, IsRoute
    <2>2. PICK bound \in Bindings(CloseDraft.entry) : Commit(CloseDraft, bound)
      BY <1>2, <2>1, InstalledBinds DEF ClosePage, PagesInv, CloseDraft, Draft, Entries
    <2> QED BY <2>1, <2>2, CommitKeeps
  <1> QED BY <1>1, <1>2

\* What is executed is committed with bindings of its entry.
LEMMA ExecuteKeeps ==
    ASSUME NavigationAssumption, PagesInv, NEW d, Drafted(d), Execute(d),
           d.kind = "open" => /\ nav.active /\ nav.route # NoFrame
                              /\ d.sess.contract = agreement[d.sess.owner],
           UNCHANGED <<fits, world, notices>>
    PROVE  PagesInv'
  <1>1. d.entry \in Entries
    BY DEF Drafted, Entries
  <1>2. Installed(d.entry, Snapshot(d.entry)) \in Bindings(d.entry)
    BY <1>1, InstalledBinds DEF PagesInv
  <1> QED BY <1>2, CommitKeeps DEF Execute, PagesInv, Shapes

\* Once more what is shown, with other bindings.
LEMMA RefreshDrafted ==
    ASSUME PagesInv, Current(nav) # NoFrame
    PROVE  Drafted(RefreshDraft) /\ RefreshDraft.entry = Current(nav).entry
           /\ RefreshDraft.kind = "refresh" /\ Current(nav).entry \in Entries
  BY DEF PagesInv, Shapes, Current, HasTemp, IsRoute, IsPage, RefreshDraft, Draft, Drafted,
         NoFrame, Entries, Dynamic

\* A binding that may speak, or an owner that may, stands over a configured route.
LEMMA OverARoute ==
    ASSUME PagesInv, NEW a, BoundNow(a) \/ OwnedNow(a)
    PROVE  nav.active /\ nav.route # NoFrame
  BY DEF PagesInv, TemporaryHasRoute, BoundNow, OwnedNow, Current, HasTemp

LEMMA OpenDrafted ==
    ASSUME NavigationAssumption, PagesInv, NEW a \in Actions, NEW e \in Definitions,
           NEW x \in Sessions, BoundNow(a)
    PROVE  LET d == OpenDraft(e, x, a) IN
           /\ Drafted(d) /\ d.kind = "open"
           /\ d.sess.owner = a /\ d.sess.contract = agreement[a]
  <1>1. agreement[a] \in 1..MaxAgreements + 1
    BY DEF PagesInv, Shapes, Contracts, BoundNow, None, NavigationAssumption
  <1>2. 0 \in 0..Generations - 1
    BY DEF NavigationAssumption
  <1> QED BY <1>1, <1>2 DEF OpenDraft, Draft, Drafted, PageSessions

LEMMA UpdateDrafted ==
    ASSUME NavigationAssumption, PagesInv, NEW a, NEW e \in Definitions, OwnedNow(a)
    PROVE  Drafted(UpdateDraft(e)) /\ UpdateDraft(e).kind = "replace"
  <1> DEFINE x == nav.temp.sess
  <1>1. HasTemp(nav) /\ x \in PageSessions
    BY DEF OwnedNow, PagesInv, Shapes, HasTemp, IsPage
  <1>2. (x.gen + 1) % Generations \in 0..Generations - 1
    BY <1>1 DEF PageSessions, NavigationAssumption
  <1>3. [x EXCEPT !.gen = (@ + 1) % Generations] =
            [id |-> x.id, owner |-> x.owner, contract |-> x.contract,
             gen |-> (x.gen + 1) % Generations]
    BY <1>1 DEF PageSessions
  <1> HIDE DEF x
  <1> QED BY <1>1, <1>2, <1>3 DEF UpdateDraft, Draft, Drafted, PageSessions, x

----------------------------------------------------------------------------
(* The steps *)

\* The commands after a commit: none of them is fresh.
LEMMA SupersededHold ==
    ASSUME NEW c, DOMAIN c = Commands, \A k \in Commands : c[k] # Idle => CommandInv(c[k]),
           cmds' = Superseded(c)
    PROVE  CommandsInv'
  <1>1. DOMAIN cmds' = Commands
    BY DEF Superseded
  <1>2. ASSUME NEW k \in Commands, cmds'[k] # Idle PROVE CommandInv(cmds[k])'
    <2>1. c[k] # Idle /\ cmds'[k] = [c[k] EXCEPT !.fresh = FALSE] /\ CommandInv(c[k])
      BY <1>2 DEF Superseded
    <2> DEFINE o == c[k]
    <2>2. cmds'[k] = [kind |-> o.kind, draft |-> o.draft, owner |-> o.owner,
                      contract |-> o.contract, available |-> o.available,
                      base |-> o.base, fresh |-> FALSE]
      BY <2>1 DEF CommandInv
    <2>3. /\ o.draft.kind = o.kind /\ o.kind \in {"open", "replace", "close"}
          /\ o.kind = "open" => o.draft.sess.owner = o.owner /\ o.draft.sess.contract = o.contract
      BY <2>1 DEF CommandInv
    <2> HIDE DEF o
    <2> QED BY <2>2, <2>3 DEF CommandInv
  <1> QED BY <1>1, <1>2 DEF CommandsInv

\* While nothing is committed, the commands have drafts of what is shown.
LEMMA CommandsStay ==
    ASSUME CommandsInv, UNCHANGED nav, DOMAIN cmds' = Commands,
           \A k \in Commands : cmds'[k] \in {cmds[k], Idle}
    PROVE  CommandsInv'
  <1>1. ASSUME NEW k \in Commands, cmds'[k] # Idle PROVE CommandInv(cmds[k])'
    <2>1. cmds'[k] = cmds[k] /\ CommandInv(cmds[k])
      BY <1>1 DEF CommandsInv
    <2>2. /\ Drafted(cmds[k].draft) => Drafted(cmds[k].draft)'
          /\ Shows(nav)' = Shows(nav)
      BY <2>1 DEF Drafted, Dynamic, HasTemp, Shows
    <2> QED BY <2>1, <2>2 DEF CommandInv
  <1> QED BY <1>1 DEF CommandsInv

\* A page is planned as a draft of what is shown.
LEMMA PlannedHold ==
    ASSUME CommandsInv, NEW k \in Commands, NEW a \in Actions, NEW d, Planned(k, a, d),
           Drafted(d), d.kind \in {"open", "replace", "close"},
           d.kind = "open" => d.sess.owner = a /\ d.sess.contract = agreement[a]
    PROVE  CommandsInv'
  <1>0. PICK c : c = [kind |-> d.kind, draft |-> d, owner |-> a, contract |-> agreement[a],
                      available |-> IF d.entry \in fits THEN Snapshot(d.entry) ELSE {},
                      base |-> Shows(nav), fresh |-> TRUE]
    OBVIOUS
  <1>1. /\ cmds' = [cmds EXCEPT ![k] = c]
        /\ c = [kind |-> d.kind, draft |-> d, owner |-> a, contract |-> agreement[a],
                available |-> c.available, base |-> Shows(nav), fresh |-> TRUE]
    BY <1>0 DEF Planned
  <1>2. Drafted(d)' /\ Shows(nav)' = Shows(nav)
    BY DEF Planned, Drafted, Dynamic, HasTemp, Shows
  <1>3. CommandInv(c)'
    BY <1>1, <1>2 DEF CommandInv
  <1>4. ASSUME NEW j \in Commands, cmds'[j] # Idle PROVE CommandInv(cmds[j])'
    <2>1. CASE j = k
      BY <1>1, <1>3, <2>1 DEF CommandsInv
    <2>2. CASE j # k
      <3>1. cmds'[j] = cmds[j] /\ CommandInv(cmds[j])
        BY <1>1, <1>4, <2>2 DEF CommandsInv
      <3>2. Drafted(cmds[j].draft) => Drafted(cmds[j].draft)'
        BY <3>1 DEF Planned, Drafted, Dynamic, HasTemp
      <3> QED BY <1>2, <3>1, <3>2 DEF CommandInv
    <2> QED BY <2>1, <2>2
  <1> QED BY <1>1, <1>4 DEF CommandsInv

\* A command that is still valid commits what it was planned over.
LEMMA CommitCommandKeeps ==
    ASSUME NavigationAssumption, NavigationInv, NEW k \in Commands, CommitCommand(k)
    PROVE  /\ NavigationInv'
           /\ Shows(nav) = cmds[k].base
  <1> DEFINE c == cmds[k]
             d == c.draft
  <1>1. CommandInv(c) /\ c.fresh
    BY DEF CommitCommand, NavigationInv, CommandsInv, StillValid
  <1>2. Drafted(d) /\ Shows(nav) = c.base /\ d.kind = c.kind
    BY <1>1 DEF CommandInv
  <1>3. d.kind = "open" => /\ nav.active /\ nav.route # NoFrame
                           /\ d.sess.contract = agreement[d.sess.owner]
    BY <1>1, OverARoute DEF CommandInv, CommitCommand, StillValid, NavigationInv
  <1>4. Installed(d.entry, c.available) \in Bindings(d.entry)
    BY <1>2, InstalledBinds DEF Drafted, Entries, NavigationInv, PagesInv
  <1>5. Commit(d, Installed(d.entry, c.available)) /\ UNCHANGED <<fits, world, notices>>
    BY DEF CommitCommand
  <1>6. PagesInv'
    BY <1>2, <1>3, <1>4, <1>5, CommitKeeps DEF NavigationInv, PagesInv, Shapes
  <1>7. CommandsInv'
    <2> DEFINE e == [cmds EXCEPT ![k] = Idle]
    <2>1. /\ DOMAIN e = Commands /\ cmds' = Superseded(e)
          /\ \A j \in Commands : e[j] # Idle => CommandInv(e[j])
      BY DEF CommitCommand, NavigationInv, CommandsInv
    <2> HIDE DEF e
    <2> QED BY <2>1, SupersededHold
  <1> QED BY <1>2, <1>6, <1>7 DEF NavigationInv

\* When all commands are superseded, or nothing is committed.
LEMMA AllSuperseded ==
    ASSUME CommandsInv, cmds' = Superseded(cmds) \/ UNCHANGED <<nav, cmds>>
    PROVE  CommandsInv'
  <1>1. CASE cmds' = Superseded(cmds)
    BY <1>1, SupersededHold DEF CommandsInv
  <1>2. CASE UNCHANGED <<nav, cmds>>
    BY <1>2, CommandsStay DEF CommandsInv
  <1> QED BY <1>1, <1>2

LEMMA LocalSteps ==
    ASSUME NavigationAssumption, NavigationInv,
           \/ \E r \in Routes : SetPage(r)
           \/ \E e \in Definitions : LocalUpdate(e) \/ \E x \in Sessions : LocalOpen(e, x)
           \/ CloseRequested
    PROVE  NavigationInv'
  <1>1. ASSUME NEW r \in Routes, SetPage(r) PROVE PagesInv'
    <2>1. Drafted(SetDraft(r)) /\ SetDraft(r).kind = "set"
      BY DEF SetDraft, Draft, Drafted
    <2> QED BY <1>1, <2>1, ExecuteKeeps DEF SetPage, NavigationInv
  <1>2. ASSUME NEW e \in Definitions, LocalUpdate(e) PROVE PagesInv'
    <2>1. Drafted(UpdateDraft(e)) /\ UpdateDraft(e).kind = "replace"
      BY <1>2, UpdateDrafted DEF LocalUpdate, NavigationInv
    <2> QED BY <1>2, <2>1, ExecuteKeeps DEF LocalUpdate, NavigationInv
  <1>3. ASSUME NEW e \in Definitions, NEW x \in Sessions, LocalOpen(e, x) PROVE PagesInv'
    <2> DEFINE d == OpenDraft(e, x, Builtin)
    <2>1. Drafted(d) /\ d.sess.contract = agreement[d.sess.owner]
      BY <1>3, OpenDrafted DEF LocalOpen, NavigationInv, NavigationAssumption
    <2>2. nav.active /\ nav.route # NoFrame
      BY <1>3, OverARoute DEF LocalOpen, NavigationInv
    <2>3. Execute(d) /\ UNCHANGED <<fits, world, notices>>
      BY <1>3 DEF LocalOpen
    <2> HIDE DEF d
    <2> QED BY <2>1, <2>2, <2>3, ExecuteKeeps DEF NavigationInv
  <1>4. ASSUME CloseRequested PROVE PagesInv'
    BY <1>4, CloseKeeps DEF CloseRequested, NavigationInv, PagesInv, Shapes
  <1>5. PagesInv'
    BY <1>1, <1>2, <1>3, <1>4
  <1>6. CommandsInv'
    BY AllSuperseded
       DEF NavigationInv, SetPage, LocalUpdate, LocalOpen, CloseRequested
  <1> QED BY <1>5, <1>6 DEF NavigationInv

\* Cleared by a configuration, or without its page: no page is left to its owner.
LEMMA TimerAndWorldSteps ==
    ASSUME NavigationAssumption, NavigationInv,
           \/ Activity \/ TimePasses \/ TimerTick
           \/ \E a \in Actions : AgreementEnds(a) \/ AgreementBegins(a)
    PROVE  NavigationInv'
  <1> USE DEF NavigationInv
  <1>1. CASE Activity \/ TimePasses
    <2>1. PagesInv'
      BY <1>1 DEF Activity, TimePasses, PagesInv, Shapes, TemporaryHasRoute, HasTemp,
                  ToldWhatIsShown, Owned, world
    <2> QED BY <1>1, <2>1, AllSuperseded DEF Activity, TimePasses
  <1>2. CASE TimerTick
    <2>1. PagesInv'
      <3>1. CASE ClosePage
        BY <1>2, <3>1, CloseKeeps DEF TimerTick, PagesInv, Shapes
      <3>2. CASE UNCHANGED <<nav, due, told, cmds>>
        BY <1>2, <3>2 DEF TimerTick, PagesInv, Shapes, TemporaryHasRoute, HasTemp,
                  ToldWhatIsShown, Owned, world
      <3> QED BY <1>2, <3>1, <3>2 DEF TimerTick
    <2> QED BY <1>2, <2>1, AllSuperseded DEF TimerTick
  <1>3. ASSUME NEW a \in Actions, AgreementEnds(a) \/ AgreementBegins(a)
        PROVE  NavigationInv'
    <2>1. /\ agreement' \in [Actions -> Contracts] /\ last' \in [Actions -> Contracts]
          /\ notices' = notices \union {a}
          /\ \A o \in Actions \ {a} : agreement'[o] = agreement[o]
      BY <1>3 DEF AgreementEnds, AgreementBegins, PagesInv, Shapes, Contracts, None,
                  NavigationAssumption
    <2>2. UNCHANGED <<nav, fits, cmds, timer, due, told>>
      BY <1>3 DEF AgreementEnds, AgreementBegins
    <2>3. Shapes' /\ TemporaryHasRoute' /\ ToldWhatIsShown'
      BY <2>1, <2>2 DEF PagesInv, Shapes, TemporaryHasRoute, HasTemp, ToldWhatIsShown
    <2>4. Owned'
      BY <2>1, <2>2 DEF PagesInv, Shapes, Owned, HasTemp, IsPage, PageSessions
    <2> QED BY <2>2, <2>3, <2>4, AllSuperseded DEF PagesInv
  <1> QED BY <1>1, <1>2, <1>3

LEMMA ConfigurationSteps ==
    ASSUME NavigationAssumption, NavigationInv,
           ConfigRemoved \/ \E f \in Devices : ConfigChanged(f) \/ DescriptorChanged(f)
    PROVE  NavigationInv'
  <1> USE DEF NavigationInv
  <1>1. ASSUME told' = Closed(told, Dynamic), nav'.temp = NoFrame, due' = FALSE,
               nav' = [route |-> nav'.route, temp |-> NoFrame, active |-> nav'.active],
               nav'.active \in BOOLEAN, nav'.route # NoFrame => IsRoute(nav'.route),
               fits' \subseteq Entries, UNCHANGED <<world, notices>>
        PROVE  PagesInv'
    <2>1. Shapes'
      BY <1>1 DEF PagesInv, Shapes, Closed, world
    <2>2. ToldWhatIsShown'
      BY <1>1 DEF PagesInv, Shapes, ToldWhatIsShown, Closed, Dynamic, HasTemp
    <2> QED BY <1>1, <2>1, <2>2 DEF PagesInv, TemporaryHasRoute, Owned, HasTemp
  <1>2. \A e \in Entries : Installed(e, Snapshot(e)) \in Bindings(e)
                           /\ NoBindings(e) \in Bindings(e)
    BY InstalledBinds DEF PagesInv
  <1>3. ASSUME NEW f \in Devices, ConfigChanged(f) PROVE PagesInv'
    <2> DEFINE home == [entry |-> Home, sess |-> NoSession,
                        bound |-> Installed(Home, Snapshot(Home))]
    <2>1. nav' = [route |-> IF Home \in f THEN home ELSE NoFrame, temp |-> NoFrame,
                  active |-> TRUE]
      BY <1>3 DEF ConfigChanged, Cleared, Frame, Draft, PagesInv, Shapes
    <2>2. IsRoute(home)
      BY <1>2 DEF IsRoute, NavigationAssumption, Entries
    <2>3. /\ told' = Closed(told, Dynamic) /\ due' = FALSE /\ fits' \subseteq Entries
          /\ UNCHANGED <<world, notices>>
      BY <1>3 DEF ConfigChanged, NavigationAssumption
    <2> HIDE DEF home
    <2> QED BY <1>1, <2>1, <2>2, <2>3
  <1>4. ASSUME ConfigRemoved PROVE PagesInv'
    <2>1. nav' = [route |-> NoFrame, temp |-> NoFrame, active |-> FALSE]
      BY <1>4 DEF ConfigRemoved, Cleared, PagesInv, Shapes
    <2>2. /\ told' = Closed(told, Dynamic) /\ due' = FALSE /\ fits' \subseteq Entries
          /\ UNCHANGED <<world, notices>>
      BY <1>4 DEF ConfigRemoved, PagesInv, Shapes
    <2> QED BY <1>1, <2>1, <2>2
  <1>5. ASSUME NEW f \in Devices, DescriptorChanged(f) PROVE PagesInv'
    <2> DEFINE e == Current(nav).entry
    <2>1. fits' \subseteq Entries /\ UNCHANGED <<world, notices>>
      BY <1>5 DEF DescriptorChanged, NavigationAssumption
    <2>2. CASE Current(nav) = NoFrame
      BY <1>5, <2>1, <2>2 DEF DescriptorChanged, PagesInv, Shapes, TemporaryHasRoute,
                              ToldWhatIsShown, Owned, HasTemp, world
    <2>3. CASE Current(nav) # NoFrame /\ e \in f
      <3>1. /\ Drafted(RefreshDraft) /\ RefreshDraft.entry = e
            /\ RefreshDraft.kind = "refresh" /\ e \in Entries
        BY <2>3, RefreshDrafted
      <3>2. Commit(RefreshDraft, Installed(e, Snapshot(e)))
        BY <1>5, <2>3 DEF DescriptorChanged
      <3> QED BY <1>2, <2>1, <3>1, <3>2, CommitKeeps
    <2>4. CASE Current(nav) # NoFrame /\ e \notin f
      <3>1. IsRoute(nav.route)
        BY <2>4 DEF Current, PagesInv, Shapes, TemporaryHasRoute, HasTemp, NoFrame
      <3> DEFINE bare == [entry |-> nav.route.entry, sess |-> NoSession,
                          bound |-> NoBindings(nav.route.entry)]
      <3>2. nav' = [route |-> bare, temp |-> NoFrame, active |-> nav.active]
        <4>1. nav' = [nav EXCEPT !.temp = NoFrame,
                                 !.route.bound = NoBindings(nav.route.entry)]
          BY <1>5, <2>4 DEF DescriptorChanged, Finalize
        <4>2. [nav.route EXCEPT !.bound = NoBindings(nav.route.entry)] = bare
          BY <3>1 DEF IsRoute
        <4> HIDE DEF bare
        <4>3. nav' = [route |-> [nav.route EXCEPT !.bound = NoBindings(nav.route.entry)],
                      temp |-> NoFrame, active |-> nav.active]
          BY <4>1 DEF PagesInv, Shapes
        <4> QED BY <4>2, <4>3
      <3>3. IsRoute(bare)
        BY <1>2, <3>1 DEF IsRoute, Entries
      <3>4. told' = Closed(told, Dynamic) /\ due' = FALSE
        BY <1>5, <2>4 DEF DescriptorChanged, Finalize
      <3> HIDE DEF bare
      <3> QED BY <1>1, <2>1, <3>2, <3>3, <3>4 DEF PagesInv, Shapes
    <2> QED BY <2>2, <2>3, <2>4
  <1>6. CommandsInv'
    BY AllSuperseded DEF ConfigRemoved, ConfigChanged, DescriptorChanged
  <1> QED BY <1>3, <1>4, <1>5, <1>6

LEMMA AvailabilityStep ==
    ASSUME NavigationAssumption, NavigationInv, NEW a \in Actions, AvailabilityChanged(a)
    PROVE  NavigationInv'
  <1> DEFINE e == Current(nav).entry
             refreshed == Commit(RefreshDraft, Installed(e, Snapshot(e)))
  <1> USE DEF NavigationInv
  <1>1. /\ notices' \subseteq notices /\ fits' = fits /\ fits \subseteq Entries
        /\ UNCHANGED world
    BY DEF AvailabilityChanged, PagesInv, Shapes
  <1>2. ASSUME OwnerLost /\ ClosePage PROVE PagesInv'
    BY <1>1, <1>2, CloseKeeps
  <1>3. ASSUME ~OwnerLost /\ Current(nav) # NoFrame /\ refreshed PROVE PagesInv'
    <2>1. /\ Drafted(RefreshDraft) /\ RefreshDraft.entry = e
          /\ RefreshDraft.kind = "refresh" /\ e \in Entries
      BY <1>3, RefreshDrafted
    <2>2. Installed(e, Snapshot(e)) \in Bindings(e)
      BY <2>1, InstalledBinds DEF PagesInv
    <2> QED BY <1>1, <1>3, <2>1, <2>2, CommitKeeps
  <1>4. ASSUME ~OwnerLost /\ UNCHANGED <<nav, told, due>> PROVE PagesInv'
    BY <1>1, <1>4 DEF PagesInv, Shapes, TemporaryHasRoute, ToldWhatIsShown, Owned,
                      OwnerLost, HasTemp, world
  <1>5. PagesInv'
    BY <1>2, <1>3, <1>4 DEF AvailabilityChanged
  <1>6. CommandsInv'
    BY AllSuperseded DEF AvailabilityChanged
  <1> QED BY <1>5, <1>6

LEMMA PlanSteps ==
    ASSUME NavigationAssumption, NavigationInv, NEW k \in Commands, NEW a \in Actions,
           \/ PlanClose(k, a)
           \/ \E e \in Definitions :
                PlanUpdate(k, a, e) \/ \E x \in Sessions : PlanOpen(k, a, e, x)
    PROVE  NavigationInv'
  <1> USE DEF NavigationInv
  <1>1. ASSUME NEW d, Planned(k, a, d) PROVE PagesInv'
    BY <1>1 DEF Planned, PagesInv, Shapes, TemporaryHasRoute, ToldWhatIsShown, Owned,
                HasTemp, world
  <1>2. CASE PlanClose(k, a)
    <2>1. Drafted(CloseDraft) /\ CloseDraft.kind = "close"
      BY <1>2, OverARoute DEF PlanClose, CloseDraft, Draft, Drafted, PagesInv, Shapes, IsRoute
    <2> QED BY <1>1, <1>2, <2>1, PlannedHold DEF PlanClose
  <1>3. ASSUME NEW e \in Definitions, PlanUpdate(k, a, e) PROVE NavigationInv'
    BY <1>1, <1>3, UpdateDrafted, PlannedHold DEF PlanUpdate
  <1>4. ASSUME NEW e \in Definitions, NEW x \in Sessions, PlanOpen(k, a, e, x)
        PROVE  NavigationInv'
    <2> DEFINE d == OpenDraft(e, x, a)
    <2>1. /\ Drafted(d) /\ d.kind = "open"
          /\ d.sess.owner = a /\ d.sess.contract = agreement[a] /\ Planned(k, a, d)
      BY <1>4, OpenDrafted DEF PlanOpen
    <2> HIDE DEF d
    <2> QED BY <1>1, <2>1, PlannedHold
  <1> QED BY <1>2, <1>3, <1>4

LEMMA NavigationInductive ==
    ASSUME NavigationAssumption, NavigationInv, [Next]_vars
    PROVE  NavigationInv'
  <1>1. CASE UNCHANGED vars
    <2>1. PagesInv'
      BY <1>1 DEF vars, world, NavigationInv, PagesInv, Shapes, TemporaryHasRoute,
                  ToldWhatIsShown, Owned, HasTemp
    <2> QED BY <1>1, <2>1, AllSuperseded DEF vars, NavigationInv
  <1>2. ASSUME NEW k \in Commands, CommitCommand(k) \/ DropCommand(k) PROVE NavigationInv'
    <2>1. CASE CommitCommand(k)
      BY <2>1, CommitCommandKeeps
    <2>2. CASE DropCommand(k)
      <3>1. PagesInv'
        BY <2>2 DEF DropCommand, world, NavigationInv, PagesInv, Shapes, TemporaryHasRoute,
                    ToldWhatIsShown, Owned, HasTemp
      <3>2. CommandsInv'
        BY <2>2, CommandsStay DEF DropCommand, NavigationInv, CommandsInv
      <3> QED BY <3>1, <3>2 DEF NavigationInv
    <2> QED BY <1>2, <2>1, <2>2
  <1>3. CASE Next
    BY <1>2, <1>3, LocalSteps, TimerAndWorldSteps, ConfigurationSteps, AvailabilityStep,
       PlanSteps DEF Next
  <1> QED BY <1>1, <1>3

LEMMA NavigationBegins ==
    ASSUME NavigationAssumption, Init
    PROVE  NavigationInv
  <1>1. Shapes
    <2>1. 0 \in Contracts /\ 1 \in Contracts /\ 0 \in 0..Generations - 1
      BY DEF Contracts, NavigationAssumption
    <2>2. nav = [route |-> NoFrame, temp |-> NoFrame, active |-> TRUE]
      BY DEF Init
    <2>3. told \in [Sessions -> [state : {"none", "open", "closed"}, gen : 0..Generations - 1]]
      BY <2>1 DEF Init, Untold
    <2>4. agreement \in [Actions -> Contracts] /\ last \in [Actions -> Contracts]
      BY <2>1 DEF Init, None
    <2>5. nav.route = NoFrame /\ nav.temp = NoFrame /\ nav.active = TRUE
      BY <2>2
    <2> QED BY <2>2, <2>3, <2>4, <2>5 DEF Init, Shapes
  <1> QED BY <1>1 DEF Init, NavigationInv, PagesInv, TemporaryHasRoute, HasTemp,
                      ToldWhatIsShown, Owned, Untold, CommandsInv

\* The inductive invariant.
THEOREM NavigationInvariant == Spec => []NavigationInv
  <1> QED BY NavigationAssumption, NavigationBegins, NavigationInductive, PTL DEF Spec

\* Every way a page ends tells its owner, and a superseded command tells nobody
\* (emit_page_opened, emit_page_closed).
THEOREM OwnersKnowTheirPages == Spec => []ToldWhatIsShown
  <1>1. NavigationInv => ToldWhatIsShown
    BY DEF NavigationInv, PagesInv
  <1> QED BY <1>1, NavigationInvariant, PTL

LEMMA ShapesAreTyped ==
    ASSUME NavigationAssumption, Shapes
    PROVE  TypeOK
  <1>1. \A e \in Entries : UsesOf[e] \in SUBSET Actions
    BY DEF NavigationAssumption
  <1>2. \A e \in Entries : \A b \in Bindings(e) :
            /\ DOMAIN b = UsesOf[e]
            /\ b \in UNION {[A -> 0..MaxAgreements + 1] : A \in SUBSET Actions}
    BY <1>1 DEF Bindings, Contracts
  <1>3. nav.route # NoFrame => /\ nav.route \in Frames(Routes) /\ nav.route.sess = NoSession
                               /\ DOMAIN nav.route.bound = UsesOf[nav.route.entry]
    <2>1. SUFFICES ASSUME IsRoute(nav.route)
                   PROVE  /\ nav.route \in Frames(Routes) /\ nav.route.sess = NoSession
                          /\ DOMAIN nav.route.bound = UsesOf[nav.route.entry]
      BY DEF Shapes
    <2> QED BY <1>2, <2>1 DEF IsRoute, Frames, Entries
  <1>4. nav.temp # NoFrame => /\ nav.temp \in Frames(Definitions) /\ nav.temp.sess # NoSession
                              /\ DOMAIN nav.temp.bound = UsesOf[nav.temp.entry]
    <2>1. SUFFICES ASSUME IsPage(nav.temp)
                   PROVE  /\ nav.temp \in Frames(Definitions) /\ nav.temp.sess # NoSession
                          /\ DOMAIN nav.temp.bound = UsesOf[nav.temp.entry]
      BY DEF Shapes
    <2>2. nav.temp.sess # NoSession
      BY <2>1 DEF IsPage, PageSessions, NoSession, None
    <2> QED BY <1>2, <2>1, <2>2 DEF IsPage, Frames, PageSessions, Entries
  <1> QED BY <1>3, <1>4 DEF TypeOK, Shapes, Contracts

\* A temporary page belongs to the current agreement of its owner once the session has
\* been told of the changes, and lies over a route (on_action_availability_changed).
THEOREM PagesHaveTheirOwner == Spec => []OwnerHolds
  <1>1. NavigationInv => OwnerHolds
    BY NavigationAssumption, ShapesAreTyped DEF NavigationInv, PagesInv, OwnerHolds, Owned
  <1> QED BY <1>1, NavigationInvariant, PTL

\* A page command commits only over the pages it was planned over (_page_commands.py).
THEOREM CommandsKnowTheirBase == Spec => CommandsSeeTheirBase
  <1>1. NavigationInv /\ [Next]_vars =>
            [\A k \in Commands : CommitCommand(k) => Shows(nav) = cmds[k].base]_vars
    BY NavigationAssumption, CommitCommandKeeps
  <1> QED BY <1>1, NavigationInvariant, PTL DEF Spec, CommandsSeeTheirBase

----------------------------------------------------------------------------
(* Sessions without remote page commands *)

\* What is planned and committed in one section binds what is available.
LEMMA InstalledIsCurrent ==
    ASSUME Shapes, NEW e \in Entries, UsesOf[e] \subseteq Actions
    PROVE  \A a \in UsesOf[e] : Installed(e, Snapshot(e))[a] = agreement[a]
  BY DEF Installed, Snapshot, Shapes, None

\* What a commit shows is its draft.
LEMMA CommitShows ==
    ASSUME NavigationAssumption, PagesInv, NEW d, NEW bound, Drafted(d), Commit(d, bound)
    PROVE  Current(nav') = Frame(d, bound)
  <1>1. nav = [route |-> nav.route, temp |-> nav.temp, active |-> nav.active]
    BY DEF PagesInv, Shapes
  <1>2. Frame(d, bound) # NoFrame
    BY DEF Frame, NoFrame
  <1>3. CASE d.entry \in Routes
    <2>1. nav' = [route |-> Frame(d, bound), temp |-> NoFrame, active |-> nav.active]
      BY <1>1, <1>3 DEF Commit, Shown
    <2> QED BY <2>1 DEF Current, HasTemp
  <1>4. CASE d.entry \notin Routes
    <2>1. nav' = [route |-> nav.route, temp |-> Frame(d, bound), active |-> nav.active]
      BY <1>1, <1>4 DEF Commit, Shown
    <2> QED BY <1>2, <2>1 DEF Current, HasTemp
  <1> QED BY <1>3, <1>4

\* A page that was just planned and committed is current.
LEMMA CommitIsCurrent ==
    ASSUME NavigationAssumption, PagesInv, NEW d, Drafted(d), UNCHANGED agreement,
           Commit(d, Installed(d.entry, Snapshot(d.entry)))
    PROVE  PageIsCurrent'
  <1> DEFINE bound == Installed(d.entry, Snapshot(d.entry))
  <1>1. d.entry \in Entries /\ UsesOf[d.entry] \subseteq Actions
    BY DEF Drafted, Entries, NavigationAssumption
  <1>2. \A a \in UsesOf[d.entry] : bound[a] = agreement[a]
    BY <1>1, InstalledIsCurrent DEF PagesInv
  <1>3. Current(nav') = Frame(d, bound)
    BY CommitShows
  <1> HIDE DEF bound
  <1>4. Current(nav').entry = d.entry /\ Current(nav').bound = bound
    BY <1>3 DEF Frame
  <1> QED BY <1>2, <1>4 DEF PageIsCurrent

LEMMA CloseIsCurrent ==
    ASSUME NavigationAssumption, PagesInv, ClosePage, UNCHANGED <<agreement, fits>>
    PROVE  PageIsCurrent'
  <1>1. CASE nav.route = NoFrame
    <2>1. Current(nav') = NoFrame
      BY <1>1 DEF ClosePage, Current, PagesInv, TemporaryHasRoute, HasTemp
    <2> QED BY <2>1 DEF PageIsCurrent
  <1>2. CASE nav.route # NoFrame
    <2>1. Drafted(CloseDraft) /\ CloseDraft.entry = nav.route.entry
      BY <1>2 DEF CloseDraft, Draft, Drafted, PagesInv, Shapes, IsRoute
    <2>2. CASE nav.route.entry \in fits
      BY <1>2, <2>1, <2>2, CommitIsCurrent DEF ClosePage
    <2>3. CASE nav.route.entry \notin fits
      <3>1. Current(nav') = Frame(CloseDraft, NoBindings(nav.route.entry))
        BY <1>2, <2>1, <2>3, CommitShows DEF ClosePage
      <3>2. Current(nav').entry \notin fits'
        BY <2>1, <2>3, <3>1 DEF Frame
      <3> QED BY <3>2 DEF PageIsCurrent
    <2> QED BY <2>2, <2>3
  <1> QED BY <1>1, <1>2

LEMMA LocalPagesStayCurrent ==
    ASSUME NavigationAssumption, Commands = {}, \A f \in Devices : Definitions \subseteq f,
           NavigationInv, PageIsCurrent, [Next]_vars
    PROVE  PageIsCurrent'
  <1> USE DEF NavigationInv
  <1> DEFINE e == Current(nav).entry
  <1>1. ASSUME UNCHANGED <<nav, fits, agreement, notices>> PROVE PageIsCurrent'
    BY <1>1 DEF PageIsCurrent
  <1>2. ASSUME NEW r \in Routes, SetPage(r) PROVE PageIsCurrent'
    <2>1. Drafted(SetDraft(r))
      BY DEF SetDraft, Draft, Drafted
    <2> QED BY <1>2, <2>1, CommitIsCurrent DEF SetPage, Execute, world
  <1>3. ASSUME NEW d \in Definitions, LocalUpdate(d) PROVE PageIsCurrent'
    BY <1>3, UpdateDrafted, CommitIsCurrent DEF LocalUpdate, Execute, world
  <1>4. ASSUME NEW d \in Definitions, NEW x \in Sessions, LocalOpen(d, x)
        PROVE  PageIsCurrent'
    <2>1. Drafted(OpenDraft(d, x, Builtin))
      BY <1>4, OpenDrafted DEF LocalOpen, NavigationAssumption
    <2> QED BY <1>4, <2>1, CommitIsCurrent DEF LocalOpen, Execute, world
  <1>5. ASSUME CloseRequested PROVE PageIsCurrent'
    BY <1>5, CloseIsCurrent DEF CloseRequested, world
  <1>6. ASSUME Activity \/ TimePasses PROVE PageIsCurrent'
    BY <1>1, <1>6 DEF Activity, TimePasses, world
  <1>7. ASSUME TimerTick PROVE PageIsCurrent'
    BY <1>1, <1>7, CloseIsCurrent DEF TimerTick, world
  <1>8. ASSUME NEW f \in Devices, ConfigChanged(f) PROVE PageIsCurrent'
    <2> DEFINE bound == Installed(Home, Snapshot(Home))
               home == [entry |-> Home, sess |-> NoSession, bound |-> bound]
    <2>1. nav' = [route |-> IF Home \in f THEN home ELSE NoFrame, temp |-> NoFrame,
                  active |-> TRUE]
      BY <1>8 DEF ConfigChanged, Cleared, Frame, Draft, PagesInv, Shapes
    <2>2. \A a \in UsesOf[Home] : bound[a] = agreement[a]
      BY InstalledIsCurrent DEF PagesInv, Entries, NavigationAssumption
    <2> HIDE DEF bound
    <2>3. Current(nav') = home \/ Current(nav') = NoFrame
      BY <2>1 DEF Current, HasTemp
    <2>4. agreement' = agreement
      BY <1>8 DEF ConfigChanged, world
    <2> QED BY <2>2, <2>3, <2>4 DEF PageIsCurrent
  <1>9. ASSUME ConfigRemoved PROVE PageIsCurrent'
    <2>1. nav' = [route |-> NoFrame, temp |-> NoFrame, active |-> FALSE]
      BY <1>9 DEF ConfigRemoved, Cleared, PagesInv, Shapes
    <2> QED BY <2>1 DEF PageIsCurrent, Current, HasTemp
  <1>10. ASSUME NEW f \in Devices, DescriptorChanged(f) PROVE PageIsCurrent'
    <2>1. fits' = f /\ agreement' = agreement /\ notices' = notices
      BY <1>10 DEF DescriptorChanged, world
    <2>2. CASE Current(nav) = NoFrame
      BY <1>10, <2>2 DEF DescriptorChanged, PageIsCurrent
    <2>3. CASE Current(nav) # NoFrame /\ e \in f
      BY <1>10, <2>1, <2>3, RefreshDrafted, CommitIsCurrent DEF DescriptorChanged
    <2>4. CASE Current(nav) # NoFrame /\ e \notin f
      <3>1. ~HasTemp(nav)
        BY <2>4 DEF Current, HasTemp, PagesInv, Shapes, IsPage
      <3>2. nav.route # NoFrame /\ IsRoute(nav.route) /\ nav.route.entry \notin f
        BY <2>4, <3>1 DEF Current, PagesInv, Shapes
      <3> DEFINE bare == [nav.route EXCEPT !.bound = NoBindings(nav.route.entry)]
      <3>3. nav' = [nav EXCEPT !.temp = NoFrame,
                               !.route.bound = NoBindings(nav.route.entry)]
        BY <1>10, <2>4 DEF DescriptorChanged, Finalize
      <3>4. nav' = [route |-> bare, temp |-> NoFrame, active |-> nav.active]
        BY <3>3 DEF PagesInv, Shapes
      <3>5. bare.entry = nav.route.entry
        BY <3>2 DEF IsRoute
      <3> HIDE DEF bare
      <3>6. Current(nav').entry \notin fits'
        BY <2>1, <3>2, <3>4, <3>5 DEF Current, HasTemp
      <3> QED BY <3>6 DEF PageIsCurrent
    <2> QED BY <2>2, <2>3, <2>4
  <1>11. ASSUME NEW a \in Actions, AvailabilityChanged(a) PROVE PageIsCurrent'
    <2>1. /\ fits' = fits /\ agreement' = agreement
          /\ a \in notices /\ notices' = notices \ {a}
      BY <1>11 DEF AvailabilityChanged, world
    <2>2. CASE OwnerLost
      BY <1>11, <2>1, <2>2, CloseIsCurrent DEF AvailabilityChanged
    <2>3. CASE ~OwnerLost /\ Current(nav) # NoFrame /\ e \in fits /\ Affects(a, e)
      BY <1>11, <2>1, <2>3, RefreshDrafted, CommitIsCurrent DEF AvailabilityChanged
    <2>4. CASE ~OwnerLost /\ ~(Current(nav) # NoFrame /\ e \in fits /\ Affects(a, e))
      BY <1>11, <2>1, <2>4 DEF AvailabilityChanged, PageIsCurrent, Affects
    <2> QED BY <2>2, <2>3, <2>4
  <1>12. ASSUME NEW a \in Actions, AgreementEnds(a) \/ AgreementBegins(a)
         PROVE  PageIsCurrent'
    <2>1. /\ notices' = notices \union {a} /\ nav' = nav /\ fits' = fits
          /\ \A o \in Actions \ {a} : agreement'[o] = agreement[o]
      BY <1>12 DEF AgreementEnds, AgreementBegins, PagesInv, Shapes
    <2>2. \A f \in Entries : UsesOf[f] \subseteq Actions
      BY DEF NavigationAssumption
    <2> QED BY <2>1, <2>2 DEF PageIsCurrent, PagesInv, Shapes, Entries
  <1>13. CASE UNCHANGED vars
    BY <1>1, <1>13 DEF vars, world
  <1> QED
    BY <1>2, <1>3, <1>4, <1>5, <1>6, <1>7, <1>8, <1>9, <1>10, <1>11, <1>12, <1>13 DEF Next

\* In a session without remote page commands, on devices that keep what the temporary
\* pages need, the page that is shown binds what is available once the session has been
\* told.  Both conditions are needed: a remote command may commit a stale plan, and a
\* route under a page that does not fit any more is left without bindings
\* (on_action_availability_changed, _finalize_dynamic_page).
THEOREM LocalPagesAreCurrent ==
    ASSUME Commands = {}, \A f \in Devices : Definitions \subseteq f
    PROVE  Spec => []PageIsCurrent
  <1>1. Init => PageIsCurrent
    BY DEF Init, PageIsCurrent, Current, HasTemp
  <1>2. NavigationInv /\ PageIsCurrent /\ [Next]_vars => PageIsCurrent'
    BY NavigationAssumption, LocalPagesStayCurrent
  <1> QED BY <1>1, <1>2, NavigationInvariant, PTL DEF Spec
====
