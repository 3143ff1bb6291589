------------------------------- MODULE MCOutside -------------------------------
(****************************************************************************)
(* The parts around a device session, each on its own: which part runs is   *)
(* chosen at the start, and the others stay as they begin.                  *)
(****************************************************************************)
EXTENDS ConfigProjection

VARIABLES
    part,
    \* connections
    conf, dev, route, made, router, parting, map, queue, event, life, sess, contracts,
    \* action providers
    listed, uses, watch, gen, watcher, cancelled, lease, known, planned, chances, behind,
    \* configuration files
    disk, svc, scan, pub, acked, remote, task, sub, edits, steady,
    \* action selection
    rec, ready, order, mapped, interest, plan, constant, remaining

Parts == {"connections", "providers", "files", "projection", "selection"}

connections == <<conf, dev, route, made, router, parting, map, queue, event, life, sess, contracts>>
providers == <<listed, uses, watch, gen, watcher, cancelled, lease, known, planned, chances, behind>>
files == <<disk, svc, scan, pub, acked, remote, task, sub, edits, steady>>
selection == <<rec, ready, order, mapped, interest, plan, constant, remaining>>
all == <<part, connections, providers, files, projection, selection>>

----------------------------------------------------------------------------
(* The instances *)

\* Two devices, two configurations: each device has its own, or the one of the first
\* goes to the second.
Devices == {11, 12}
Nothing == 0
MCDocuments ==
    LET doc(a, b, enabled) ==
            [match |-> [d \in Devices |-> IF d = 11 THEN a ELSE b], enabled |-> enabled]
    IN {doc(21, 22, {21, 22}), doc(Nothing, 21, {21})}

C == INSTANCE Connections WITH
    Configs <- {21, 22}, Documents <- MCDocuments,
    MaxContracts <- 2, MaxRoutes <- 2, MaxChanges <- 1

\* Two device sessions, a provider that comes back with another session, one sender.
P == INSTANCE ActionProviders WITH
    MaxSessions <- 2, ProviderSessions <- {31, 32}, Senders <- {21},
    MaxWatches <- 3, MaxUses <- 3, MaxEvents <- 5,
    task <- watcher, rec <- known, plan <- planned, left <- chances

Config(id, v) == [id |-> id, v |-> v]
NoFile == Config("absent", 0)
BadFile == Config("invalid", 0)
Directory(one, two, up) == [file |-> <<one, two>>, up |-> up, swept |-> {}]

\* Two files; a configuration is edited, moved to the other file, claimed by both.
F == INSTANCE ConfigFiles WITH
    Paths <- {1, 2},
    Documents <- {Config("a", 1), Config("b", 1), BadFile, NoFile},
    Directories <- {Directory(Config("a", 1), NoFile, TRUE),
                    Directory(Config("b", 1), Config("a", 1), FALSE)},
    Subscribed <- {"a"}, OwnPath <- [a |-> 1, b |-> 2], Writes <- {Config("b", 1)},
    MaxEvents <- 2, left <- edits

\* One configuration or two, and a call that changes one of them.
MCProjections == {{Config("a", 1)}, {Config("a", 1), Config("b", 1)}}
MCWrites == {Config("a", 2)}

\* Two providers; one intent takes either of them, the other asks for labels.
S == INSTANCE ActionSelection WITH
    Providers <- 1..2, Intents <- {"any", "labels"}, Labelled <- {"labels"},
    Admits <- [any |-> 1..2, labels |-> {2}], MaxKept <- 1, MaxEvents <- 3,
    steady <- constant, left <- remaining

\* What the modules, and the theorems about them, assume of their constants.
ASSUME MCAssumption == C!ConnectionsAssumption /\ S!ProvidersOrdered

----------------------------------------------------------------------------
\* A part that does not run begins in one way only.
Begins ==
    /\ part \in Parts
    /\ ProjectionInit /\ C!Init /\ P!Init /\ F!Init /\ S!Init
    /\ part # "connections" => conf.doc.match[12] = 22
    /\ part # "files" => ~disk.up
    /\ part # "projection" => Cardinality(active) = 1

Alone(p) ==
    /\ UNCHANGED part
    /\ IF p = "connections" THEN TRUE ELSE UNCHANGED connections
    /\ IF p = "providers" THEN TRUE ELSE UNCHANGED providers
    /\ IF p = "files" THEN TRUE ELSE UNCHANGED files
    /\ IF p = "projection" THEN TRUE ELSE UNCHANGED projection
    /\ IF p = "selection" THEN TRUE ELSE UNCHANGED selection

Steps ==
    \/ part = "connections" /\ C!Next /\ Alone("connections")
    \/ part = "providers" /\ P!Next /\ Alone("providers")
    \/ part = "files" /\ F!Next /\ Alone("files")
    \/ part = "projection" /\ ProjectionNext /\ Alone("projection")
    \/ part = "selection" /\ S!Next /\ Alone("selection")

\* The fairness of each component, for the part that runs.
Goes ==
    \/ part = "connections" /\ C!Routing /\ Alone("connections")
    \/ part = "providers" /\ P!Working /\ Alone("providers")
    \/ part = "files" /\ F!Watching /\ Alone("files")
    \/ part = "projection" /\ Working /\ Alone("projection")

GoesBeside ==
    \/ part = "connections" /\ C!Working /\ Alone("connections")
    \/ part = "files" /\ F!Writing /\ Alone("files")

Gives == part = "files" /\ F!Giving /\ Alone("files")

MCSpec ==
    /\ Begins /\ [][Steps]_all
    /\ WF_all(Goes) /\ WF_all(GoesBeside) /\ WF_all(Gives)
    /\ \A d \in Devices :
          SF_all(part = "connections" /\ C!RouteBegins(d) /\ Alone("connections"))

----------------------------------------------------------------------------
(* The properties of the components, for their parts; ConfigProjection's are there *)

\* When routing rests, the sessions that run are those of the live routes; never has a
\* configuration two of them, or two devices (_device_lifecycle, _route_authorized).
SessionsAreRouted == C!SessionsAreRouted

\* A used device whose agreement lasts and whose configuration nobody else has is
\* served in the end (_route_authorized, _device_lifecycle).
EventuallyServed == C!EventuallyServed

\* One watch works on a service, and its provider session has its lease
\* (_drop_runtime_lease_for_object).
OneWatch == P!OneWatch

\* When nothing is under way each session's page stands on what is known now, but
\* for sessions left behind (_notify_availability_changed).
SessionsKnow == P!SessionsKnow

\* A service that stays listed is watched in the end (_run_service_view_watch).
Watched == P!Watched

\* No configuration is lost to a half-edited file, to two files that claim one id or
\* to a directory that cannot be read (_scan_configs).
KeptWhileThere == F!KeptWhileThere

\* In the end bucket and subscribers have what the files say (_watch_loop).
Settles == F!Settles

\* A control keeps its provider while that is usable (_selected_planning_record).
Sticky == S!Sticky

\* Pruning spares the records that interesting intents are mapped to (prune).
PruneSparesControls == S!PruneSparesControls
==============================================================================
