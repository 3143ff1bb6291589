------------------------------ MODULE Connections ------------------------------
(****************************************************************************)
(* From discovered hardware to a running session: ControllerHardwareService *)
(* uses the devices it finds, routes each used device to a configuration    *)
(* and has ControllerService start and close the session of that route.     *)
(*                                                                          *)
(* Routing holds one lock; the end of a use and the lifecycle of each       *)
(* session run beside it.  A code section without a suspension is one step. *)
(* The map of sessions is an AsyncMap: its operations are performed in the  *)
(* order they are begun.                                                    *)
(****************************************************************************)
EXTENDS Integers, Sequences, FiniteSets, SequencesExt

CONSTANTS
    Devices,        \* hardware devices, by ref_key
    Configs,        \* configuration ids
    Documents,      \* the configurations there may be: which are enabled, and
                    \* which one match_device finds for each device
    MaxContracts,   \* bound on the agreements about devices
    MaxRoutes,      \* bound on the routes connected
    MaxChanges      \* bound on the changes of the configuration and the ends of uses

None == 0
Routes == 1..MaxRoutes

\* What is assumed of the constants.
ConnectionsAssumption ==
    /\ \A u \in Documents :
          /\ u.enabled \subseteq Configs
          /\ u.match \in [Devices -> u.enabled \union {None}]
    /\ {MaxContracts, MaxRoutes, MaxChanges} \subseteq Nat
    /\ None \notin Configs \union Devices

VARIABLES
    conf,       \* the configuration, and the changes and ends that may still come
    dev,        \* _devices and the managed uses
    route,      \* DeviceRouteRegistry: the live route of a configuration
    made,       \* every route connected so far
    router,     \* the task that holds the lock, and where it is
    parting,    \* the calls of _disconnect under way
    map,        \* _controller_contexts
    queue,      \* the operations on the map that have begun
    event,      \* _device_disconnect_events
    life,       \* the _device_lifecycle of each route
    sess,       \* its DeviceSession
    contracts   \* the number of agreements so far

vars == <<conf, dev, route, made, router, parting, map, queue, event, life, sess, contracts>>

Router == None
Unused == [ph |-> "out", config |-> None, contract |-> None]
NoCall == [ph |-> "none", config |-> None, event |-> None, session |-> None]
Idle == [ph |-> "idle", dev |-> None, config |-> None, contract |-> None]

Init ==
    /\ conf \in [doc : Documents, left : {MaxChanges}]
    /\ dev = [d \in Devices |-> Unused]
    /\ route = [c \in Configs |-> None]
    /\ made = [r \in {} |-> None]
    /\ router = Idle
    /\ parting = [w \in Devices \union {Router} |-> NoCall]
    /\ map = [c \in Configs |-> None]
    /\ queue = <<>>
    /\ event = [c \in Configs |-> None]
    /\ life = [r \in Routes |-> [ph |-> "none", told |-> FALSE]]
    /\ sess = [r \in Routes |-> "none"]
    /\ contracts = 0

\* claim_for_config and route_for_config: the route while its agreement holds.
Holds(r) == dev[made[r].dev].contract = made[r].contract
RouteFor(c) == IF route[c] # None /\ Holds(route[c]) THEN route[c] ELSE None

Op(kind, who, config) == [kind |-> kind, who |-> who, config |-> config]

----------------------------------------------------------------------------
(* The configuration and the agreements (external) *)

\* A document appears, goes, is disabled, or matches another device.
Reconfigure ==
    /\ conf.left > 0
    /\ \E u \in Documents \ {conf.doc} : conf' = [doc |-> u, left |-> conf.left - 1]
    /\ UNCHANGED <<dev, route, made, router, parting, map, queue, event, life, sess, contracts>>

\* The managed use enters an agreement with the device's manager, a first one
\* or the successor of one that was lost.
Agree(d) ==
    /\ dev[d].ph = "use" /\ dev[d].contract = None /\ contracts < MaxContracts
    /\ contracts' = contracts + 1
    /\ dev' = [dev EXCEPT ![d].contract = contracts + 1]
    /\ UNCHANGED <<conf, route, made, router, parting, map, queue, event, life, sess>>

Disagree(d) ==
    /\ dev[d].ph = "use" /\ dev[d].contract # None
    /\ dev' = [dev EXCEPT ![d].contract = None]
    /\ UNCHANGED <<conf, route, made, router, parting, map, queue, event, life, sess, contracts>>

----------------------------------------------------------------------------
(* _disconnect and on_hardware_disconnected *)

\* The route goes at once; then the session is taken from the map.
Disconnect(who, c) ==
    /\ route' = [route EXCEPT ![c] = None]
    /\ IF route[c] = None
       THEN UNCHANGED <<parting, queue>>
       ELSE /\ parting' = [parting EXCEPT ![who] = [NoCall EXCEPT !.ph = "pop", !.config = c]]
            /\ queue' = Append(queue, Op("pop", who, c))

Popped(op) ==
    /\ op.kind = "pop"
    /\ map' = [map EXCEPT ![op.config] = None]
    /\ parting' = [parting EXCEPT ![op.who] =
                    [@ EXCEPT !.ph = "close", !.event = event[op.config],
                              !.session = map[op.config]]]
    /\ sess' = IF map[op.config] = None THEN sess
               ELSE [sess EXCEPT ![map[op.config]] = "closed"]
    /\ UNCHANGED <<life, router>>

\* The session is closed; its lifecycle is told.
Parted(who) ==
    /\ parting[who].ph = "close"
    /\ life' = IF parting[who].event = None THEN life
               ELSE [life EXCEPT ![parting[who].event].told = TRUE]
    /\ parting' = [parting EXCEPT ![who] = NoCall]
    /\ UNCHANGED <<conf, dev, route, made, router, map, queue, event, sess, contracts>>

Away(who) == parting[who].ph = "none"

----------------------------------------------------------------------------
(* reconcile and _run_device *)

Free == router = Idle

\* A discovered device is used for the configuration that matches it, unless
\* another device has that configuration.
Use(d) ==
    /\ Free /\ dev[d].ph = "out" /\ conf.doc.match[d] # None
    /\ \A e \in Devices : dev[e].ph # "out" => dev[e].config # conf.doc.match[d]
    /\ dev' = [dev EXCEPT ![d] = [ph |-> "use", config |-> conf.doc.match[d], contract |-> None]]
    /\ UNCHANGED <<conf, route, made, router, parting, map, queue, event, life, sess, contracts>>

\* The use ends, whoever routes the device meanwhile.
UseEnds(d) ==
    /\ dev[d].ph = "use" /\ conf.left > 0
    /\ conf' = [conf EXCEPT !.left = @ - 1]
    /\ dev' = [dev EXCEPT ![d].ph = "end", ![d].contract = None]
    /\ Disconnect(d, dev[d].config)
    /\ UNCHANGED <<made, router, map, event, life, sess, contracts>>

UseEnded(d) ==
    /\ dev[d].ph = "end" /\ Away(d)
    /\ dev' = [dev EXCEPT ![d] = [Unused EXCEPT !.config = IF router.dev = d THEN dev[d].config
                                                         ELSE None]]
    /\ UNCHANGED <<conf, route, made, router, parting, map, queue, event, life, sess, contracts>>

----------------------------------------------------------------------------
(* _route and _route_authorized, under the lock *)

Unrouted == UNCHANGED <<route, parting, queue>>

\* require_authority: the agreement the routing began under has been lost.
Lost == dev[router.dev].contract # router.contract

\* The device has lost its route.
GiveUp == router' = [Idle EXCEPT !.ph = "part"]

RouteBegins(d) ==
    /\ Free /\ dev[d].ph # "out"
    /\ IF dev[d].contract = None
       THEN GiveUp /\ Disconnect(Router, dev[d].config)
       ELSE /\ router' = [Idle EXCEPT !.ph = "read", !.dev = d, !.contract = dev[d].contract]
            /\ Unrouted
    /\ UNCHANGED <<conf, dev, made, map, event, life, sess, contracts>>

\* Mutant: a route is kept whatever agreement it was made under.
KeptAnyway(c) == route[c] # None

\* The route of the configuration was made under the present agreement.
Kept(c) == route[c] # None /\ made[route[c]].contract = router.contract

\* The configuration that was looked up: the one the route has, if it is still
\* there, or the one that matches.
Selected(d) ==
    LET c == dev[d].config
    IN IF Kept(c) /\ c \in conf.doc.enabled
       THEN c ELSE conf.doc.match[d]

Taken(d, c) == \E e \in Devices \ {d} : dev[e].ph # "out" /\ dev[e].config = c

RouteDecides ==
    LET d == router.dev
        old == dev[d].config
        c == Selected(d)
    IN /\ router.ph = "read"
       /\ \/ /\ c = None \/ (c # old /\ Taken(d, c))
             /\ Disconnect(Router, old)
             /\ GiveUp
          \/ /\ c # None /\ c # old /\ ~Taken(d, c)
             /\ Disconnect(Router, old)
             /\ router' = [router EXCEPT !.ph = "move", !.config = c]
          \/ /\ c # None /\ c = old /\ Kept(c)
             /\ IF Lost THEN GiveUp /\ Disconnect(Router, old)
                ELSE router' = Idle /\ Unrouted
          \/ /\ c # None /\ c = old /\ ~Kept(c)
             /\ Disconnect(Router, c)
             /\ router' = [router EXCEPT !.ph = "clean", !.config = c]
       /\ UNCHANGED <<conf, dev, made, map, event, life, sess, contracts>>

RouteParts ==
    /\ router.ph = "part" /\ Away(Router)
    /\ router' = Idle
    /\ UNCHANGED <<conf, dev, route, made, parting, map, queue, event, life, sess, contracts>>

RouteMoves ==
    LET d == router.dev
    IN /\ router.ph = "move" /\ Away(Router)
       /\ dev' = [dev EXCEPT ![d].config = router.config]
       /\ Disconnect(Router, router.config)
       /\ router' = [router EXCEPT !.ph = "clean"]
       /\ UNCHANGED <<conf, made, map, event, life, sess, contracts>>

\* The route is connected before the session hears of it.
RouteConnects ==
    LET d == router.dev
        r == Cardinality(DOMAIN made) + 1
    IN /\ router.ph = "clean" /\ Away(Router)
       /\ IF Lost
          THEN /\ Disconnect(Router, router.config) /\ GiveUp
               /\ UNCHANGED made
          ELSE /\ r \in Routes
               /\ made' = [x \in 1..r |->
                            IF x = r THEN [dev |-> d, config |-> router.config,
                                           contract |-> router.contract]
                            ELSE made[x]]
               /\ route' = [route EXCEPT ![router.config] = r]
               /\ router' = [router EXCEPT !.ph = "tell"]
               /\ UNCHANGED <<parting, queue>>
       /\ UNCHANGED <<conf, dev, map, event, life, sess, contracts>>

\* on_hardware_connected looks for a session to replace; there never is one (see
\* NothingToReplace), so what it would do with it is not modelled.
RouteTells ==
    LET d == router.dev
    IN /\ router.ph = "tell"
       /\ IF Lost
          THEN Disconnect(Router, router.config) /\ GiveUp
          ELSE /\ queue' = Append(queue, Op("look", Router, router.config))
               /\ router' = [router EXCEPT !.ph = "look"]
               /\ UNCHANGED <<route, parting>>
       /\ UNCHANGED <<conf, dev, made, map, event, life, sess, contracts>>

Looked(op) ==
    /\ op.kind = "look"
    /\ router' = [router EXCEPT !.ph = "start"]
    /\ UNCHANGED <<map, parting, sess, life>>

\* The route whose session is to be started is the last one made.
RouteStarts ==
    /\ router.ph = "start" /\ Away(Router)
    /\ life' = [life EXCEPT ![Cardinality(DOMAIN made)].ph = "new"]
    /\ router' = Idle
    /\ UNCHANGED <<conf, dev, route, made, parting, map, queue, event, sess, contracts>>

----------------------------------------------------------------------------
(* _device_lifecycle *)

LifeBegins(r) ==
    /\ life[r].ph = "new"
    /\ life' = [life EXCEPT ![r].ph = "config"]
    /\ event' = [event EXCEPT ![made[r].config] = r]
    /\ UNCHANGED <<conf, dev, route, made, router, parting, map, queue, sess, contracts>>

\* Mutant: the route is not looked at again once the configuration is there.
LifeChecksNothing(r) ==
    /\ life[r].ph = "config"
    /\ life' = [life EXCEPT ![r].ph = "set"]
    /\ queue' = Append(queue, Op("set", r, made[r].config))
    /\ UNCHANGED <<conf, dev, route, made, router, parting, map, event, sess, contracts>>

\* The configuration arrived: is the route still the live one?
LifeChecks(r) ==
    /\ life[r].ph = "config"
    /\ IF life[r].told \/ RouteFor(made[r].config) # r
       THEN /\ life' = [life EXCEPT ![r].ph = "leave"]
            /\ UNCHANGED queue
       ELSE /\ life' = [life EXCEPT ![r].ph = "set"]
            /\ queue' = Append(queue, Op("set", r, made[r].config))
    /\ UNCHANGED <<conf, dev, route, made, router, parting, map, event, sess, contracts>>

Registered(op) ==
    /\ op.kind = "set"
    /\ map' = [map EXCEPT ![op.config] = op.who]
    /\ sess' = [sess EXCEPT ![op.who] = "active"]
    /\ life' = [life EXCEPT ![op.who].ph = "run"]
    /\ UNCHANGED <<router, parting>>

LifeEnds(r) ==
    /\ life[r].ph = "leave" \/ (life[r].ph = "run" /\ life[r].told)
    /\ life' = [life EXCEPT ![r].ph = "end"]
    /\ event' = [c \in Configs |-> IF event[c] = r THEN None ELSE event[c]]
    /\ UNCHANGED <<conf, dev, route, made, router, parting, map, queue, sess, contracts>>

\* The next operation on the map.
Served ==
    /\ queue # <<>> /\ queue' = Tail(queue)
    /\ \/ Popped(Head(queue)) \/ Looked(Head(queue))
       \/ Registered(Head(queue))
    /\ UNCHANGED <<conf, dev, route, made, event, contracts>>

----------------------------------------------------------------------------
Routing ==
    RouteDecides \/ RouteParts \/ RouteMoves \/ RouteConnects \/ RouteTells
    \/ RouteStarts
Living(r) == LifeBegins(r) \/ LifeChecks(r) \/ LifeEnds(r)
Working ==
    \/ Served
    \/ \E d \in Devices : UseEnded(d)
    \/ \E w \in Devices \union {Router} : Parted(w)
    \/ \E r \in Routes : Living(r)

Next ==
    \/ Reconfigure \/ Routing \/ Working
    \/ \E d \in Devices :
          \/ Agree(d) \/ Disagree(d) \/ Use(d) \/ UseEnds(d) \/ RouteBegins(d)

Spec == Init /\ [][Next]_vars

\* The lock is first come first served and every second all used devices are
\* routed, so each gets its turn; the task that routes goes on, and so does the
\* rest as a whole: its steps are finitely many.
FairSpec ==
    /\ Spec
    /\ WF_vars(Routing) /\ WF_vars(Working)
    /\ \A d \in Devices : SF_vars(RouteBegins(d))

----------------------------------------------------------------------------
Quiet ==
    /\ Free /\ queue = <<>>
    /\ \A w \in Devices \union {Router} : Away(w)
    /\ \A r \in Routes : life[r].ph \in {"none", "run", "end"}

\* A configuration has one session at a time, and a session runs only while the
\* map knows it.
OneSession ==
    \A r \in Routes : sess[r] = "active" => map[made[r].config] = r

\* When a route is connected the session of its predecessor is gone already.
NothingToReplace ==
    (queue # <<>> /\ Head(queue).kind = "look") => map[Head(queue).config] = None

\* No two devices in use have one configuration, whatever was moved or matched again
\* while one of them was being routed.
OneDevicePerConfig ==
    \A d, e \in Devices :
        (d # e /\ dev[d].ph # "out" /\ dev[e].ph # "out") => dev[d].config # dev[e].config

\* When routing rests, the sessions that run are exactly those of the routes that
\* hold; and at no time has a configuration two devices or two sessions.
SessionsAreRouted ==
    /\ OneSession /\ NothingToReplace /\ OneDevicePerConfig
    /\ Quiet =>
          \A r \in Routes :
             /\ sess[r] = "active" => \E c \in Configs : route[c] = r /\ map[c] = r
             /\ (r \in DOMAIN made /\ route[made[r].config] = r /\ Holds(r)) =>
                    sess[r] = "active" /\ map[made[r].config] = r

\* The bound on the routes holds the routing up.
OutOfRoutes == router.ph = "clean" /\ ~Lost /\ DOMAIN made = Routes

\* A used device whose agreement lasts, and whose configuration no other device
\* has, gets a session and keeps it, whatever happened before.
EventuallyServed ==
    \A d \in Devices :
        <>[](/\ dev[d].ph = "use" /\ dev[d].contract # None /\ conf.doc.match[d] # None
             /\ ~Taken(d, conf.doc.match[d]) /\ ~OutOfRoutes)
        => <>[](\E r \in DOMAIN made : made[r].dev = d /\ Holds(r) /\ sess[r] = "active")
==============================================================================
