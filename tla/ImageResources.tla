---------------------------- MODULE ImageResources ----------------------------
(****************************************************************************)
(* Artwork for renders, fetched over HTTP: a bounded number of requests,     *)
(* fewer for each origin, and a cache bounded in entries and bytes.  A       *)
(* request looks at the cache before it waits and stores its answer after;   *)
(* it can be cancelled in between, by its deadline, by the failure of        *)
(* another one that the same render needs, or because the service closes.    *)
(****************************************************************************)
EXTENDS Integers, Sequences, FiniteSets, SequencesExt, FiniteSetsExt

CONSTANTS
    Getters,        \* calls of get
    Batches,        \* sets of them that one acquire makes
    Urls,
    UrlOf,          \* what each call asks for
    OriginOf,       \* the origin of each url
    PerOrigin,      \* requests at a time for one origin
    InFlight,       \* requests at a time
    CacheBytes,
    CacheEntries,
    Sizes           \* sizes of pictures

Origins == {OriginOf[u] : u \in Urls}

VARIABLES
    get,        \* each call: where it is, its semaphore, the entry that it found
    sems,       \* the permits of each semaphore made so far
    origin,     \* _origins: the semaphore of an origin, and who refers to it
    slots,      \* _FETCH_SLOTS
    cache,      \* _cache, the oldest entry first
    bytes,      \* _bytes
    service     \* "open", "closing" or "closed"

vars == <<get, sems, origin, slots, cache, bytes, service>>

NoEntry == [url |-> 0, size |-> 0, fresh |-> FALSE, validator |-> FALSE]
NoOrigin == [sem |-> 0, users |-> 0]

Init ==
    /\ get = [g \in Getters |-> [ph |-> "none", sem |-> 0, found |-> NoEntry]]
    /\ sems = <<>>
    /\ origin = [o \in Origins |-> NoOrigin]
    /\ slots = InFlight
    /\ cache = <<>> /\ bytes = 0
    /\ service = "open"

Url(g) == UrlOf[g]
Origin(g) == OriginOf[Url(g)]
At(g, phases) == get[g].ph \in phases
Waiting == {"origin", "slot", "fetching"}

Entry(url) ==
    IF \E e \in ToSet(cache) : e.url = url
    THEN CHOOSE e \in ToSet(cache) : e.url = url ELSE NoEntry
Without(entries, url) == SelectSeq(entries, LAMBDA e : e.url # url)

----------------------------------------------------------------------------
(* _remember *)

Weight(entries) == MapThenSumSet(LAMBDA e : e.size, ToSet(entries))

\* The oldest entries go until there is room for size.
Evict(entries, held, size) ==
    LET after(n) == held - Weight(SubSeq(entries, 1, n))
        room(n) == after(n) + size <= CacheBytes /\ Len(entries) - n < CacheEntries
        n == Min({m \in 0..Len(entries) : m = Len(entries) \/ room(m)})
    IN [cache |-> SubSeq(entries, n + 1, Len(entries)), bytes |-> after(n)]

\* Mutant: the bytes of the entry that is replaced stay counted.
RememberedTwice(answer) ==
    LET rest == Without(cache, answer.url)
        room == Evict(rest, bytes, answer.size)
    IN IF ~(answer.fresh \/ answer.validator) \/ answer.size > CacheBytes
       THEN [cache |-> rest, bytes |-> bytes]
       ELSE [cache |-> Append(room.cache, answer), bytes |-> room.bytes + answer.size]

\* What an answer says about itself decides whether it is kept at all.
Remembered(answer) ==
    LET old  == Entry(answer.url)
        rest == Without(cache, answer.url)
        held == bytes - old.size
        room == Evict(rest, held, answer.size)
    IN IF ~(answer.fresh \/ answer.validator) \/ answer.size > CacheBytes
       THEN [cache |-> rest, bytes |-> held]
       ELSE [cache |-> Append(room.cache, answer), bytes |-> room.bytes + answer.size]

Remember(answer) ==
    LET kept == Remembered(answer) IN cache' = kept.cache /\ bytes' = kept.bytes

----------------------------------------------------------------------------
(* get *)

\* A fresh entry is the answer; any other is remembered for revalidation, and the
\* call refers to the semaphore of its origin.
Begin(g) ==
    /\ At(g, {"none"}) /\ service = "open"
    /\ LET entry == Entry(Url(g)) IN
       IF entry.fresh
       THEN /\ get' = [get EXCEPT ![g].ph = "end"]
            /\ cache' = Append(Without(cache, Url(g)), entry)
            /\ UNCHANGED <<sems, origin>>
       ELSE LET known == origin[Origin(g)].sem
                sem   == IF known = 0 THEN Len(sems) + 1 ELSE known
            IN /\ sems' = IF known = 0 THEN Append(sems, PerOrigin) ELSE sems
               /\ origin' = [origin EXCEPT ![Origin(g)] = [sem |-> sem, users |-> @.users + 1]]
               /\ get' = [get EXCEPT ![g] = [ph |-> "origin", sem |-> sem, found |-> entry]]
               /\ UNCHANGED cache
    /\ UNCHANGED <<slots, bytes, service>>

\* A closed service refuses; the deadline is over; a fresh entry is too large for this
\* call, or not of a type it takes.
Refuse(g) ==
    /\ At(g, {"none"})
    /\ get' = [get EXCEPT ![g].ph = "failed"]
    /\ UNCHANGED <<sems, origin, slots, cache, bytes, service>>

TakeOrigin(g) ==
    /\ At(g, {"origin"}) /\ sems[get[g].sem] > 0
    /\ sems' = [sems EXCEPT ![get[g].sem] = @ - 1]
    /\ get' = [get EXCEPT ![g].ph = "slot"]
    /\ UNCHANGED <<origin, slots, cache, bytes, service>>

TakeSlot(g) ==
    /\ At(g, {"slot"}) /\ slots > 0
    /\ slots' = slots - 1
    /\ get' = [get EXCEPT ![g].ph = "fetching"]
    /\ UNCHANGED <<sems, origin, cache, bytes, service>>

\* _capacity on the way out: the last one that refers to the semaphore drops it.
Dropped(o) == IF o.users > 1 THEN [o EXCEPT !.users = @ - 1] ELSE NoOrigin

\* Mutant: a call that waits for a slot leaves its reference.
GiveBackHeld(g) ==
    /\ slots' = IF At(g, {"fetching"}) THEN slots + 1 ELSE slots
    /\ sems' = IF At(g, {"slot", "fetching"}) THEN [sems EXCEPT ![get[g].sem] = @ + 1] ELSE sems
    /\ origin' = IF At(g, {"fetching"}) THEN [origin EXCEPT ![Origin(g)] = Dropped(@)] ELSE origin

GiveBack(g) ==
    /\ slots' = IF At(g, {"fetching"}) THEN slots + 1 ELSE slots
    /\ sems' = IF At(g, {"slot", "fetching"}) THEN [sems EXCEPT ![get[g].sem] = @ + 1] ELSE sems
    /\ origin' = [origin EXCEPT ![Origin(g)] = Dropped(@)]

\* The picture arrives, or the server says that the entry found is still good; it may
\* say with that that it is not to be kept.
Fetched(g) ==
    /\ At(g, {"fetching"})
    /\ \E fresh \in BOOLEAN, validator \in BOOLEAN :
          \/ \E size \in Sizes :
                Remember([url |-> Url(g), size |-> size, fresh |-> fresh, validator |-> validator])
          \/ /\ get[g].found.validator
             /\ Remember([get[g].found EXCEPT !.fresh = fresh, !.validator = fresh \/ validator])
    /\ GiveBack(g)
    /\ get' = [get EXCEPT ![g] = [ph |-> "end", sem |-> 0, found |-> NoEntry]]
    /\ UNCHANGED service

\* Cancelled or failed: nothing is stored.
Stop(g, ph) ==
    /\ At(g, Waiting)
    /\ GiveBack(g)
    /\ get' = [get EXCEPT ![g] = [ph |-> ph, sem |-> 0, found |-> NoEntry]]
    /\ UNCHANGED <<cache, bytes, service>>

\* The answer is an error or too large, or the deadline passes.
Failed(g) == Stop(g, "failed")

\* acquire: the failure of one call cancels the others.
Mates(g) == {h \in Getters \ {g} : \E b \in Batches : {g, h} \subseteq b}
Cancelled(g) == (\E h \in Mates(g) : At(h, {"failed"})) /\ Stop(g, "end")

\* An entry is no longer fresh.
Stale ==
    /\ \E i \in DOMAIN cache : cache[i].fresh /\ cache' = [cache EXCEPT ![i].fresh = FALSE]
    /\ UNCHANGED <<get, sems, origin, slots, bytes, service>>

----------------------------------------------------------------------------
(* aclose *)

Close ==
    /\ service = "open"
    /\ service' = "closing"
    /\ UNCHANGED <<get, sems, origin, slots, cache, bytes>>

\* Calls under way are cancelled; one whose answer is already there may still store it.
Interrupted(g) == service = "closing" /\ Stop(g, "end")

Closed ==
    /\ service = "closing" /\ \A g \in Getters : ~At(g, Waiting)
    /\ service' = "closed"
    /\ cache' = <<>> /\ bytes' = 0
    /\ UNCHANGED <<get, sems, origin, slots>>

Next ==
    \/ \E g \in Getters : \/ Begin(g) \/ Refuse(g) \/ TakeOrigin(g) \/ TakeSlot(g)
                         \/ Fetched(g) \/ Failed(g) \/ Cancelled(g) \/ Interrupted(g)
    \/ Stale \/ Close \/ Closed

Spec == Init /\ [][Next]_vars

----------------------------------------------------------------------------
Admitted(o) == {g \in Getters : At(g, {"slot", "fetching"}) /\ Origin(g) = o}

\* Never more requests for an origin than it is allowed, although its semaphore is
\* dropped and made again as calls come and go.
OriginBounded == \A o \in Origins : Cardinality(Admitted(o)) <= PerOrigin

\* The bytes counted are those of the entries, within the bounds, one for each url:
\* also when an answer replaces an entry that was evicted, or stored again, meanwhile.
CacheAccounted ==
    /\ bytes = Weight(cache)
    /\ bytes <= CacheBytes /\ Len(cache) <= CacheEntries
    /\ \A i, j \in DOMAIN cache : cache[i].url = cache[j].url => i = j

\* A closed service holds no picture, and nobody fetches.
ClosedIsEmpty == service = "closed" => cache = <<>> /\ \A g \in Getters : ~At(g, Waiting)

\* When no call is under way, nothing of them is left: all capacity is free, and no
\* origin is remembered.  Meanwhile each origin is within its bound; afterwards a
\* closed service is empty.
NothingKept ==
    /\ (\A g \in Getters : ~At(g, Waiting)) =>
          /\ slots = InFlight
          /\ \A o \in Origins : origin[o] = NoOrigin
    /\ OriginBounded
    /\ ClosedIsEmpty
==============================================================================
