---------------------------- MODULE ActionSelection ----------------------------
(****************************************************************************)
(* ActionAvailabilityCache: which provider a control's intent is planned    *)
(* with when several offer the action.  The records of one action, one per  *)
(* provider, the mapping from intents to the provider last selected, and    *)
(* the pruning of records that nobody refers to.  The production policy has *)
(* no expiry of fresh records, so a record's state is its own.              *)
(****************************************************************************)
EXTENDS Integers, Sequences, FiniteSets, SequencesExt

CONSTANTS
    Providers,      \* numbered in the order of their instance ids
    Intents,
    Labelled,       \* the intents that ask for labels
    Admits,         \* Admits[i]: the providers with the id and labels i asks for
    MaxKept,        \* max_unreferenced_records
    MaxEvents       \* bound on what providers, sessions and configurations do

None == 0

\* What the theorems assume of the constants: instance ids are ordered, so that
\* there is a first one of some.
ProvidersOrdered ==
    /\ None \notin Providers
    /\ \A ps \in SUBSET Providers : ps # {} => \E p \in ps : \A q \in ps : p <= q

States == {"available", "unavailable", "probing"}

VARIABLES
    rec,        \* _availability_records: the state, and whether there is metadata, without
                \* the provider's labels ("bare") or with them ("full")
    ready,      \* the providers with authority for the session of their metadata
    order,      \* the records in the order of updated_at
    mapped,     \* _record_keys_by_intent
    interest,   \* the intents of _interest_by_config
    plan,       \* what planning_snapshot last said of each intent
    steady,     \* intents whose planned provider has been usable ever since
    left

vars == <<rec, ready, order, mapped, interest, plan, steady, left>>

Plan(kind, p) == [kind |-> kind, with |-> p]
NoRecord == [state |-> "none", meta |-> "none"]

Init ==
    /\ rec = [p \in Providers |-> NoRecord]
    /\ ready = {} /\ order = <<>>
    /\ mapped = [i \in Intents |-> None]
    /\ interest = {} /\ steady = {}
    /\ plan = [i \in Intents |-> Plan("unavailable", None)]
    /\ left = MaxEvents

----------------------------------------------------------------------------
(* Selection *)

\* _record_matches_intent: labels are looked for in the metadata.
Answers(i, p, records) == p \in Admits[i] /\ (records[p].meta = "full" \/ i \notin Labelled)

\* The mapped record is trusted while it has no metadata.
Matches(i, p) ==
    /\ rec[p] # NoRecord
    /\ Answers(i, p, rec) \/ (rec[p].meta = "none" /\ mapped[i] = p)

Available(p) == rec[p].state = "available" /\ rec[p].meta # "none"

\* _planning_record_is_usable, for a lookup that knows of sessions or does not.
Usable(p, sessions) == Available(p) /\ p \in sessions

Pending(p, sessions) ==
    \/ Available(p) /\ p \notin sessions
    \/ rec[p].state = "probing"

First(ps) == CHOOSE p \in ps : \A q \in ps : p <= q

\* Mutant: the first provider that is fresh, whatever was selected before.
SelectedFresh(i, sessions) ==
    LET matching == {p \in Providers : Matches(i, p)}
        fresh == {p \in matching : Usable(p, sessions)}
        pending == {p \in matching : Pending(p, sessions)}
    IN CASE fresh # {} -> First(fresh)
         [] fresh = {} /\ pending # {} -> First(pending)
         [] fresh \union pending = {} /\ matching # {} -> First(matching)
         [] OTHER -> None

\* _selected_planning_record.
Selected(i, sessions) ==
    LET matching == {p \in Providers : Matches(i, p)}
        fresh == {p \in matching : Usable(p, sessions)}
        pending == {p \in matching : Pending(p, sessions)}
    IN CASE mapped[i] \in fresh -> mapped[i]
         [] mapped[i] \notin fresh /\ fresh # {} -> First(fresh)
         [] fresh = {} /\ pending # {} -> First(pending)
         [] fresh \union pending = {} /\ matching # {} -> First(matching)
         [] OTHER -> None

Planned(i) ==
    LET p == Selected(i, ready) IN
    CASE p = None -> Plan("unavailable", None)
      [] p # None /\ Usable(p, ready) -> Plan("bound", p)
      [] p # None /\ Pending(p, ready) -> Plan("pending", p)
      [] OTHER -> Plan("unavailable", p)

StillUsable == {i \in Intents :
    LET p == plan'[i].with IN
    plan'[i].kind = "bound" /\ rec'[p].state = "available" /\ rec'[p].meta # "none" /\ p \in ready'}

Map(i, p) == mapped' = [mapped EXCEPT ![i] = IF p = None THEN @ ELSE p]

----------------------------------------------------------------------------
(* prune *)

Forget(gone) == mapped' = [i \in Intents |-> IF mapped[i] \in gone THEN None ELSE mapped[i]]

\* An interested intent matches whether or not the record is mapped.
Interesting(p, records, wanted) == \E i \in wanted : Answers(i, p, records)

\* Mutant: the interest is not asked.
ReferencedByLife(p, records, live, wanted) == records[p].meta # "none" /\ p \in live

Referenced(p, records, live, wanted) ==
    \/ records[p].meta # "none" /\ p \in live
    \/ Interesting(p, records, wanted)

\* In the order of updated_at, p comes before q.
Before(recent, p, q) ==
    \E m, n \in DOMAIN recent : m < n /\ recent[m] = p /\ recent[n] = q

\* What nobody refers to is kept up to MaxKept, the newest first, and not for ever:
\* the oldest of these have had their time.
Pruned(records, recent, live, wanted) ==
    LET loose == {p \in ToSet(recent) : ~Referenced(p, records, live, wanted)}
    IN \E gone \in SUBSET loose :
         /\ Cardinality(loose \ gone) <= MaxKept
         /\ \A p \in gone, q \in loose \ gone : Before(recent, p, q)
         /\ rec' = [p \in Providers |-> IF p \in gone THEN NoRecord ELSE records[p]]
         /\ order' = SelectSeq(recent, LAMBDA p : p \notin gone)
         /\ Forget(gone)

Event == left > 0 /\ left' = left - 1

----------------------------------------------------------------------------
(* Operations *)

Newest(p) == Append(SelectSeq(order, LAMBDA q : q # p), p)

\* ingest_provider_entries: a view of a session of the provider. An entry that is
\* available and never had a descriptor is not taken.
Ingest(p, state, descriptor) ==
    LET meta == IF descriptor \/ rec[p].meta # "none" THEN "full" ELSE "none" IN
    /\ Event
    /\ state = "available" => meta = "full"
    /\ ready' = ready \union {p}
    /\ Pruned([rec EXCEPT ![p] = [state |-> state, meta |-> meta]], Newest(p), ready', interest)
    /\ UNCHANGED <<interest, plan>>
    /\ steady' = steady \intersect StillUsable

\* The agreement ends: mark_provider_session_unavailable. Or it ends unmarked.
SessionEnds(p) ==
    /\ Event /\ p \in ready
    /\ ready' = ready \ {p}
    /\ \/ /\ rec[p].meta # "none"
          /\ Pruned([rec EXCEPT ![p].state = "unavailable"], Newest(p), ready', interest)
       \/ UNCHANGED <<rec, order, mapped>>
    /\ UNCHANGED <<interest, plan>>
    /\ steady' = steady \intersect StillUsable

\* record_lifecycle_unavailable: the provider rejects a binding that was planned for
\* the intent, and the intent is mapped to what rejected it.  Where there is no metadata,
\* or no record any more, it is made for the session of the binding, without labels.
Rejected(i, p) ==
    LET bare == rec[p].meta = "none" IN
    /\ Event
    /\ rec' = [rec EXCEPT ![p] = [state |-> "unavailable",
                                  meta |-> IF bare THEN "bare" ELSE @.meta]]
    /\ order' = Newest(p)
    /\ Map(i, p)
    /\ ready' \in {ready} \union (IF bare THEN {ready \ {p}} ELSE {})
    /\ UNCHANGED <<interest, plan>>
    /\ steady' = (steady \ {i}) \intersect StillUsable

\* planning_snapshot, of one intent.
PlanIntent(i) ==
    /\ plan' = [plan EXCEPT ![i] = Planned(i)]
    /\ Map(i, Planned(i).with)
    /\ UNCHANGED <<rec, ready, order, interest, left>>
    /\ steady' = (steady \union {i}) \intersect StillUsable

\* record_for_intent: what is drawn for a control; it asks no session.
LookUp(i) ==
    /\ Map(i, Selected(i, Providers))
    /\ UNCHANGED <<rec, ready, order, interest, plan, steady, left>>

\* update_config_interest and clear_config_interest, which prune.
Interest ==
    /\ Event
    /\ interest' \in SUBSET Intents \ {interest}
    /\ Pruned(rec, order, ready, interest')
    /\ UNCHANGED <<ready, plan>>
    /\ steady' = steady \intersect StillUsable

Next ==
    \/ \E p \in Providers :
          \/ \E state \in States, descriptor \in BOOLEAN : Ingest(p, state, descriptor)
          \/ SessionEnds(p)
          \/ \E i \in Intents : p \in Admits[i] /\ Rejected(i, p)
    \/ \E i \in Intents : PlanIntent(i) \/ LookUp(i)
    \/ Interest

Spec == Init /\ [][Next]_vars

----------------------------------------------------------------------------
\* A control is not moved to another provider while the one it was planned with is
\* usable, whatever other providers and lookups do, unless one was rejected for it.
Sticky == [][\A i \in steady : plan'[i] = plan[i]]_plan

\* Every intent is planned with a provider that it admits.
PlannedWithin == \A i \in Intents : plan[i].kind = "bound" => plan[i].with \in Admits[i]

\* The mapping speaks of records that exist.
MappedExists == \A i \in Intents : mapped[i] # None => rec[mapped[i]] # NoRecord

\* Pruning takes nothing away from the controls of a configuration: an intent of
\* interest does not lose the record that it is mapped to and that answers it.
PruneSparesControls ==
    [][\A i \in interest' : mapped[i] # None /\ Matches(i, mapped[i]) =>
          mapped'[i] # None]_mapped
==============================================================================
