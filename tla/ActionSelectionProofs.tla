------------------------- MODULE ActionSelectionProofs -------------------------
(****************************************************************************)
(* What holds of the selection of providers for every set of intents, of    *)
(* numbered providers and of admissions.                                    *)
(****************************************************************************)
EXTENDS ActionSelection, TLAPS

Records == [state : States \union {"none"}, meta : {"none", "bare", "full"}]
Plans == [kind : {"bound", "pending", "unavailable"}, with : Providers \union {None}]

Shapes ==
    /\ rec \in [Providers -> Records]
    /\ \A p \in Providers : rec[p].state = "available" => rec[p].meta = "full"
    /\ mapped \in [Intents -> Providers \union {None}]
    /\ plan \in [Intents -> Plans]
    /\ ready \subseteq Providers /\ interest \subseteq Intents /\ steady \subseteq Intents

\* What an intent may be mapped to: a record there is, with metadata if it asks for
\* labels.
Fits(i, p, records) ==
    /\ p \in Admits[i] /\ records[p] # NoRecord
    /\ records[p].meta # "none" \/ i \notin Labelled

\* An intent is mapped to what it may have, and planned within what it admits.
Justified ==
    \A i \in Intents :
        /\ mapped[i] # None => Fits(i, mapped[i], rec)
        /\ plan[i].kind = "bound" => plan[i].with \in Admits[i]

\* It is mapped to a record that answers it.
Held(i) == mapped[i] # None /\ Matches(i, mapped[i])

\* While its plan is usable, an intent is mapped to what it is planned with.
Kept ==
    \A i \in steady :
        /\ plan[i].kind = "bound" /\ plan[i].with = mapped[i] /\ mapped[i] # None
        /\ Usable(mapped[i], ready)

SelectionInv == Shapes /\ Justified /\ Kept

----------------------------------------------------------------------------
LEMMA FirstIsOne ==
    ASSUME ProvidersOrdered, NEW ps \in SUBSET Providers, ps # {}
    PROVE  First(ps) \in ps
  BY DEF ProvidersOrdered, First

\* What is selected matches.
LEMMA SelectedMatches ==
    ASSUME ProvidersOrdered, NEW i \in Intents, NEW ss, Selected(i, ss) # None
    PROVE  Selected(i, ss) \in Providers /\ Matches(i, Selected(i, ss))
  <1> DEFINE matching == {p \in Providers : Matches(i, p)}
             fresh == {p \in matching : Usable(p, ss)}
             pending == {p \in matching : Pending(p, ss)}
  <1>1. \A ps \in SUBSET matching : ps # {} => First(ps) \in matching
    BY FirstIsOne
  <1>2. fresh \in SUBSET matching /\ pending \in SUBSET matching /\ matching \in SUBSET matching
    OBVIOUS
  <1>3. Selected(i, ss) \in {mapped[i], First(fresh), First(pending), First(matching), None}
    BY DEF Selected
  <1> HIDE DEF matching, fresh, pending
  <1>4. Selected(i, ss) = CASE mapped[i] \in fresh -> mapped[i]
         [] mapped[i] \notin fresh /\ fresh # {} -> First(fresh)
         [] fresh = {} /\ pending # {} -> First(pending)
         [] fresh \union pending = {} /\ matching # {} -> First(matching)
         [] OTHER -> None
    BY DEF Selected, matching, fresh, pending
  <1>5. Selected(i, ss) \in matching
    BY <1>1, <1>2, <1>4
  <1> QED BY <1>5 DEF matching

\* A usable record that an intent is mapped to is selected.
LEMMA UsableIsSelected ==
    ASSUME NEW i \in Intents, NEW ss, Shapes, mapped[i] # None,
           Matches(i, mapped[i]), Usable(mapped[i], ss)
    PROVE  Selected(i, ss) = mapped[i]
  <1>1. mapped[i] \in Providers
    BY DEF Shapes
  <1> QED BY <1>1 DEF Selected

\* What is selected for an intent is what it may have.
LEMMA SelectedFits ==
    ASSUME ProvidersOrdered, Shapes, Justified, NEW i \in Intents, NEW ss,
           Selected(i, ss) # None
    PROVE  Selected(i, ss) \in Providers /\ Fits(i, Selected(i, ss), rec)
  <1>1. Selected(i, ss) \in Providers /\ Matches(i, Selected(i, ss))
    BY SelectedMatches
  <1>2. CASE mapped[i] = Selected(i, ss)
    BY <1>1, <1>2 DEF Justified
  <1>3. CASE mapped[i] # Selected(i, ss)
    BY <1>1, <1>3 DEF Matches, Answers, Fits, Shapes, Records
  <1> QED BY <1>1, <1>2, <1>3

\* Mapping an intent to what was selected for it.
LEMMA MapSelected ==
    ASSUME ProvidersOrdered, SelectionInv, NEW i \in Intents, NEW ss,
           Map(i, Selected(i, ss)), rec' = rec
    PROVE  /\ mapped' \in [Intents -> Providers \union {None}]
           /\ \A j \in Intents : mapped'[j] # None => Fits(j, mapped'[j], rec')
  <1> USE DEF SelectionInv
  <1>1. Selected(i, ss) # None =>
            Selected(i, ss) \in Providers /\ Fits(i, Selected(i, ss), rec)
    BY SelectedFits
  <1>2. mapped' = [mapped EXCEPT ![i] = IF Selected(i, ss) = None THEN @ ELSE Selected(i, ss)]
    BY DEF Map
  <1> HIDE DEF Map
  <1>3. mapped' \in [Intents -> Providers \union {None}]
    BY <1>1, <1>2 DEF Shapes
  <1>4. ASSUME NEW j \in Intents, mapped'[j] # None PROVE Fits(j, mapped'[j], rec)
    <2>1. mapped'[j] = mapped[j] \/ (j = i /\ mapped'[j] = Selected(i, ss))
      BY <1>2 DEF Shapes
    <2> QED BY <1>1, <1>4, <2>1 DEF Justified
  <1> QED BY <1>3, <1>4 DEF Fits

\* Records that stay are not forgotten, and nothing that is of interest goes.
LEMMA PruneKeeps ==
    ASSUME SelectionInv, NEW records \in [Providers -> Records], NEW recent, NEW live, NEW wanted,
           \A i \in Intents, p \in Providers : Fits(i, p, rec) => Fits(i, p, records),
           \A p \in Providers : rec[p].meta = "full" => records[p].meta = "full",
           Pruned(records, recent, live, wanted)
    PROVE  /\ rec' \in [Providers -> Records]
           /\ mapped' \in [Intents -> Providers \union {None}]
           /\ \A i \in Intents : mapped'[i] \in {mapped[i], None}
           /\ \A i \in Intents : mapped'[i] # None => Fits(i, mapped'[i], rec')
           /\ \A i \in Intents : mapped[i] # None /\ rec'[mapped[i]].meta # "none" =>
                  mapped'[i] = mapped[i]
           /\ \A i \in Intents \intersect wanted : Held(i) => mapped'[i] # None
  <1>1. PICK gone :
          /\ \A p \in gone : ~Referenced(p, records, live, wanted)
          /\ rec' = [p \in Providers |-> IF p \in gone THEN NoRecord ELSE records[p]]
          /\ Forget(gone)
    BY DEF Pruned
  <1>2. mapped' = [i \in Intents |-> IF mapped[i] \in gone THEN None ELSE mapped[i]]
    BY <1>1 DEF Forget
  <1>3. rec' \in [Providers -> Records]
    BY <1>1 DEF Records, NoRecord
  <1>4. mapped' \in [Intents -> Providers \union {None}]
        /\ \A i \in Intents : mapped'[i] \in {mapped[i], None}
    BY <1>2 DEF SelectionInv, Shapes
  <1>5. ASSUME NEW i \in Intents, mapped'[i] # None PROVE Fits(i, mapped'[i], rec')
    <2>1. mapped'[i] = mapped[i] /\ mapped[i] \notin gone /\ mapped[i] \in Providers
      BY <1>2, <1>5 DEF SelectionInv, Shapes
    <2>2. Fits(i, mapped[i], records)
      BY <2>1, <1>5 DEF SelectionInv, Justified
    <2> QED BY <1>1, <2>1, <2>2 DEF Fits
  <1>6. ASSUME NEW i \in Intents, mapped[i] # None, rec'[mapped[i]].meta # "none"
        PROVE  mapped'[i] = mapped[i]
    BY <1>1, <1>2, <1>6 DEF SelectionInv, Shapes, NoRecord
  <1>7. ASSUME NEW i \in Intents \intersect wanted, Held(i) PROVE mapped'[i] # None
    <2>1. mapped[i] \in Providers /\ Fits(i, mapped[i], rec)
      BY <1>7 DEF SelectionInv, Shapes, Justified, Held
    <2>2. Answers(i, mapped[i], records)
      BY <1>7, <2>1 DEF Held, Matches, Fits, Answers
    <2>3. Referenced(mapped[i], records, live, wanted)
      BY <1>7, <2>2 DEF Referenced, Interesting
    <2> QED BY <1>1, <1>2, <1>7, <2>3 DEF Held
  <1> QED BY <1>3, <1>4, <1>5, <1>6, <1>7

----------------------------------------------------------------------------
LEMMA InitSelection == Init => SelectionInv
  BY DEF Init, SelectionInv, Shapes, Justified, Kept, Records, Plans, NoRecord, Plan, States, None

\* Where nothing is planned, an intent that stays steady stays mapped.
LEMMA SteadyStays ==
    ASSUME SelectionInv, plan' = plan, steady' \subseteq steady \intersect StillUsable,
           \A i \in steady' : rec'[mapped[i]].meta # "none" => mapped'[i] = mapped[i]
    PROVE  Kept'
  BY DEF SelectionInv, Kept, StillUsable, Usable, Available

\* What is left of the invariant after records were replaced and pruned.
LEMMA PrunedInv ==
    ASSUME SelectionInv, NEW records \in [Providers -> Records], NEW recent,
           \A i \in Intents, p \in Providers : Fits(i, p, rec) => Fits(i, p, records),
           \A p \in Providers : rec[p].meta = "full" => records[p].meta = "full",
           \A p \in Providers : records[p].state = "available" => records[p].meta = "full",
           Pruned(records, recent, ready', interest'),
           ready' \subseteq Providers, interest' \subseteq Intents, plan' = plan,
           steady' \subseteq steady \intersect StillUsable
    PROVE  /\ SelectionInv'
           /\ \A i \in interest' : Held(i) => mapped'[i] # None
  <1>1. /\ rec' \in [Providers -> Records]
        /\ mapped' \in [Intents -> Providers \union {None}]
        /\ \A i \in Intents : mapped'[i] # None => Fits(i, mapped'[i], rec')
        /\ \A i \in Intents : mapped[i] # None /\ rec'[mapped[i]].meta # "none" =>
               mapped'[i] = mapped[i]
        /\ \A i \in Intents \intersect interest' : Held(i) => mapped'[i] # None
    BY PruneKeeps
  <1>2. Shapes'
    <2>1. \A p \in Providers : rec'[p].state = "available" => rec'[p].meta = "full"
      BY DEF Pruned, NoRecord
    <2> QED BY <1>1, <2>1 DEF SelectionInv, Shapes
  <1>3. Justified'
    BY <1>1 DEF SelectionInv, Justified, Fits
  <1>4. Kept'
    BY <1>1, SteadyStays DEF SelectionInv, Shapes, Kept
  <1> QED BY <1>1, <1>2, <1>3, <1>4 DEF SelectionInv

LEMMA IngestKeeps ==
    ASSUME SelectionInv, NEW p \in Providers, NEW state \in States,
           NEW descriptor \in BOOLEAN, Ingest(p, state, descriptor)
    PROVE  SelectionInv' /\ \A i \in interest' : Held(i) => mapped'[i] # None
  <1> DEFINE meta == IF descriptor \/ rec[p].meta # "none" THEN "full" ELSE "none"
             records == [rec EXCEPT ![p] = [state |-> state, meta |-> meta]]
  <1>1. records \in [Providers -> Records]
    BY DEF SelectionInv, Shapes, Records
  <1>2. \A i \in Intents, q \in Providers : Fits(i, q, rec) => Fits(i, q, records)
    BY DEF SelectionInv, Shapes, Records, Fits, NoRecord, States
  <1>5. /\ \A q \in Providers : rec[q].meta = "full" => records[q].meta = "full"
        /\ \A q \in Providers : records[q].state = "available" => records[q].meta = "full"
    BY DEF SelectionInv, Shapes, Ingest
  <1>3. Pruned(records, Newest(p), ready', interest')
    BY DEF Ingest
  <1>4. /\ ready' \subseteq Providers /\ interest' \subseteq Intents /\ plan' = plan
        /\ steady' \subseteq steady \intersect StillUsable
    BY DEF Ingest, SelectionInv, Shapes
  <1> HIDE DEF records
  <1> QED BY <1>1, <1>2, <1>3, <1>4, <1>5, PrunedInv

LEMMA SessionEndsKeeps ==
    ASSUME SelectionInv, NEW p \in Providers, SessionEnds(p)
    PROVE  SelectionInv' /\ \A i \in interest' : Held(i) => mapped'[i] # None
  <1>1. /\ ready' \subseteq Providers /\ interest' \subseteq Intents /\ plan' = plan
        /\ interest' = interest /\ steady' \subseteq steady \intersect StillUsable
    BY DEF SessionEnds, SelectionInv, Shapes
  <1>2. CASE UNCHANGED <<rec, order, mapped>>
    <2>1. Shapes' /\ Justified'
      BY <1>1, <1>2 DEF SelectionInv, Shapes, Justified, Fits
    <2>2. Kept'
      BY <1>1, <1>2, SteadyStays
    <2> QED BY <1>2, <2>1, <2>2 DEF SelectionInv, Held
  <1>3. CASE rec[p].meta # "none" /\ Pruned([rec EXCEPT ![p].state = "unavailable"], Newest(p), ready', interest)
    <2> DEFINE records == [rec EXCEPT ![p].state = "unavailable"]
    <2>1. records \in [Providers -> Records]
      BY DEF SelectionInv, Shapes, Records, States
    <2>2. \A i \in Intents, q \in Providers : Fits(i, q, rec) => Fits(i, q, records)
      BY DEF SelectionInv, Shapes, Records, Fits, NoRecord, States
    <2>3. Pruned(records, Newest(p), ready', interest')
      BY <1>1, <1>3
    <2>4. /\ \A q \in Providers : rec[q].meta = "full" => records[q].meta = "full"
          /\ \A q \in Providers : records[q].state = "available" => records[q].meta = "full"
      BY DEF SelectionInv, Shapes, Records
    <2> HIDE DEF records
    <2> QED BY <1>1, <2>1, <2>2, <2>3, <2>4, PrunedInv
  <1> QED BY <1>2, <1>3 DEF SessionEnds

LEMMA InterestKeeps ==
    ASSUME SelectionInv, Interest
    PROVE  SelectionInv' /\ \A i \in interest' : Held(i) => mapped'[i] # None
  <1>1. /\ rec \in [Providers -> Records]
        /\ \A p \in Providers : rec[p].state = "available" => rec[p].meta = "full"
    BY DEF SelectionInv, Shapes
  <1>2. Pruned(rec, order, ready', interest')
    BY DEF Interest
  <1>3. /\ ready' \subseteq Providers /\ interest' \subseteq Intents /\ plan' = plan
        /\ steady' \subseteq steady \intersect StillUsable
    BY DEF Interest, SelectionInv, Shapes
  <1> QED BY <1>1, <1>2, <1>3, PrunedInv

LEMMA RejectedKeeps ==
    ASSUME ProvidersOrdered, SelectionInv, NEW i \in Intents, NEW p \in Providers,
           p \in Admits[i], Rejected(i, p)
    PROVE  SelectionInv' /\ \A j \in Intents : Held(j) => mapped'[j] # None
  <1>1. p # None
    BY DEF ProvidersOrdered
  <1> DEFINE made == [state |-> "unavailable",
                      meta |-> IF rec[p].meta = "none" THEN "bare" ELSE rec[p].meta]
  <1>2. /\ rec' = [rec EXCEPT ![p] = made]
        /\ mapped' = [mapped EXCEPT ![i] = p]
        /\ ready' \subseteq ready /\ interest' = interest /\ plan' = plan
        /\ steady' = (steady \ {i}) \intersect StillUsable
    BY <1>1 DEF Rejected, Map, SelectionInv, Shapes
  <1>3. /\ rec' \in [Providers -> Records]
        /\ \A q \in Providers : rec'[q].state = "available" => rec'[q].meta = "full"
    BY <1>2 DEF SelectionInv, Shapes, Records, States
  <1>4. mapped' \in [Intents -> Providers \union {None}]
    BY <1>2 DEF SelectionInv, Shapes
  <1>5. Shapes'
    BY <1>2, <1>3, <1>4 DEF SelectionInv, Shapes
  <1>6. Justified'
    <2>1. \A j \in Intents : Fits(j, mapped[j], rec) /\ mapped[j] \in Providers
                                 => Fits(j, mapped[j], rec')
      BY <1>2 DEF SelectionInv, Shapes, Records, Fits, NoRecord, States
    <2>2. Fits(i, p, rec')
      BY <1>2 DEF SelectionInv, Shapes, Fits, NoRecord
    <2>3. \A j \in Intents : mapped'[j] # None => Fits(j, mapped'[j], rec')
      BY <1>2, <2>1, <2>2 DEF SelectionInv, Shapes, Justified
    <2> QED BY <1>2, <2>3 DEF SelectionInv, Justified, Fits
  <1>7. Kept'
    BY <1>2, SteadyStays DEF SelectionInv, Shapes
  <1>8. \A j \in Intents : Held(j) => mapped'[j] # None
    BY <1>1, <1>2 DEF SelectionInv, Shapes, Held
  <1> QED BY <1>5, <1>6, <1>7, <1>8 DEF SelectionInv

LEMMA PlanIntentKeeps ==
    ASSUME ProvidersOrdered, SelectionInv, NEW i \in Intents, PlanIntent(i)
    PROVE  /\ SelectionInv'
           /\ \A j \in Intents : Held(j) => mapped'[j] # None
           /\ \A j \in steady : plan'[j] = plan[j]
  <1> DEFINE p == Selected(i, ready)
  <1>1. p # None => p \in Providers /\ Fits(i, p, rec)
    BY SelectedFits DEF SelectionInv
  <1>2. Planned(i) \in Plans /\ Planned(i).with = p
        /\ (Planned(i).kind = "bound" => p # None /\ Usable(p, ready))
    BY <1>1 DEF Planned, Plan, Plans
  <1>3. /\ plan' = [plan EXCEPT ![i] = Planned(i)] /\ Map(i, p)
        /\ rec' = rec /\ ready' = ready /\ interest' = interest
        /\ steady' = (steady \union {i}) \intersect StillUsable
    BY <1>2 DEF PlanIntent
  <1>4. mapped' = [mapped EXCEPT ![i] = IF p = None THEN mapped[i] ELSE p]
    BY <1>3 DEF Map, SelectionInv, Shapes
  <1>5. /\ mapped' \in [Intents -> Providers \union {None}]
        /\ \A j \in Intents : mapped'[j] # None => Fits(j, mapped'[j], rec')
    BY <1>3, MapSelected
  <1>6. \A j \in steady : plan'[j] = plan[j]
    <2> SUFFICES ASSUME i \in steady PROVE Planned(i) = plan[i]
      BY <1>3 DEF SelectionInv, Shapes
    <2>1. /\ plan[i].kind = "bound" /\ plan[i].with = mapped[i] /\ mapped[i] # None
          /\ Usable(mapped[i], ready)
      BY DEF SelectionInv, Kept
    <2>2. Matches(i, mapped[i])
      BY <2>1 DEF SelectionInv, Shapes, Justified, Fits, Matches, Answers, Usable, Available
    <2>3. p = mapped[i]
      BY <2>1, <2>2, UsableIsSelected DEF SelectionInv
    <2>4. Planned(i) = Plan("bound", mapped[i])
      BY <2>1, <2>3 DEF Planned, Usable, Available, Pending
    <2>5. plan[i] \in Plans
      BY DEF SelectionInv, Shapes
    <2> QED BY <2>1, <2>4, <2>5 DEF Plan, Plans
  <1> HIDE DEF p
  <1>7. Shapes'
    BY <1>2, <1>3, <1>5 DEF SelectionInv, Shapes
  <1>8. Justified'
    BY <1>1, <1>2, <1>3, <1>5 DEF SelectionInv, Shapes, Justified, Fits
  <1>9. Kept'
    <2> SUFFICES ASSUME NEW j \in Intents, j \in steady'
                 PROVE  /\ plan'[j].kind = "bound" /\ plan'[j].with = mapped'[j]
                        /\ mapped'[j] # None /\ rec'[mapped'[j]].state = "available"
                        /\ rec'[mapped'[j]].meta # "none" /\ mapped'[j] \in ready'
      BY <1>7 DEF Kept, Usable, Available, Shapes
    <2>1. CASE j = i
      BY <1>2, <1>3, <1>4, <2>1 DEF SelectionInv, Shapes, StillUsable, Usable, Available
    <2>2. CASE j # i
      BY <1>3, <1>4, <2>2 DEF SelectionInv, Shapes, Kept, Usable, Available
    <2> QED BY <2>1, <2>2
  <1>10. \A j \in Intents : Held(j) => mapped'[j] # None
    BY <1>4 DEF Held, SelectionInv, Shapes
  <1> QED BY <1>6, <1>7, <1>8, <1>9, <1>10 DEF SelectionInv

LEMMA LookUpKeeps ==
    ASSUME ProvidersOrdered, SelectionInv, NEW i \in Intents, LookUp(i)
    PROVE  SelectionInv' /\ \A j \in Intents : Held(j) => mapped'[j] # None
  <1> DEFINE p == Selected(i, Providers)
  <1>1. UNCHANGED <<rec, ready, interest, plan, steady>> /\ Map(i, p)
    BY DEF LookUp
  <1>2. mapped' = [mapped EXCEPT ![i] = IF p = None THEN mapped[i] ELSE p]
    BY <1>1 DEF Map, SelectionInv, Shapes
  <1>3. /\ mapped' \in [Intents -> Providers \union {None}]
        /\ \A j \in Intents : mapped'[j] # None => Fits(j, mapped'[j], rec')
    BY <1>1, MapSelected
  <1>4. \A j \in steady : mapped'[j] = mapped[j]
    <2> SUFFICES ASSUME i \in steady PROVE p = mapped[i]
      BY <1>2 DEF SelectionInv, Shapes
    <2>1. mapped[i] # None /\ Usable(mapped[i], ready)
      BY DEF SelectionInv, Kept
    <2>2. Matches(i, mapped[i])
      BY <2>1 DEF SelectionInv, Shapes, Justified, Fits, Matches, Answers, Usable, Available
    <2>3. Usable(mapped[i], Providers)
      BY <2>1 DEF SelectionInv, Shapes, Usable
    <2> QED BY <2>1, <2>2, <2>3, UsableIsSelected DEF SelectionInv
  <1> HIDE DEF p
  <1>5. Shapes' /\ Justified'
    BY <1>1, <1>3 DEF SelectionInv, Shapes, Justified
  <1>6. Kept'
    BY <1>1, <1>4 DEF SelectionInv, Kept, Usable, Available
  <1>7. \A j \in Intents : Held(j) => mapped'[j] # None
    BY <1>2 DEF Held, SelectionInv, Shapes
  <1> QED BY <1>5, <1>6, <1>7 DEF SelectionInv

\* One step keeps the invariant, the plans of steady intents, and the mappings of
\* interesting ones.
LEMMA NextSelection ==
    ASSUME ProvidersOrdered, SelectionInv, [Next]_vars
    PROVE  /\ SelectionInv'
           /\ \A i \in interest' : Held(i) => mapped'[i] # None
           /\ \A i \in steady : plan'[i] = plan[i]
  <1> DEFINE Holds ==
                     /\ SelectionInv'
                     /\ \A i \in interest' : Held(i) => mapped'[i] # None
                     /\ \A i \in steady : plan'[i] = plan[i]
  <1>1. ASSUME NEW p \in Providers, NEW state \in States, NEW descriptor \in BOOLEAN,
               Ingest(p, state, descriptor)
        PROVE  Holds
    BY <1>1, IngestKeeps DEF Ingest
  <1>2. ASSUME NEW p \in Providers, SessionEnds(p) PROVE Holds
    BY <1>2, SessionEndsKeeps DEF SessionEnds
  <1>3. ASSUME NEW p \in Providers, NEW i \in Intents, p \in Admits[i], Rejected(i, p)
        PROVE  Holds
    BY <1>3, RejectedKeeps DEF Rejected, SelectionInv, Shapes
  <1>4. ASSUME NEW i \in Intents, PlanIntent(i) PROVE Holds
    BY <1>4, PlanIntentKeeps DEF SelectionInv, Shapes
  <1>5. ASSUME NEW i \in Intents, LookUp(i) PROVE Holds
    BY <1>5, LookUpKeeps DEF LookUp, SelectionInv, Shapes
  <1>6. ASSUME Interest PROVE Holds
    BY <1>6, InterestKeeps DEF Interest
  <1>7. ASSUME UNCHANGED vars PROVE Holds
    BY <1>7 DEF vars, SelectionInv, Shapes, Justified, Kept, Fits, Usable, Available, Held
  <1> HIDE DEF Holds
  <1>8. ASSUME Next PROVE Holds
    BY <1>1, <1>2, <1>3, <1>4, <1>5, <1>6, <1>8 DEF Next
  <1>9. Holds
    BY <1>7, <1>8
  <1> QED BY <1>9 DEF Holds

\* The inductive invariant, for all providers that are ordered.
THEOREM SelectionInvariant ==
    ASSUME ProvidersOrdered
    PROVE  Spec => []SelectionInv
  <1>1. SelectionInv /\ [Next]_vars => SelectionInv'
    BY NextSelection
  <1> QED BY <1>1, InitSelection, PTL DEF Spec

\* Every intent is planned with a provider that it admits (_record_matches_intent).
THEOREM SelectionIsWithin ==
    ASSUME ProvidersOrdered
    PROVE  Spec => []PlannedWithin
  <1>1. SelectionInv => PlannedWithin
    BY DEF SelectionInv, Justified, PlannedWithin
  <1> QED BY <1>1, SelectionInvariant, PTL

\* The mapping speaks of records that exist (prune).
THEOREM MappingExists ==
    ASSUME ProvidersOrdered
    PROVE  Spec => []MappedExists
  <1>1. SelectionInv => MappedExists
    BY DEF SelectionInv, Justified, MappedExists, Fits
  <1> QED BY <1>1, SelectionInvariant, PTL

\* A control keeps its provider while that is usable (_selected_planning_record).
THEOREM SelectionIsSticky ==
    ASSUME ProvidersOrdered
    PROVE  Spec => Sticky
  <1>1. SelectionInv /\ [Next]_vars => [\A i \in steady : plan'[i] = plan[i]]_plan
    BY NextSelection
  <1> QED BY <1>1, SelectionInvariant, PTL DEF Spec, Sticky

\* Pruning spares the records that interesting intents are mapped to (prune).
THEOREM PruningSparesControls ==
    ASSUME ProvidersOrdered
    PROVE  Spec => PruneSparesControls
  <1>1. SelectionInv /\ [Next]_vars =>
            [\A i \in interest' : mapped[i] # None /\ Matches(i, mapped[i]) =>
                mapped'[i] # None]_mapped
    BY NextSelection DEF Held
  <1> QED BY <1>1, SelectionInvariant, PTL DEF Spec, PruneSparesControls
================================================================================
