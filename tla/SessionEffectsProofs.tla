------------------------ MODULE SessionEffectsProofs ------------------------
(* Proofs about SessionEffects for any set of resources and any capacity.    *)
(* The wakeup argument: a preparation is deferred only while the ordinary    *)
(* reserve is exactly full, so an ordinary effect must end before anything   *)
(* else is admitted, and whoever ends it finds the callback registered.      *)
EXTENDS SessionEffects, FiniteSetTheorems, TLAPS

\* The cleanup effects of a queue are at most the effects of the queue.
LEMMA CleanupsBound ==
    ASSUME NEW q \in Seq(Classes)
    PROVE  /\ Cleanups(q) \in Nat
           /\ Cleanups(q) <= Len(q)
           /\ Len(q) \in Nat
  <1>1. DOMAIN q = 1..Len(q) /\ Len(q) \in Nat
    OBVIOUS
  <1>2. IsFiniteSet(1..Len(q)) /\ Cardinality(1..Len(q)) = Len(q)
    BY <1>1, FS_Interval
  <1>3. {i \in DOMAIN q : q[i] = "cleanup"} \subseteq 1..Len(q)
    BY <1>1
  <1> QED
    BY <1>1, <1>2, <1>3, FS_Subset, FS_CardinalityType DEF Cleanups

\* The session starts with nothing queued and nothing deferred.
LEMMA WakeupInvInit == EffectsInit => WakeupInv
  <1> SUFFICES ASSUME EffectsInit PROVE WakeupInv
    OBVIOUS
  <1>1. <<>> \in Seq(Classes)
    OBVIOUS
  <1>2. EffectsTypeOK
    <2>1. queues \in [Resources -> Seq(Classes)]
      BY <1>1 DEF EffectsInit
    <2>2. runner \in [Resources -> {"none", "running", "notifying"}]
      BY DEF EffectsInit
    <2>3. count \in Int /\ cleanupCount \in Int
      BY DEF EffectsInit
    <2>4. callback \in BOOLEAN /\ notifying \in BOOLEAN /\ idle \in BOOLEAN
          /\ deferred \subseteq Resources /\ scope \in {"open", "cancelled", "closed"}
      BY Zenon DEF EffectsInit
    <2> QED
      BY <2>1, <2>2, <2>3, <2>4 DEF EffectsTypeOK
  <1>3. RunnersBusy /\ Bounded
    BY EffectsAssumption DEF EffectsInit, RunnersBusy, Bounded, Ordinary
  <1>4. OneNotifier
    BY DEF EffectsInit, OneNotifier
  <1>5. NoLostWakeup
    BY DEF EffectsInit, NoLostWakeup
  <1> QED
    BY <1>2, <1>3, <1>4, <1>5 DEF WakeupInv

\* Admission of one effect keeps everything but the reserve's count as it is.
LEMMA AdmitTyped ==
    ASSUME WakeupInv, NEW r \in Resources, NEW class \in Classes, Admit(r, class)
    PROVE  /\ queues' \in [Resources -> Seq(Classes)]
           /\ runner' \in [Resources -> {"none", "running", "notifying"}]
           /\ count' \in Int /\ cleanupCount' \in Int /\ idle' \in BOOLEAN
           /\ RunnersBusy'
           /\ \A s \in Resources : runner'[s] = "notifying" <=> runner[s] = "notifying"
           /\ Ordinary' = IF class = "ordinary" THEN Ordinary + 1 ELSE Ordinary
           /\ cleanupCount' = IF class = "cleanup" THEN cleanupCount + 1 ELSE cleanupCount
  <1>1. \A s \in Resources : queues'[s] = IF s = r THEN Append(queues[r], class) ELSE queues[s]
    BY DEF Admit, WakeupInv, EffectsTypeOK
  <1>2. Append(queues[r], class) \in Seq(Classes) /\ Append(queues[r], class) # <<>>
    BY DEF WakeupInv, EffectsTypeOK
  <1>3. \A s \in Resources : runner'[s] = IF s = r /\ runner[r] = "none" THEN "running" ELSE runner[s]
    BY DEF Admit, WakeupInv, EffectsTypeOK
  <1>4. RunnersBusy'
    BY <1>1, <1>2, <1>3 DEF WakeupInv, RunnersBusy, EffectsTypeOK
  <1>5. queues' \in [Resources -> Seq(Classes)]
    BY <1>2 DEF Admit, WakeupInv, EffectsTypeOK
  <1>6. count \in Int /\ cleanupCount \in Int /\ idle \in BOOLEAN
    BY DEF WakeupInv, EffectsTypeOK
  <1>7. /\ count' \in Int /\ cleanupCount' \in Int /\ idle' \in BOOLEAN
        /\ Ordinary' = IF class = "ordinary" THEN Ordinary + 1 ELSE Ordinary
        /\ cleanupCount' = IF class = "cleanup" THEN cleanupCount + 1 ELSE cleanupCount
    <2>1. /\ count' = count + 1
          /\ cleanupCount' = cleanupCount + Weight(class)
          /\ idle' \in BOOLEAN
      BY <1>6 DEF Admit
    <2>2. CASE class = "cleanup"
      BY <1>6, <2>1, <2>2 DEF Weight, Ordinary
    <2>3. CASE class = "ordinary"
      BY <1>6, <2>1, <2>3 DEF Weight, Ordinary
    <2> QED
      BY <2>2, <2>3 DEF Classes
  <1>8. runner' \in [Resources -> {"none", "running", "notifying"}]
    BY DEF Admit, WakeupInv, EffectsTypeOK
  <1>9. \A s \in Resources : runner'[s] = "notifying" <=> runner[s] = "notifying"
    BY <1>3
  <1> QED
    BY <1>4, <1>5, <1>7, <1>8, <1>9

\* A runner that goes on or ends after an effect or the callback.
LEMMA ContinueTyped ==
    ASSUME WakeupInv, NEW r \in Resources, NEW q \in Seq(Classes), NEW n, NEW b,
           ContinueOrEnd(r, q, n, b)
    PROVE  /\ runner' \in [Resources -> {"none", "running", "notifying"}]
           /\ idle' \in BOOLEAN
           /\ runner'[r] # "notifying"
           /\ runner'[r] = "running" => q # <<>>
           /\ \A s \in Resources \ {r} : runner'[s] = runner[s]
  BY DEF ContinueOrEnd, WakeupInv, EffectsTypeOK

\* Every step of the effects, in every state of the queues, preserves WakeupInv.
LEMMA WakeupInvStep == WakeupInv /\ [EffectsNext]_effects => WakeupInv'
  <1> SUFFICES ASSUME WakeupInv, [EffectsNext]_effects
               PROVE  WakeupInv'
    OBVIOUS
  <1> USE EffectsAssumption
  <1>0. EffectsTypeOK /\ RunnersBusy /\ Bounded /\ OneNotifier /\ NoLostWakeup
    BY DEF WakeupInv
  <1>a. count \in Int /\ cleanupCount \in Int /\ Ordinary \in Int
    BY <1>0 DEF EffectsTypeOK, Ordinary
  <1>1. ASSUME NEW r \in Resources, NEW class \in Classes, Submit(r, class)
        PROVE  WakeupInv'
    <2>1. Admit(r, class) /\ Used(class) < Capacity
      BY <1>1 DEF Submit, Accepts
    <2>2. EffectsTypeOK' /\ RunnersBusy'
      BY <1>0, <1>1, <2>1, AdmitTyped DEF Submit, EffectsTypeOK
    <2>3. Bounded'
      BY <1>0, <2>1, AdmitTyped DEF Bounded, Used, Classes, EffectsTypeOK, Ordinary
    <2>4. OneNotifier'
      BY <1>0, <1>1, <2>1, AdmitTyped DEF Submit, OneNotifier
    <2>5. NoLostWakeup'
      BY <1>0, <1>1, <2>1, AdmitTyped DEF Submit, NoLostWakeup, Used, Classes
    <2> QED
      BY <2>2, <2>3, <2>4, <2>5 DEF WakeupInv
  <1>2. ASSUME NEW r \in Resources, Prepare(r) PROVE WakeupInv'
    <2>1. Admit(r, "ordinary") /\ Ordinary < Capacity /\ "ordinary" \in Classes
      BY <1>2 DEF Prepare, Accepts, Used, Classes
    <2>2. EffectsTypeOK' /\ RunnersBusy'
      BY <1>0, <1>2, <2>1, AdmitTyped DEF Prepare, EffectsTypeOK
    <2>3. Bounded'
      <3>1. Ordinary' = Ordinary + 1 /\ cleanupCount' = cleanupCount
        BY <2>1, AdmitTyped
      <3> QED
        BY <1>0, <1>a, <2>1, <3>1 DEF Bounded
    <2>4. OneNotifier'
      BY <1>0, <1>2, <2>1, AdmitTyped DEF Prepare, OneNotifier
    <2>5. NoLostWakeup'
      BY <1>0, <1>2, <2>1, AdmitTyped DEF Prepare, NoLostWakeup
    <2> QED
      BY <2>2, <2>3, <2>4, <2>5 DEF WakeupInv
  <1>3. ASSUME NEW r \in Resources, Defer(r) PROVE WakeupInv'
    <2>1. Ordinary' = Ordinary /\ EffectsTypeOK' /\ RunnersBusy' /\ Bounded' /\ OneNotifier'
      BY <1>0, <1>3 DEF Defer, EffectsTypeOK, RunnersBusy, Bounded, OneNotifier, Ordinary
    <2>2. scope = "open" => Ordinary = Capacity
      BY <1>0, <1>3 DEF Defer, Accepts, Startable, Used, Bounded, EffectsTypeOK, Ordinary
    <2>3. NoLostWakeup'
      BY <1>3, <2>1, <2>2 DEF Defer, NoLostWakeup
    <2> QED
      BY <2>1, <2>3 DEF WakeupInv
  <1>4. ASSUME NEW r \in Resources, Retire(r) PROVE WakeupInv'
    BY <1>0, <1>4
    DEF Retire, WakeupInv, EffectsTypeOK, RunnersBusy, Bounded, OneNotifier, NoLostWakeup, Ordinary
  <1>5. ASSUME NEW r \in Resources, Finish(r) PROVE WakeupInv'
    <2> DEFINE k == cleanupCount - Weight(Head(queues[r]))
               q == Tail(queues[r])
    <2>1. q \in Seq(Classes) /\ queues[r] # <<>>
      BY <1>0, <1>5 DEF Finish, RunnersBusy, EffectsTypeOK
    <2>2. Weight(Head(queues[r])) \in {0, 1}
      BY DEF Weight
    <2>3. queues' = [queues EXCEPT ![r] = q] /\ count' = count - 1 /\ cleanupCount' = k
          /\ deferred' = deferred /\ scope' = scope
      BY <1>5 DEF Finish
    <2>4. Ordinary' \in {Ordinary, Ordinary - 1} /\ count' \in Int /\ cleanupCount' \in Int
          /\ cleanupCount' <= cleanupCount
      BY <1>0, <2>2, <2>3 DEF EffectsTypeOK, Ordinary
    <2>5. Bounded'
      BY <1>0, <1>a, <2>4 DEF Bounded
    <2>6. \A s \in Resources : queues'[s] = IF s = r THEN q ELSE queues[s]
      BY <1>0, <2>3 DEF EffectsTypeOK
    <2>7. queues' \in [Resources -> Seq(Classes)]
      BY <1>0, <2>1, <2>3 DEF EffectsTypeOK
    <2>8. runner[r] = "running"
      BY <1>5 DEF Finish
    <2>9. CASE callback /\ ~notifying /\ Ordinary' < Capacity
      <3>1. runner' = [runner EXCEPT ![r] = "notifying"] /\ callback' = FALSE
            /\ notifying' = TRUE /\ idle' = idle
        BY <1>5, <2>3, <2>9 DEF Finish, Ordinary
      <3>2. EffectsTypeOK'
        BY <1>0, <2>3, <2>4, <2>7, <3>1 DEF EffectsTypeOK
      <3>3. RunnersBusy'
        BY <1>0, <2>6, <3>1 DEF RunnersBusy, EffectsTypeOK
      <3>4. OneNotifier'
        BY <1>0, <2>9, <3>1 DEF OneNotifier, EffectsTypeOK
      <3> QED
        BY <2>5, <3>1, <3>2, <3>3, <3>4 DEF WakeupInv, NoLostWakeup
    <2>10. CASE ~(callback /\ ~notifying /\ Ordinary' < Capacity)
      <3>1. ContinueOrEnd(r, q, count - 1, notifying) /\ callback' = callback
            /\ notifying' = notifying
        BY <1>5, <2>3, <2>10 DEF Finish, Ordinary
      <3>2. /\ runner' \in [Resources -> {"none", "running", "notifying"}]
            /\ idle' \in BOOLEAN
            /\ runner'[r] # "notifying"
            /\ runner'[r] = "running" => q # <<>>
            /\ \A s \in Resources \ {r} : runner'[s] = runner[s]
        BY <2>1, <3>1, ContinueTyped
      <3>3. EffectsTypeOK'
        BY <1>0, <2>3, <2>4, <2>7, <3>1, <3>2 DEF EffectsTypeOK
      <3>4. RunnersBusy'
        BY <1>0, <2>6, <3>2 DEF RunnersBusy
      <3>5. OneNotifier'
        BY <1>0, <2>8, <3>1, <3>2 DEF OneNotifier
      <3>6. NoLostWakeup'
        BY <1>0, <2>3, <2>4, <2>10, <3>1 DEF NoLostWakeup, Bounded, EffectsTypeOK, Ordinary
      <3> QED
        BY <2>5, <3>3, <3>4, <3>5, <3>6 DEF WakeupInv
    <2> QED
      BY <2>9, <2>10
  <1>6. ASSUME NEW r \in Resources, Resume(r) PROVE WakeupInv'
    <2>1. PICK accepted \in SUBSET deferred :
            /\ AdmittedNow(accepted)
            /\ queues' = [s \in Resources |->
                            IF s \in accepted THEN Append(queues[s], "ordinary")
                                              ELSE queues[s]]
            /\ count' = count + Cardinality(accepted)
            /\ runner' = [s \in Resources |->
                  IF s = r
                    THEN IF (IF r \in accepted THEN Append(queues[r], "ordinary")
                                               ELSE queues[r]) = <<>>
                           THEN "none" ELSE "running"
                    ELSE IF s \in accepted /\ runner[s] = "none"
                           THEN "running" ELSE runner[s]]
            /\ idle' \in BOOLEAN
            /\ deferred' = deferred \ accepted
            /\ callback' = (callback \/ accepted # deferred)
      BY <1>0, <1>6 DEF Resume, EffectsTypeOK
    <2>2. notifying' = FALSE /\ cleanupCount' = cleanupCount /\ scope' = scope
          /\ runner[r] = "notifying"
      BY <1>6 DEF Resume
    <2>3. /\ IsFiniteSet(deferred)
          /\ Cardinality(deferred) \in Nat /\ Cardinality(accepted) \in Nat
          /\ Cardinality(accepted) = Cardinality(deferred) => accepted = deferred
      BY <1>0, FS_Subset, FS_CardinalityType DEF EffectsTypeOK
    <2>4. /\ Ordinary' = Ordinary + Cardinality(accepted)
          /\ count' \in Int
      BY <1>0, <2>1, <2>2, <2>3 DEF Ordinary, EffectsTypeOK
    <2>5. Ordinary' <= Capacity /\ (accepted # deferred => Ordinary' = Capacity)
      BY <1>0, <2>1, <2>3, <2>4 DEF AdmittedNow, Bounded, EffectsTypeOK, Ordinary
    <2>6. \A s \in Resources : Append(queues[s], "ordinary") \in Seq(Classes)
                               /\ Append(queues[s], "ordinary") # <<>>
      <3> SUFFICES ASSUME NEW s \in Resources
                   PROVE  /\ Append(queues[s], "ordinary") \in Seq(Classes)
                          /\ Append(queues[s], "ordinary") # <<>>
        OBVIOUS
      <3>1. queues[s] \in Seq(Classes) /\ "ordinary" \in Classes
        BY <1>0 DEF EffectsTypeOK, Classes
      <3> QED
        BY <3>1
    <2>7. EffectsTypeOK'
      BY <1>0, <2>1, <2>2, <2>4, <2>6 DEF EffectsTypeOK
    <2>8. RunnersBusy'
      BY <1>0, <2>1, <2>6 DEF RunnersBusy
    <2>9. OneNotifier'
      <3>1. \A s \in Resources : runner'[s] # "notifying"
        BY <1>0, <2>1, <2>2 DEF OneNotifier
      <3> QED
        BY <2>2, <3>1 DEF OneNotifier
    <2>10. Bounded'
      BY <1>0, <2>2, <2>5 DEF Bounded
    <2>11. NoLostWakeup'
      BY <2>1, <2>5 DEF NoLostWakeup
    <2> QED
      BY <2>7, <2>8, <2>9, <2>10, <2>11 DEF WakeupInv
  <1>7. ASSUME NEW r \in Resources, ResumeWithoutHardware(r) PROVE WakeupInv'
    <2>1. /\ ContinueOrEnd(r, queues[r], count, FALSE) /\ queues[r] \in Seq(Classes)
          /\ runner[r] = "notifying"
      BY <1>0, <1>7 DEF ResumeWithoutHardware, EffectsTypeOK
    <2>2. /\ runner' \in [Resources -> {"none", "running", "notifying"}]
          /\ idle' \in BOOLEAN
          /\ runner'[r] # "notifying"
          /\ runner'[r] = "running" => queues[r] # <<>>
          /\ \A s \in Resources \ {r} : runner'[s] = runner[s]
      BY <2>1, ContinueTyped
    <2>3. /\ queues' = queues /\ count' = count /\ cleanupCount' = cleanupCount
          /\ callback' = callback /\ scope' = scope /\ notifying' = FALSE /\ deferred' = {}
      BY <1>7 DEF ResumeWithoutHardware
    <2>4. EffectsTypeOK' /\ RunnersBusy'
      BY <1>0, <2>2, <2>3 DEF EffectsTypeOK, RunnersBusy
    <2>5. \A s \in Resources : runner'[s] # "notifying"
      BY <1>0, <2>1, <2>2 DEF OneNotifier
    <2> QED
      BY <1>0, <2>3, <2>4, <2>5 DEF WakeupInv, Bounded, OneNotifier, NoLostWakeup, Ordinary
  <1>8. ASSUME NEW r \in Resources, Unwind(r) PROVE WakeupInv'
    <2>1. queues[r] \in Seq(Classes) /\ <<>> \in Seq(Classes)
      BY <1>0, <1>8 DEF EffectsTypeOK
    <2>2. /\ Cleanups(queues[r]) \in Nat /\ Len(queues[r]) \in Nat
          /\ Cleanups(queues[r]) <= Len(queues[r])
      BY <2>1, CleanupsBound
    <2>3. Bounded' /\ count' \in Int /\ cleanupCount' \in Int
      BY <1>0, <1>8, <2>2 DEF Unwind, Bounded, Ordinary, EffectsTypeOK
    <2>4. \A s \in Resources : runner'[s] = IF s = r THEN "none" ELSE runner[s]
      BY <1>0, <1>8 DEF Unwind, EffectsTypeOK
    <2>5. runner' \in [Resources -> {"none", "running", "notifying"}]
          /\ queues' \in [Resources -> Seq(Classes)]
      BY <1>0, <1>8, <2>1 DEF Unwind, EffectsTypeOK
    <2>6. idle' \in BOOLEAN /\ notifying' \in BOOLEAN
      BY <1>0, <1>8 DEF Unwind, EffectsTypeOK
    <2>7. EffectsTypeOK'
      BY <1>0, <1>8, <2>3, <2>5, <2>6 DEF Unwind, EffectsTypeOK
    <2>8. RunnersBusy'
      BY <1>0, <1>8, <2>4 DEF Unwind, RunnersBusy, EffectsTypeOK
    <2>9. OneNotifier'
      BY <1>0, <1>8, <2>4 DEF Unwind, OneNotifier, EffectsTypeOK
    <2> QED
      BY <1>8, <2>3, <2>7, <2>8, <2>9 DEF Unwind, WakeupInv, NoLostWakeup
  <1>9. CASE CancelScope \/ CloseScope
    BY <1>0, <1>9
    DEF CancelScope, CloseScope, WakeupInv, EffectsTypeOK, RunnersBusy, Bounded, OneNotifier,
        NoLostWakeup, Ordinary
  <1>10. CASE UNCHANGED effects
    BY <1>0, <1>10
    DEF effects, WakeupInv, EffectsTypeOK, RunnersBusy, Bounded, OneNotifier, NoLostWakeup, Ordinary
  <1> QED
    BY <1>1, <1>2, <1>3, <1>4, <1>5, <1>6, <1>7, <1>8, <1>9, <1>10 DEF EffectsNext

\* The counters, runners and callback of _session_effects.py stay consistent
\* for any number of action instances and any capacity.
THEOREM WakeupInvariant == EffectsSpec => []WakeupInv
  <1> QED
    BY WakeupInvInit, WakeupInvStep, PTL DEF EffectsSpec

\* A refused preparation always finds its wakeup: while nobody is in the
\* callback the reserve is full and the callback is registered.
THEOREM WakeupIsNeverLost == EffectsSpec => []NoLostWakeup
  <1>1. WakeupInv => NoLostWakeup
    BY DEF WakeupInv
  <1> QED
    BY <1>1, WakeupInvariant, PTL
----------------------------------------------------------------------------
(* What the queues hold, counted.  A piece of work is its resource and its  *)
(* place in the queue, so that every change of the queues is a bijection,   *)
(* a union or a difference of finite sets.                                  *)

\* The work of one class in queues f, as EffectReserves counts it.
Items(f, class) ==
    UNION {{<<r, i>> : i \in {j \in DOMAIN f[r] : f[r][j] = class}} : r \in Resources}

Queues == [Resources -> Seq(Classes)]

\* Sets in a one-to-one correspondence have the same number of elements.
LEMMA SameSize ==
    ASSUME NEW S, NEW T, IsFiniteSet(S), NEW F \in [S -> T],
           \A x, y \in S : F[x] = F[y] => x = y,
           \A t \in T : \E x \in S : F[x] = t
    PROVE  IsFiniteSet(T) /\ Cardinality(T) = Cardinality(S)
  <1>1. F \in Bijection(S, T)
    BY Zenon DEF Bijection, Injection, Surjection, IsInjective
  <1> QED
    BY <1>1, FS_Bijection DEF ExistsBijection

\* The values of a function on a finite set are finitely many.
LEMMA ValuesFinite ==
    ASSUME NEW S, NEW T, IsFiniteSet(S), NEW F \in [S -> T],
           \A t \in T : \E x \in S : F[x] = t
    PROVE  IsFiniteSet(T)
  <1>1. F \in Surjection(S, T)
    BY Zenon DEF Surjection
  <1> QED
    BY <1>1, FS_Surjection

\* The work at place i of resource r is of this class.
At(f, class, r, i) == r \in Resources /\ i \in DOMAIN f[r] /\ f[r][i] = class

\* What it is to be a piece of work in the queues.
LEMMA ItemsMember ==
    ASSUME NEW f, NEW class, NEW r, NEW i
    PROVE  <<r, i>> \in Items(f, class) <=> At(f, class, r, i)
  BY DEF Items, At

\* The same, in each direction.
LEMMA WorkIsItem ==
    ASSUME NEW f, NEW class, NEW r \in Resources, NEW i, i \in DOMAIN f[r], f[r][i] = class
    PROVE  <<r, i>> \in Items(f, class)
  BY ItemsMember DEF At

\* A piece of work of the queues has a place of its class.
LEMMA ItemIsWork ==
    ASSUME NEW f, NEW class, NEW r, NEW i, <<r, i>> \in Items(f, class)
    PROVE  r \in Resources /\ i \in DOMAIN f[r] /\ f[r][i] = class
  <1>1. At(f, class, r, i)
    BY ItemsMember
  <1> QED
    BY <1>1 DEF At

\* A piece of work is nothing but a resource and a place.
LEMMA ItemsArePairs ==
    ASSUME NEW f, NEW class, NEW w \in Items(f, class)
    PROVE  w = <<w[1], w[2]>>
  BY DEF Items

\* The places of one class in a queue are finitely many.
LEMMA PlacesFinite ==
    ASSUME NEW q \in Seq(Classes), NEW class
    PROVE  IsFiniteSet({j \in DOMAIN q : q[j] = class})
  <1>1. IsFiniteSet(1..Len(q)) /\ DOMAIN q = 1..Len(q)
    BY FS_Interval
  <1> QED
    BY <1>1, FS_Subset

\* The work of one class is a finite set.
LEMMA ItemsFinite ==
    ASSUME NEW f \in Queues, NEW class
    PROVE  IsFiniteSet(Items(f, class)) /\ Cardinality(Items(f, class)) \in Nat
  <1> DEFINE Of(r) == {<<r, i>> : i \in {j \in DOMAIN f[r] : f[r][j] = class}}
  <1>1. ASSUME NEW r \in Resources PROVE IsFiniteSet(Of(r))
    <2>1. IsFiniteSet({j \in DOMAIN f[r] : f[r][j] = class})
      BY PlacesFinite DEF Queues
    <2> DEFINE at == [i \in {j \in DOMAIN f[r] : f[r][j] = class} |-> <<r, i>>]
    <2>2. /\ at \in [{j \in DOMAIN f[r] : f[r][j] = class} -> Of(r)]
          /\ \A w \in Of(r) : \E i \in {j \in DOMAIN f[r] : f[r][j] = class} : at[i] = w
      OBVIOUS
    <2> HIDE DEF at, Of
    <2> QED
      BY <2>1, <2>2, ValuesFinite
  <1>2. IsFiniteSet({Of(r) : r \in Resources})
    <2> HIDE DEF Of
    <2> DEFINE at == [r \in Resources |-> Of(r)]
    <2>1. /\ at \in [Resources -> {Of(r) : r \in Resources}]
          /\ \A w \in {Of(r) : r \in Resources} : \E r \in Resources : at[r] = w
      OBVIOUS
    <2> HIDE DEF at
    <2> QED
      BY <2>1, EffectsAssumption, ValuesFinite
  <1>3. IsFiniteSet(UNION {Of(r) : r \in Resources})
    BY <1>1, <1>2, FS_UNION
  <1> QED
    BY <1>3, FS_CardinalityType DEF Items

\* Work accepted for several resources at once is counted once for each.
LEMMA ItemsAccepted ==
    ASSUME NEW f \in Queues, NEW rs \in SUBSET Resources, NEW class \in Classes,
           NEW d, NEW g \in Queues,
           \A s \in Resources : g[s] = IF s \in rs THEN Append(f[s], class) ELSE f[s]
    PROVE  Cardinality(Items(g, d)) =
             Cardinality(Items(f, d)) + IF d = class THEN Cardinality(rs) ELSE 0
  <1>1. ASSUME NEW r \in Resources
        PROVE  /\ f[r] \in Seq(Classes) /\ Len(f[r]) \in Nat /\ DOMAIN f[r] = 1..Len(f[r])
               /\ r \in rs => /\ DOMAIN g[r] = 1..Len(f[r]) + 1
                              /\ g[r][Len(f[r]) + 1] = class
                              /\ \A i \in 1..Len(f[r]) : g[r][i] = f[r][i]
               /\ r \notin rs => g[r] = f[r]
    <2>1. f[r] \in Seq(Classes) /\ Len(f[r]) \in Nat /\ DOMAIN f[r] = 1..Len(f[r])
      BY DEF Queues
    <2>2. r \in rs => g[r] = Append(f[r], class)
      OBVIOUS
    <2> QED
      BY <2>1, <2>2
  <1> DEFINE new == {<<r, Len(f[r]) + 1>> : r \in rs}
  <1>2. CASE d # class
    <2>0. ASSUME NEW r \in Resources, NEW i
          PROVE  (i \in DOMAIN g[r] /\ g[r][i] = d) <=> (i \in DOMAIN f[r] /\ f[r][i] = d)
      <3> HIDE DEF new
      <3>1. CASE r \notin rs
        BY <1>1, <3>1
      <3>2. CASE r \in rs
        <4>1. i \in 1..Len(f[r]) + 1 <=> i \in 1..Len(f[r]) \/ i = Len(f[r]) + 1
          BY <1>1
        <4> QED
          BY <1>1, <1>2, <3>2, <4>1
      <3> QED
        BY <3>1, <3>2
    <2>1. \A r, i : <<r, i>> \in Items(g, d) <=> <<r, i>> \in Items(f, d)
      <3>1. ASSUME NEW r, NEW i, <<r, i>> \in Items(g, d) PROVE <<r, i>> \in Items(f, d)
        <4>1. r \in Resources /\ i \in DOMAIN g[r] /\ g[r][i] = d
          <5>1. At(g, d, r, i)
            BY <3>1, ItemsMember
          <5> QED
            BY <5>1 DEF At
        <4> QED
          BY <2>0, <4>1, WorkIsItem, Zenon
      <3>2. ASSUME NEW r, NEW i, <<r, i>> \in Items(f, d) PROVE <<r, i>> \in Items(g, d)
        <4>1. r \in Resources /\ i \in DOMAIN f[r] /\ f[r][i] = d
          <5>1. At(f, d, r, i)
            BY <3>2, ItemsMember
          <5> QED
            BY <5>1 DEF At
        <4> QED
          BY <2>0, <4>1, WorkIsItem, Zenon
      <3> QED
        BY <3>1, <3>2
    <2>2. Items(g, d) = Items(f, d)
      <3>1. \A w \in Items(g, d) : w \in Items(f, d)
        BY <2>1, ItemsArePairs
      <3>2. \A w \in Items(f, d) : w \in Items(g, d)
        BY <2>1, ItemsArePairs
      <3> QED
        BY <3>1, <3>2
    <2> QED
      BY <1>2, <2>2, ItemsFinite
  <1>3. CASE d = class
    <2>0. ASSUME NEW r \in Resources, NEW i
          PROVE  (i \in DOMAIN g[r] /\ g[r][i] = d)
                   <=> \/ i \in DOMAIN f[r] /\ f[r][i] = d
                       \/ r \in rs /\ i = Len(f[r]) + 1
      <3> HIDE DEF new
      <3>1. CASE r \notin rs
        BY <1>1, <3>1
      <3>2. CASE r \in rs
        <4>1. i \in 1..Len(f[r]) + 1 <=> i \in 1..Len(f[r]) \/ i = Len(f[r]) + 1
          BY <1>1
        <4> QED
          BY <1>1, <1>3, <3>2, <4>1
      <3> QED
        BY <3>1, <3>2
    <2>1. \A r, i : <<r, i>> \in new <=> r \in rs /\ i = Len(f[r]) + 1
      OBVIOUS
    <2>2. Items(g, d) = Items(f, d) \union new
      <3>1. \A w \in new : w = <<w[1], w[2]>>
        OBVIOUS
      <3> HIDE DEF new
      <3>2. \A r, i : <<r, i>> \in Items(g, d) <=> (<<r, i>> \in Items(f, d) \/ <<r, i>> \in new)
        <4>1. ASSUME NEW r, NEW i, <<r, i>> \in Items(g, d)
              PROVE  <<r, i>> \in Items(f, d) \/ <<r, i>> \in new
          <5>1. r \in Resources /\ i \in DOMAIN g[r] /\ g[r][i] = d
            <6>1. At(g, d, r, i)
              BY <4>1, ItemsMember
            <6> QED
              BY <6>1 DEF At
          <5>2. CASE i \in DOMAIN f[r] /\ f[r][i] = d
            BY <5>1, <5>2, WorkIsItem, Zenon
          <5>3. CASE r \in rs /\ i = Len(f[r]) + 1
            BY <2>1, <5>3, Zenon
          <5>4. (i \in DOMAIN f[r] /\ f[r][i] = d) \/ (r \in rs /\ i = Len(f[r]) + 1)
            BY <2>0, <5>1
          <5> QED
            BY <5>2, <5>3, <5>4
        <4>2. ASSUME NEW r, NEW i, <<r, i>> \in Items(f, d) PROVE <<r, i>> \in Items(g, d)
          <5>1. r \in Resources /\ i \in DOMAIN f[r] /\ f[r][i] = d
            <6>1. At(f, d, r, i)
              BY <4>2, ItemsMember
            <6> QED
              BY <6>1 DEF At
          <5> QED
            BY <2>0, <5>1, WorkIsItem, Zenon
        <4>3. ASSUME NEW r, NEW i, <<r, i>> \in new PROVE <<r, i>> \in Items(g, d)
          <5>1. r \in Resources /\ r \in rs /\ i = Len(f[r]) + 1
            BY <2>1, <4>3
          <5> QED
            BY <2>0, <5>1, WorkIsItem, Zenon
        <4> QED
          BY <4>1, <4>2, <4>3, Zenon
      <3>3. \A w \in Items(g, d) : w \in Items(f, d) \/ w \in new
        BY <3>2, ItemsArePairs
      <3>4. \A w \in Items(f, d) : w \in Items(g, d)
        BY <3>2, ItemsArePairs
      <3>5. \A w \in new : w \in Items(g, d)
        BY <3>1, <3>2
      <3> QED
        BY <3>3, <3>4, <3>5
    <2>3. IsFiniteSet(rs) /\ Cardinality(rs) \in Nat
      BY EffectsAssumption, FS_Subset, FS_CardinalityType
    <2>4. IsFiniteSet(new) /\ Cardinality(new) = Cardinality(rs)
      <3> DEFINE place == [r \in rs |-> <<r, Len(f[r]) + 1>>]
      <3>1. /\ place \in [rs -> new]
            /\ \A x, y \in rs : place[x] = place[y] => x = y
            /\ \A t \in new : \E x \in rs : place[x] = t
        OBVIOUS
      <3> HIDE DEF place, new
      <3> QED
        BY <2>3, <3>1, SameSize
    <2>5. Items(f, d) \cap new = {}
      <3> SUFFICES ASSUME NEW r \in rs, <<r, Len(f[r]) + 1>> \in Items(f, d) PROVE FALSE
        OBVIOUS
      <3>1. At(f, d, r, Len(f[r]) + 1)
        BY ItemsMember
      <3>2. Len(f[r]) + 1 \in DOMAIN f[r]
        BY <3>1 DEF At
      <3> QED
        BY <1>1, <3>2
    <2>6. Cardinality(Items(f, d) \cap new) = 0
      BY <2>5, FS_EmptySet
    <2> HIDE DEF new
    <2>7. Cardinality(Items(f, d) \union new)
            = Cardinality(Items(f, d)) + Cardinality(new) - Cardinality(Items(f, d) \cap new)
      BY <2>4, ItemsFinite, FS_Union
    <2>8. Cardinality(Items(f, d)) \in Nat
      BY ItemsFinite
    <2>9. Cardinality(Items(g, d)) = Cardinality(Items(f, d)) + Cardinality(rs)
      <3>1. Cardinality(Items(g, d)) = Cardinality(Items(f, d) \union new)
        BY <2>2, Zenon
      <3> QED
        BY <2>3, <2>4, <2>6, <2>7, <2>8, <3>1
    <2> QED
      BY <1>3, <2>9
  <1> QED
    BY <1>2, <1>3

\* The work that ends is the head of its queue; the rest moves up one place.
LEMMA ItemsEnded ==
    ASSUME NEW f \in Queues, NEW r \in Resources, f[r] # <<>>, NEW d, NEW g \in Queues,
           \A s \in Resources : g[s] = IF s = r THEN Tail(f[r]) ELSE f[s]
    PROVE  Cardinality(Items(g, d)) =
             Cardinality(Items(f, d)) - IF Head(f[r]) = d THEN 1 ELSE 0
  <1>1. f[r] \in Seq(Classes) /\ Len(f[r]) \in Nat \ {0} /\ DOMAIN f[r] = 1..Len(f[r])
    BY DEF Queues
  <1>2. /\ DOMAIN g[r] = 1..Len(f[r]) - 1
        /\ \A i \in 1..Len(f[r]) - 1 : g[r][i] = f[r][i + 1]
    <2>1. g[r] = Tail(f[r])
      BY DEF Queues
    <2>2. \A q \in Seq(Classes) : Len(q) # 0
            => /\ DOMAIN Tail(q) = 1..Len(q) - 1
               /\ \A i \in 1..Len(q) - 1 : Tail(q)[i] = q[i + 1]
      OBVIOUS
    <2> QED
      BY <1>1, <2>1, <2>2
  <1>3. \A s \in Resources \ {r} : g[s] = f[s]
    BY DEF Queues
  <1>4. Head(f[r]) = f[r][1]
    BY <1>1
  <1> DEFINE rest == Items(f, d) \ {<<r, 1>>}
             up == [w \in Items(g, d) |-> <<w[1], IF w[1] = r THEN w[2] + 1 ELSE w[2]>>]
  <1>5. ASSUME NEW s, NEW i, <<s, i>> \in Items(g, d)
        PROVE  /\ s \in Resources
               /\ s = r => i \in 1..Len(f[r]) - 1
               /\ <<s, IF s = r THEN i + 1 ELSE i>> \in rest
    <2>1. s \in Resources /\ i \in DOMAIN g[s] /\ g[s][i] = d
      <3>1. At(g, d, s, i)
        BY <1>5, ItemsMember
      <3> QED
        BY <3>1 DEF At
    <2>2. CASE s # r
      <3>1. i \in DOMAIN f[s] /\ f[s][i] = d
        BY <1>3, <2>1, <2>2
      <3>2. <<s, i>> \in Items(f, d)
        BY <2>1, <3>1, WorkIsItem
      <3> QED
        BY <2>1, <2>2, <3>2
    <2>3. CASE s = r
      <3>1. i \in 1..Len(f[r]) - 1 /\ f[r][i + 1] = d
        BY <1>2, <2>1, <2>3
      <3>2. i + 1 \in DOMAIN f[r] /\ i + 1 # 1
        BY <1>1, <3>1
      <3>3. <<r, i + 1>> \in Items(f, d)
        BY <3>1, <3>2, WorkIsItem
      <3> QED
        BY <2>1, <2>3, <3>1, <3>2, <3>3
    <2> QED
      BY <2>2, <2>3
  <1>6. ASSUME NEW s, NEW i, <<s, i>> \in rest
        PROVE  /\ s # r => <<s, i>> \in Items(g, d)
               /\ s = r => i - 1 \in 1..Len(f[r]) - 1 /\ <<s, i - 1>> \in Items(g, d) /\ (i - 1) + 1 = i
    <2>0. At(f, d, s, i) /\ (s = r => i # 1)
      BY <1>6, ItemsMember
    <2>1. s \in Resources /\ i \in DOMAIN f[s] /\ f[s][i] = d /\ (s = r => i # 1)
      BY <2>0 DEF At
    <2>2. CASE s # r
      <3>1. i \in DOMAIN g[s] /\ g[s][i] = d
        BY <1>3, <2>1, <2>2
      <3> QED
        BY <2>1, <2>2, <3>1, WorkIsItem
    <2>3. CASE s = r
      <3>1. i \in 1..Len(f[r]) /\ i # 1
        BY <1>1, <2>1, <2>3
      <3>2. i - 1 \in 1..Len(f[r]) - 1 /\ (i - 1) + 1 = i
        BY <1>1, <3>1
      <3>3. i - 1 \in DOMAIN g[r] /\ g[r][i - 1] = d
        BY <1>2, <2>1, <2>3, <3>2
      <3> QED
        BY <2>3, <3>2, <3>3, WorkIsItem
    <2> QED
      BY <2>2, <2>3
  <1>7. up \in [Items(g, d) -> rest]
    <2> SUFFICES ASSUME NEW w \in Items(g, d)
                 PROVE  <<w[1], IF w[1] = r THEN w[2] + 1 ELSE w[2]>> \in rest
      OBVIOUS
    <2>1. <<w[1], w[2]>> \in Items(g, d)
      BY ItemsArePairs
    <2> QED
      BY <1>5, <2>1
  <1>8. \A v, w \in Items(g, d) : up[v] = up[w] => v = w
    <2> SUFFICES ASSUME NEW v \in Items(g, d), NEW w \in Items(g, d), up[v] = up[w] PROVE v = w
      OBVIOUS
    <2>1. v = <<v[1], v[2]>> /\ w = <<w[1], w[2]>>
      BY ItemsArePairs
    <2>2. /\ v[1] = w[1]
          /\ (IF v[1] = r THEN v[2] + 1 ELSE v[2]) = (IF w[1] = r THEN w[2] + 1 ELSE w[2])
      OBVIOUS
    <2>3. v[1] = r => v[2] \in Int
      <3>1. v[1] = r => v[2] \in 1..Len(f[r]) - 1
        BY <1>5, <2>1, Zenon
      <3> QED
        BY <3>1
    <2>4. w[1] = r => w[2] \in Int
      <3>1. w[1] = r => w[2] \in 1..Len(f[r]) - 1
        BY <1>5, <2>1, Zenon
      <3> QED
        BY <3>1
    <2> HIDE DEF up
    <2>5. v[2] = w[2]
      BY <2>2, <2>3, <2>4
    <2> QED
      BY <2>1, <2>2, <2>5
  <1>9. \A x \in rest : \E w \in Items(g, d) : up[w] = x
    <2> SUFFICES ASSUME NEW x \in rest PROVE \E w \in Items(g, d) : up[w] = x
      OBVIOUS
    <2>1. x = <<x[1], x[2]>>
      BY ItemsArePairs
    <2>2. CASE x[1] # r
      <3>1. <<x[1], x[2]>> \in Items(g, d)
        BY <1>6, <2>1, <2>2
      <3> QED
        BY <2>1, <2>2, <3>1
    <2>3. CASE x[1] = r
      <3>1. <<x[1], x[2] - 1>> \in Items(g, d) /\ (x[2] - 1) + 1 = x[2]
        BY <1>6, <2>1, <2>3
      <3>2. up[<<x[1], x[2] - 1>>] = x
        BY <2>1, <2>3, <3>1
      <3> QED
        BY <3>1, <3>2
    <2> QED
      BY <2>2, <2>3
  <1>10. IsFiniteSet(Items(f, d)) /\ Cardinality(Items(f, d)) \in Nat
    BY ItemsFinite
  <1>11. /\ IsFiniteSet(rest)
         /\ Cardinality(rest) = Cardinality(Items(f, d)) - IF Head(f[r]) = d THEN 1 ELSE 0
    <2>1. <<r, 1>> \in Items(f, d) <=> Head(f[r]) = d
      <3>1. 1 \in DOMAIN f[r]
        BY <1>1
      <3>2. At(f, d, r, 1) <=> Head(f[r]) = d
        BY <1>4, <3>1 DEF At
      <3> QED
        BY <3>2, ItemsMember
    <2>2. /\ IsFiniteSet(rest)
          /\ Cardinality(rest) = IF <<r, 1>> \in Items(f, d) THEN Cardinality(Items(f, d)) - 1
                                                            ELSE Cardinality(Items(f, d))
      BY <1>10, FS_RemoveElement
    <2> HIDE DEF rest
    <2>3. Head(f[r]) = d =>
            Cardinality(rest) = Cardinality(Items(f, d)) - IF Head(f[r]) = d THEN 1 ELSE 0
      BY <2>1, <2>2
    <2>4. Head(f[r]) # d =>
            Cardinality(rest) = Cardinality(Items(f, d)) - IF Head(f[r]) = d THEN 1 ELSE 0
      BY <1>10, <2>1, <2>2
    <2> QED
      BY <2>2, <2>3, <2>4
  <1>12. Cardinality(rest) = Cardinality(Items(g, d))
    <2>1. IsFiniteSet(Items(g, d))
      BY ItemsFinite
    <2> HIDE DEF up, rest
    <2>2. up \in Bijection(Items(g, d), rest)
      BY <1>7, <1>8, <1>9, Zenon DEF Bijection, Injection, Surjection, IsInjective
    <2> QED
      BY <2>1, <2>2, FS_Bijection DEF ExistsBijection
  <1> QED
    BY <1>11, <1>12

\* The work that is dropped is that of one resource.
LEMMA ItemsDropped ==
    ASSUME NEW f \in Queues, NEW r \in Resources, NEW d, NEW g \in Queues,
           \A s \in Resources : g[s] = IF s = r THEN <<>> ELSE f[s]
    PROVE  Cardinality(Items(g, d)) =
             Cardinality(Items(f, d)) - Cardinality({j \in DOMAIN f[r] : f[r][j] = d})
  <1> DEFINE P == {j \in DOMAIN f[r] : f[r][j] = d}
             gone == {<<r, i>> : i \in P}
             at == [i \in P |-> <<r, i>>]
  <1>1. IsFiniteSet(P)
    BY PlacesFinite DEF Queues
  <1>2. IsFiniteSet(gone) /\ Cardinality(gone) = Cardinality(P)
    <2>1. /\ at \in [P -> gone]
          /\ \A x, y \in P : at[x] = at[y] => x = y
          /\ \A t \in gone : \E x \in P : at[x] = t
      <3> HIDE DEF P
      <3> QED
        OBVIOUS
    <2> HIDE DEF P, gone, at
    <2> QED
      BY <1>1, <2>1, SameSize
  <1>3. IsFiniteSet(Items(f, d)) /\ Cardinality(Items(f, d)) \in Nat
    BY ItemsFinite
  <1>4. gone \subseteq Items(f, d)
    <2> SUFFICES ASSUME NEW i \in P PROVE <<r, i>> \in Items(f, d)
      OBVIOUS
    <2> QED
      BY WorkIsItem
  <1>5. \A s \in Resources : g[s] = IF s = r THEN <<>> ELSE f[s]
    BY DEF Queues
  <1>6. Items(g, d) = Items(f, d) \ gone
    <2>1. ASSUME NEW s, NEW i, <<s, i>> \in Items(g, d)
          PROVE  <<s, i>> \in Items(f, d) /\ <<s, i>> \notin gone
      <3>1. s \in Resources /\ i \in DOMAIN g[s] /\ g[s][i] = d
        <4> HIDE DEF P, gone, at
        <4>1. At(g, d, s, i)
          BY <2>1, ItemsMember
        <4> QED
          BY <4>1 DEF At
      <3>2. s # r
        <4>1. DOMAIN <<>> = {}
          OBVIOUS
        <4> QED
          BY <1>5, <3>1, <4>1
      <3>3. i \in DOMAIN f[s] /\ f[s][i] = d
        BY <1>5, <3>1, <3>2
      <3> QED
        BY <3>1, <3>2, <3>3, WorkIsItem
    <2>2. ASSUME NEW s, NEW i, <<s, i>> \in Items(f, d), <<s, i>> \notin gone
          PROVE  <<s, i>> \in Items(g, d)
      <3>1. s \in Resources /\ i \in DOMAIN f[s] /\ f[s][i] = d
        BY <2>2, ItemIsWork
      <3>2. s # r
        BY <2>2, <3>1
      <3>3. i \in DOMAIN g[s] /\ g[s][i] = d
        BY <1>5, <3>1, <3>2
      <3> QED
        BY <3>1, <3>3, WorkIsItem
    <2> HIDE DEF gone
    <2>3. \A w \in Items(g, d) : w \in Items(f, d) \ gone
      BY <2>1, ItemsArePairs
    <2>4. \A w \in Items(f, d) \ gone : w \in Items(g, d)
      BY <2>2, ItemsArePairs
    <2> QED
      BY <2>3, <2>4
  <1> HIDE DEF gone, P
  <1>7. Cardinality(Items(f, d) \ gone)
          = Cardinality(Items(f, d)) - Cardinality(Items(f, d) \cap gone)
    BY <1>3, FS_Difference
  <1>8. Items(f, d) \cap gone = gone
    BY <1>4
  <1> QED
    BY <1>2, <1>6, <1>7, <1>8 DEF P

\* A queue holds ordinary work and cleanup work and nothing else.
LEMMA PlacesSplit ==
    ASSUME NEW q \in Seq(Classes)
    PROVE  /\ Cardinality({j \in DOMAIN q : q[j] = "ordinary"}) = Len(q) - Cleanups(q)
           /\ Cleanups(q) \in Nat /\ Len(q) \in Nat
  <1> DEFINE A == {j \in DOMAIN q : q[j] = "ordinary"}
             B == {j \in DOMAIN q : q[j] = "cleanup"}
  <1>1. IsFiniteSet(A) /\ IsFiniteSet(B)
    BY PlacesFinite
  <1>2. A \cap B = {} /\ A \union B = 1..Len(q)
    <2>1. \A i \in 1..Len(q) : q[i] = "ordinary" \/ q[i] = "cleanup"
      BY DEF Classes
    <2>2. DOMAIN q = 1..Len(q)
      OBVIOUS
    <2> QED
      BY <2>1, <2>2
  <1>3. Len(q) \in Nat /\ Cardinality(1..Len(q)) = Len(q)
    <2>1. Len(q) \in Nat
      OBVIOUS
    <2>2. Cardinality(1..Len(q)) = IF 1 > Len(q) THEN 0 ELSE Len(q) - 1 + 1
      BY <2>1, FS_Interval
    <2> QED
      BY <2>1, <2>2
  <1> HIDE DEF A, B
  <1>4. Cardinality(A \union B) = Cardinality(A) + Cardinality(B) - Cardinality(A \cap B)
    BY <1>1, FS_Union
  <1>5. Cardinality(A) \in Nat /\ Cardinality(B) \in Nat
    BY <1>1, FS_CardinalityType
  <1>6. Cardinality(A \cap B) = 0
    BY <1>2, FS_EmptySet
  <1>7. Cardinality(A) = Len(q) - Cardinality(B)
    <2>1. Cardinality(A \union B) = Len(q)
      BY <1>2, <1>3
    <2> QED
      BY <1>3, <1>4, <1>5, <1>6, <2>1
  <1> QED
    BY <1>3, <1>5, <1>7 DEF A, B, Cleanups

\* Without work of either class every queue is empty.
LEMMA NothingHeld ==
    ASSUME NEW f \in Queues, NEW r \in Resources, f[r] # <<>>
    PROVE  Cardinality(Items(f, "ordinary")) + Cardinality(Items(f, "cleanup")) # 0
  <1>1. 1 \in DOMAIN f[r] /\ f[r][1] \in Classes
    <2>1. \A q \in Seq(Classes) : q # <<>> => 1 \in DOMAIN q /\ q[1] \in Classes
      OBVIOUS
    <2> QED
      BY <2>1 DEF Queues
  <1>2. <<r, 1>> \in Items(f, f[r][1])
    BY <1>1, WorkIsItem
  <1>3. \A c : IsFiniteSet(Items(f, c)) /\ Cardinality(Items(f, c)) \in Nat
    BY ItemsFinite
  <1>4. Cardinality(Items(f, f[r][1])) # 0
    BY <1>2, <1>3, FS_EmptySet
  <1> QED
    BY <1>1, <1>3, <1>4 DEF Classes

----------------------------------------------------------------------------
(* The counters are the contents of the queues, and the steps of the        *)
(* runners are the steps of EffectReserves.                                 *)

\* The instance counts with its own Cardinality, which is the same.
LEMMA SameCardinality == \A S : Reserves!Cardinality(S) = Cardinality(S)
  BY DEF Reserves!Cardinality, Cardinality

\* What EffectReserves counts, before and after a step.
LEMMA HeldCounts ==
    \A class : /\ Reserves!Held(class) = Cardinality(Items(queues, class))
               /\ Reserves!Held(class)' = Cardinality(Items(queues', class))
  <1>1. \A class : Reserves!Work(class) = Items(queues, class)
    BY DEF Reserves!Work, Items
  <1>2. \A class : Reserves!Work(class)' = Items(queues', class)
    BY DEF Reserves!Work, Items
  <1> QED
    BY <1>1, <1>2, SameCardinality DEF Reserves!Held

\* The counters in a state of the invariant.
LEMMA Counted ==
    ASSUME EffectsInv
    PROVE  /\ queues \in Queues
           /\ Ordinary = Cardinality(Items(queues, "ordinary"))
           /\ cleanupCount = Cardinality(Items(queues, "cleanup"))
           /\ Ordinary \in Nat /\ cleanupCount \in Nat /\ count \in Nat
           /\ count = Ordinary + cleanupCount
           /\ \A r \in Resources : queues[r] # <<>> => count # 0
  <1>1. EffectsTypeOK /\ CountsMatch
    BY DEF EffectsInv, WakeupInv
  <1>2. queues \in Queues /\ count \in Int /\ cleanupCount \in Int
    BY <1>1 DEF EffectsTypeOK, Queues
  <1>3. /\ Ordinary = Cardinality(Items(queues, "ordinary"))
        /\ cleanupCount = Cardinality(Items(queues, "cleanup"))
    BY <1>1, HeldCounts DEF CountsMatch
  <1>4. Ordinary \in Nat /\ cleanupCount \in Nat
    BY <1>2, <1>3, ItemsFinite
  <1>5. count = Ordinary + cleanupCount
    BY <1>2 DEF Ordinary
  <1> QED
    BY <1>2, <1>3, <1>4, <1>5, NothingHeld

\* The counters after a step, from the new queues.
LEMMA CountedAfter ==
    ASSUME queues' \in Queues, count' \in Int, cleanupCount' \in Int,
           Ordinary' = Cardinality(Items(queues', "ordinary")),
           cleanupCount' = Cardinality(Items(queues', "cleanup")),
           IdleIffDrained'
    PROVE  CountsMatch'
  BY HeldCounts DEF CountsMatch

\* An effect is admitted: the counters gain what the queue gains, and the idle
\* event is unset.
LEMMA AdmitKeeps ==
    ASSUME EffectsInv, WakeupInv', NEW r \in Resources, NEW class \in Classes,
           Admit(r, class), notifying' = notifying, scope' = scope
    PROVE  Attended' /\ CountsMatch' /\ Reserves!Accept({r}, class)
  <1>1. WakeupInv /\ Attended /\ IdleIffDrained /\ queues \in Queues /\ queues' \in Queues
    BY Counted DEF EffectsInv, CountsMatch, WakeupInv, EffectsTypeOK, Queues
  <1>2. queues' = [s \in Resources |-> IF s \in {r} THEN Append(queues[s], class) ELSE queues[s]]
    BY <1>1 DEF Admit, Queues
  <1>3. Cardinality({r}) = 1
    BY FS_Singleton
  <1>4. \A d : Cardinality(Items(queues', d)) =
                 Cardinality(Items(queues, d)) + IF d = class THEN 1 ELSE 0
    <2>1. \A s \in Resources :
             queues'[s] = IF s \in {r} THEN Append(queues[s], class) ELSE queues[s]
      BY <1>2
    <2> HIDE DEF Admit
    <2> QED
      BY <1>1, <1>3, <2>1, ItemsAccepted
  <1>5. /\ Ordinary' = IF class = "ordinary" THEN Ordinary + 1 ELSE Ordinary
        /\ cleanupCount' = IF class = "cleanup" THEN cleanupCount + 1 ELSE cleanupCount
        /\ count' \in Int /\ cleanupCount' \in Int
    BY <1>1, AdmitTyped
  <1>6. /\ Ordinary' = Cardinality(Items(queues', "ordinary"))
        /\ cleanupCount' = Cardinality(Items(queues', "cleanup"))
    BY <1>4, <1>5, Counted
  <1>7. IdleIffDrained'
    <2>1. count' = count + 1 /\ count \in Nat
      BY Counted DEF Admit
    <2>2. idle' = FALSE
      BY <1>1, <2>1 DEF Admit, IdleIffDrained, WakeupInv, EffectsTypeOK
    <2> QED
      BY <2>1, <2>2 DEF IdleIffDrained
  <1>8. Attended'
    <2>1. \A s \in Resources :
             runner'[s] = IF s = r /\ runner[r] = "none" THEN "running" ELSE runner[s]
      BY <1>1 DEF Admit, WakeupInv, EffectsTypeOK
    <2>2. \A s \in Resources \ {r} : queues'[s] = queues[s]
      BY <1>2
    <2> QED
      BY <1>1, <2>1, <2>2 DEF Attended
  <1>9. Reserves!Held(class) + Cardinality({r}) <= Capacity
    <2>1. Ordinary' <= Capacity /\ cleanupCount' <= Capacity
      BY DEF WakeupInv, Bounded
    <2>2. Cardinality(Items(queues, class)) + 1 <= Capacity
      BY <1>5, <2>1, Counted DEF Classes
    <2> QED
      BY <1>3, <2>2, HeldCounts
  <1>10. CountsMatch'
    BY <1>1, <1>5, <1>6, <1>7, CountedAfter
  <1>11. Reserves!Accept({r}, class)
    <2>1. (scope = "open")' = (scope = "open")
      OBVIOUS
    <2> QED
      BY <1>2, <1>9, <2>1, SameCardinality DEF Reserves!Accept
  <1> QED
    BY <1>8, <1>10, <1>11

\* An effect ends: the counters lose what the queue loses.
LEMMA FinishKeeps ==
    ASSUME EffectsInv, WakeupInv', NEW r \in Resources, Finish(r)
    PROVE  Attended' /\ CountsMatch' /\ Reserves!Complete(r)
  <1> DEFINE q == Tail(queues[r])
  <1>1. WakeupInv /\ Attended /\ IdleIffDrained /\ queues \in Queues /\ queues' \in Queues
    BY Counted DEF EffectsInv, CountsMatch, WakeupInv, EffectsTypeOK, Queues
  <1>2. /\ queues[r] # <<>> /\ queues' = [queues EXCEPT ![r] = q] /\ count' = count - 1
        /\ cleanupCount' = cleanupCount - Weight(Head(queues[r]))
        /\ scope = "open" /\ scope' = scope
    BY <1>1 DEF Finish, WakeupInv, RunnersBusy
  <1>3. Head(queues[r]) \in Classes
    <2>1. \A z \in Seq(Classes) : z # <<>> => Head(z) \in Classes
      OBVIOUS
    <2> QED
      BY <1>1, <1>2, <2>1 DEF Queues
  <1>4. \A d : Cardinality(Items(queues', d)) =
                 Cardinality(Items(queues, d)) - IF Head(queues[r]) = d THEN 1 ELSE 0
    <2> SUFFICES ASSUME NEW d
                 PROVE  Cardinality(Items(queues', d)) =
                          Cardinality(Items(queues, d)) - IF Head(queues[r]) = d THEN 1 ELSE 0
      OBVIOUS
    <2>1. \A s \in Resources : queues'[s] = IF s = r THEN Tail(queues[r]) ELSE queues[s]
      BY <1>1, <1>2 DEF Queues
    <2>2. queues \in Queues /\ queues' \in Queues /\ queues[r] # <<>>
      BY <1>1, <1>2
    <2> QED
      BY <2>1, <2>2, ItemsEnded, Zenon
  <1>5. /\ Ordinary' = Ordinary - IF Head(queues[r]) = "ordinary" THEN 1 ELSE 0
        /\ cleanupCount' = cleanupCount - IF Head(queues[r]) = "cleanup" THEN 1 ELSE 0
    BY <1>2, <1>3, Counted DEF Weight, Classes, Ordinary
  <1>6. /\ Ordinary' = Cardinality(Items(queues', "ordinary"))
        /\ cleanupCount' = Cardinality(Items(queues', "cleanup"))
    BY <1>4, <1>5, Counted
  <1>7. count' \in Int /\ cleanupCount' \in Int /\ count' = Ordinary' + cleanupCount'
    <2>1. count' \in Int /\ cleanupCount' \in Int
      BY DEF WakeupInv, EffectsTypeOK
    <2>2. \A m, n \in Int : m = (m - n) + n
      OBVIOUS
    <2>3. Ordinary' = count' - cleanupCount'
      BY DEF Ordinary
    <2> QED
      BY <2>1, <2>2, <2>3
  <1>8. \A s \in Resources : queues'[s] # <<>> => count' # 0
    BY <1>1, <1>6, <1>7, NothingHeld
  <1>9. queues'[r] = q /\ \A s \in Resources \ {r} : queues'[s] = queues[s]
    BY <1>1, <1>2 DEF Queues
  <1>10. idle = FALSE /\ runner[r] = "running"
    BY <1>1, <1>2, Counted DEF Finish, IdleIffDrained, WakeupInv, EffectsTypeOK
  <1>11. IdleIffDrained' /\ Attended'
    <2>1. CASE callback /\ ~notifying /\ Ordinary' < Capacity
      <3>1. runner' = [runner EXCEPT ![r] = "notifying"] /\ notifying' = TRUE /\ idle' = idle
        BY <1>2, <2>1 DEF Finish, Ordinary
      <3>2. \A s \in Resources : runner'[s] = IF s = r THEN "notifying" ELSE runner[s]
        BY <1>1, <3>1 DEF WakeupInv, EffectsTypeOK
      <3> QED
        BY <1>1, <1>9, <1>10, <3>1, <3>2 DEF IdleIffDrained, Attended
    <2>2. CASE ~(callback /\ ~notifying /\ Ordinary' < Capacity)
      <3>1. ContinueOrEnd(r, q, count - 1, notifying) /\ notifying' = notifying
        BY <1>2, <2>2 DEF Finish, Ordinary
      <3>2. \A s \in Resources : runner'[s] =
               IF s = r THEN (IF q = <<>> THEN "none" ELSE "running") ELSE runner[s]
        BY <1>1, <3>1 DEF ContinueOrEnd, WakeupInv, EffectsTypeOK
      <3>3. Attended'
        BY <1>1, <1>9, <3>2 DEF Attended
      <3>4. count' = 0 => q = <<>>
        BY <1>8, <1>9
      <3>5. idle' = (count' = 0 /\ ~notifying)
        BY <1>2, <1>10, <3>1, <3>4 DEF ContinueOrEnd
      <3> QED
        BY <3>1, <3>3, <3>5 DEF IdleIffDrained
    <2> QED
      BY <2>1, <2>2
  <1>12. CountsMatch'
    BY <1>1, <1>6, <1>7, <1>11, CountedAfter
  <1>13. Reserves!Complete(r)
    BY <1>2 DEF Reserves!Complete
  <1> QED
    BY <1>11, <1>12, <1>13

\* The callback admits as many deferred preparations as the reserve has room for.
LEMMA ResumeKeeps ==
    ASSUME EffectsInv, WakeupInv', NEW r \in Resources, Resume(r)
    PROVE  /\ Attended' /\ CountsMatch'
           /\ \E rs \in SUBSET Resources : Reserves!Accept(rs, "ordinary")
  <1>1. WakeupInv /\ Attended /\ IdleIffDrained /\ queues \in Queues /\ queues' \in Queues
    BY Counted DEF EffectsInv, CountsMatch, WakeupInv, EffectsTypeOK, Queues
  <1>2. PICK accepted \in SUBSET deferred :
            /\ queues' = [s \in Resources |->
                            IF s \in accepted THEN Append(queues[s], "ordinary")
                                              ELSE queues[s]]
            /\ count' = count + Cardinality(accepted)
            /\ runner' = [s \in Resources |->
                  IF s = r
                    THEN IF (IF r \in accepted THEN Append(queues[r], "ordinary")
                                               ELSE queues[r]) = <<>>
                           THEN "none" ELSE "running"
                    ELSE IF s \in accepted /\ runner[s] = "none"
                           THEN "running" ELSE runner[s]]
            /\ idle' = IF (IF r \in accepted THEN Append(queues[r], "ordinary")
                                             ELSE queues[r]) = <<>>
                          /\ count + Cardinality(accepted) = 0
                         THEN TRUE ELSE idle
    BY DEF Resume
  <1>3. accepted \in SUBSET Resources
    BY <1>1 DEF WakeupInv, EffectsTypeOK
  <1>4. Cardinality(accepted) \in Nat
    BY <1>3, EffectsAssumption, FS_Subset, FS_CardinalityType
  <1>5. cleanupCount' = cleanupCount /\ notifying' = FALSE /\ runner[r] = "notifying"
        /\ scope' = scope
    BY DEF Resume
  <1>6. notifying /\ idle = FALSE
    BY <1>1, <1>5 DEF WakeupInv, OneNotifier, IdleIffDrained, EffectsTypeOK
  <1>7. \A d : Cardinality(Items(queues', d)) =
                 Cardinality(Items(queues, d)) + IF d = "ordinary" THEN Cardinality(accepted) ELSE 0
    <2> SUFFICES ASSUME NEW d
                 PROVE  Cardinality(Items(queues', d)) = Cardinality(Items(queues, d))
                          + IF d = "ordinary" THEN Cardinality(accepted) ELSE 0
      OBVIOUS
    <2>1. "ordinary" \in Classes
      BY DEF Classes
    <2>2. \A s \in Resources : queues'[s] =
             IF s \in accepted THEN Append(queues[s], "ordinary") ELSE queues[s]
      BY <1>2
    <2> QED
      BY <1>1, <1>3, <2>1, <2>2, ItemsAccepted
  <1>8. Ordinary' = Ordinary + Cardinality(accepted)
    BY <1>2, <1>4, <1>5, Counted DEF Ordinary
  <1>9. /\ Ordinary' = Cardinality(Items(queues', "ordinary"))
        /\ cleanupCount' = Cardinality(Items(queues', "cleanup"))
    BY <1>5, <1>7, <1>8, Counted
  <1>10. count' \in Int /\ cleanupCount' \in Int /\ count' = Ordinary' + cleanupCount'
    <2>1. count' \in Int /\ cleanupCount' \in Int
      BY DEF WakeupInv, EffectsTypeOK
    <2>2. \A m, n \in Int : m = (m - n) + n
      OBVIOUS
    <2>3. Ordinary' = count' - cleanupCount'
      BY DEF Ordinary
    <2> QED
      BY <2>1, <2>2, <2>3
  <1>11. \A s \in Resources : queues'[s] # <<>> => count' # 0
    BY <1>1, <1>9, <1>10, NothingHeld
  <1>12. queues'[r] = IF r \in accepted THEN Append(queues[r], "ordinary") ELSE queues[r]
    BY <1>2
  <1>13. IdleIffDrained'
    <2>1. idle' = (count' = 0)
      BY <1>2, <1>6, <1>11, <1>12
    <2> QED
      BY <1>5, <2>1 DEF IdleIffDrained
  <1>14. Attended'
    <2> SUFFICES ASSUME NEW s \in Resources, queues'[s] # <<>> PROVE runner'[s] # "none"
      BY DEF Attended
    <2>1. CASE s = r
      BY <1>2, <1>12, <2>1
    <2>2. CASE s # r
      <3>1. s \notin accepted => queues'[s] = queues[s] /\ runner'[s] = runner[s]
        BY <1>2, <2>2
      <3>2. s \in accepted => runner'[s] = IF runner[s] = "none" THEN "running" ELSE runner[s]
        BY <1>2, <2>2
      <3> QED
        BY <1>1, <3>1, <3>2 DEF Attended
    <2> QED
      BY <2>1, <2>2
  <1>15. CountsMatch'
    BY <1>1, <1>9, <1>10, <1>13, CountedAfter
  <1>16. Reserves!Held("ordinary") + Cardinality(accepted) <= Capacity
    <2>1. Ordinary' <= Capacity
      BY DEF WakeupInv, Bounded
    <2> QED
      BY <1>8, <2>1, Counted, HeldCounts
  <1>17. Reserves!Accept(accepted, "ordinary")
    <2>1. (scope = "open")' = (scope = "open")
      BY <1>5
    <2> QED
      BY <1>2, <1>16, <2>1, SameCardinality DEF Reserves!Accept
  <1> QED
    BY <1>3, <1>14, <1>15, <1>17

\* A cancelled runner takes its queue away.
LEMMA UnwindKeeps ==
    ASSUME EffectsInv, WakeupInv', NEW r \in Resources, Unwind(r)
    PROVE  /\ Attended' /\ CountsMatch'
           /\ Reserves!Drop(r) \/ (queues' = queues /\ scope' = scope)
  <1>1. WakeupInv /\ Attended /\ IdleIffDrained /\ queues \in Queues /\ queues' \in Queues
    BY Counted DEF EffectsInv, CountsMatch, WakeupInv, EffectsTypeOK, Queues
  <1>2. /\ scope = "cancelled" /\ scope' = scope /\ runner[r] # "none"
        /\ queues' = [queues EXCEPT ![r] = <<>>]
        /\ runner' = [runner EXCEPT ![r] = "none"]
        /\ count' = count - Len(queues[r])
        /\ cleanupCount' = cleanupCount - Cleanups(queues[r])
        /\ notifying' = (notifying /\ runner[r] # "notifying")
        /\ idle' = IF count' = 0 /\ ~(notifying /\ runner[r] # "notifying") THEN TRUE ELSE idle
    BY DEF Unwind
  <1>3. \A d : Cardinality(Items(queues', d)) =
                 Cardinality(Items(queues, d))
                   - Cardinality({j \in DOMAIN queues[r] : queues[r][j] = d})
    <2> SUFFICES ASSUME NEW d
                 PROVE  Cardinality(Items(queues', d)) = Cardinality(Items(queues, d))
                          - Cardinality({j \in DOMAIN queues[r] : queues[r][j] = d})
      OBVIOUS
    <2>1. \A s \in Resources : queues'[s] = IF s = r THEN <<>> ELSE queues[s]
      BY <1>1, <1>2 DEF Queues
    <2> QED
      BY <1>1, <2>1, ItemsDropped
  <1>4. /\ Cardinality({j \in DOMAIN queues[r] : queues[r][j] = "ordinary"})
             = Len(queues[r]) - Cleanups(queues[r])
        /\ Cleanups(queues[r]) \in Nat /\ Len(queues[r]) \in Nat
    BY <1>1, PlacesSplit DEF Queues
  <1>5. Ordinary' = Ordinary - (Len(queues[r]) - Cleanups(queues[r]))
    BY <1>2, <1>4, Counted DEF Ordinary
  <1>6. Cardinality({j \in DOMAIN queues[r] : queues[r][j] = "cleanup"}) = Cleanups(queues[r])
    BY DEF Cleanups
  <1>7. /\ Ordinary' = Cardinality(Items(queues', "ordinary"))
        /\ cleanupCount' = Cardinality(Items(queues', "cleanup"))
    BY <1>2, <1>3, <1>4, <1>5, <1>6, Counted
  <1>8. count' \in Int /\ cleanupCount' \in Int
    BY DEF WakeupInv, EffectsTypeOK
  <1>9. idle => count = 0 /\ ~notifying
    BY <1>1 DEF IdleIffDrained
  <1>10. ~idle
    <2>1. CASE runner[r] = "running"
      BY <1>1, <1>9, <2>1, Counted DEF WakeupInv, RunnersBusy
    <2>2. CASE runner[r] = "notifying"
      BY <1>1, <1>9, <2>2 DEF WakeupInv, OneNotifier
    <2> QED
      BY <1>1, <1>2, <2>1, <2>2 DEF WakeupInv, EffectsTypeOK
  <1>11. IdleIffDrained'
    <2>1. idle \in BOOLEAN
      BY <1>1 DEF WakeupInv, EffectsTypeOK
    <2> QED
      BY <1>2, <1>10, <2>1, Zenon DEF IdleIffDrained
  <1>12. Attended'
    <2>1. \A s \in Resources \ {r} : queues'[s] = queues[s] /\ runner'[s] = runner[s]
      BY <1>1, <1>2 DEF WakeupInv, EffectsTypeOK
    <2>2. queues'[r] = <<>>
      BY <1>1, <1>2 DEF Queues
    <2> QED
      BY <1>1, <2>1, <2>2 DEF Attended
  <1>13. CountsMatch'
    BY <1>1, <1>7, <1>8, <1>11, CountedAfter
  <1>14. Reserves!Drop(r) \/ (queues' = queues /\ scope' = scope)
    <2>1. CASE queues[r] # <<>>
      BY <1>2, <2>1 DEF Reserves!Drop
    <2>2. CASE queues[r] = <<>>
      BY <1>1, <1>2, <2>2 DEF Queues
    <2> QED
      BY <2>1, <2>2
  <1> QED
    BY <1>12, <1>13, <1>14

\* Steps that leave the queues, the counters and the runners' duties alone.
LEMMA QuietKeeps ==
    ASSUME EffectsInv, queues' = queues, count' = count, cleanupCount' = cleanupCount,
           runner' = runner, notifying' = notifying, idle' = idle
    PROVE  Attended' /\ CountsMatch'
  <1>1. Attended /\ IdleIffDrained /\ queues \in Queues
        /\ count \in Int /\ cleanupCount \in Int
    BY Counted DEF EffectsInv, CountsMatch, WakeupInv, EffectsTypeOK
  <1>2. Ordinary' = Ordinary
    BY DEF Ordinary
  <1> QED
    BY <1>1, <1>2, Counted, CountedAfter DEF Attended, IdleIffDrained

\* The callback ends without work to admit.
LEMMA NoHardwareKeeps ==
    ASSUME EffectsInv, NEW r \in Resources, ResumeWithoutHardware(r)
    PROVE  Attended' /\ CountsMatch'
  <1>1. WakeupInv /\ Attended /\ IdleIffDrained /\ queues \in Queues
        /\ count \in Int /\ cleanupCount \in Int
    BY Counted DEF EffectsInv, CountsMatch, WakeupInv, EffectsTypeOK
  <1>2. /\ queues' = queues /\ count' = count /\ cleanupCount' = cleanupCount
        /\ notifying' = FALSE /\ runner[r] = "notifying"
        /\ ContinueOrEnd(r, queues[r], count, FALSE)
    BY DEF ResumeWithoutHardware
  <1>3. ~idle /\ idle \in BOOLEAN
    BY <1>1, <1>2 DEF WakeupInv, OneNotifier, IdleIffDrained, EffectsTypeOK
  <1>4. count = 0 => queues[r] = <<>>
    BY Counted
  <1>5. IdleIffDrained'
    <2>1. idle' = (count = 0)
      BY <1>2, <1>3, <1>4 DEF ContinueOrEnd
    <2> QED
      BY <1>2, <2>1 DEF IdleIffDrained
  <1>6. Attended'
    <2>1. \A s \in Resources : runner'[s] =
             IF s = r THEN (IF queues[r] = <<>> THEN "none" ELSE "running") ELSE runner[s]
      BY <1>1, <1>2 DEF ContinueOrEnd, WakeupInv, EffectsTypeOK
    <2> QED
      BY <1>1, <1>2, <2>1 DEF Attended
  <1>7. Ordinary' = Ordinary
    BY <1>2 DEF Ordinary
  <1> QED
    BY <1>1, <1>2, <1>5, <1>6, <1>7, Counted, CountedAfter

\* Every step preserves the invariant and is a step of EffectReserves, or changes
\* nothing that EffectReserves sees.
LEMMA EffectsStep ==
    EffectsInv /\ [EffectsNext]_effects
        => EffectsInv' /\ [Reserves!Next]_<<queues, (scope = "open")>>
  <1> SUFFICES ASSUME EffectsInv, [EffectsNext]_effects
               PROVE  EffectsInv' /\ [Reserves!Next]_<<queues, (scope = "open")>>
    OBVIOUS
  <1>0. WakeupInv'
    BY WakeupInvStep DEF EffectsInv
  <1> SUFFICES Attended' /\ CountsMatch' /\ [Reserves!Next]_<<queues, (scope = "open")>>
    BY <1>0 DEF EffectsInv
  <1>1. ASSUME NEW r \in Resources, NEW class \in Classes, Submit(r, class)
        PROVE  Attended' /\ CountsMatch' /\ Reserves!Next
    <2>1. Attended' /\ CountsMatch' /\ Reserves!Accept({r}, class)
      BY <1>0, <1>1, AdmitKeeps DEF Submit
    <2> QED
      BY <2>1 DEF Reserves!Next, Classes, Reserves!Classes
  <1>2. ASSUME NEW r \in Resources, Prepare(r)
        PROVE  Attended' /\ CountsMatch' /\ Reserves!Next
    <2>1. Admit(r, "ordinary") /\ "ordinary" \in Classes /\ notifying' = notifying /\ scope' = scope
      BY <1>2 DEF Prepare, Classes
    <2>2. Attended' /\ CountsMatch' /\ Reserves!Accept({r}, "ordinary")
      BY <1>0, <2>1, AdmitKeeps
    <2> QED
      BY <2>2 DEF Reserves!Next, Reserves!Classes
  <1>3. ASSUME NEW r \in Resources, Defer(r) \/ Retire(r)
        PROVE  Attended' /\ CountsMatch' /\ queues' = queues /\ scope' = scope
    BY <1>3, QuietKeeps DEF Defer, Retire
  <1>4. ASSUME NEW r \in Resources, Finish(r)
        PROVE  Attended' /\ CountsMatch' /\ Reserves!Next
    BY <1>0, <1>4, FinishKeeps DEF Reserves!Next
  <1>5. ASSUME NEW r \in Resources, Resume(r)
        PROVE  Attended' /\ CountsMatch' /\ Reserves!Next
    <2>1. Attended' /\ CountsMatch' /\ \E rs \in SUBSET Resources : Reserves!Accept(rs, "ordinary")
      BY <1>0, <1>5, ResumeKeeps
    <2> QED
      BY <2>1 DEF Reserves!Next, Reserves!Classes
  <1>6. ASSUME NEW r \in Resources, ResumeWithoutHardware(r)
        PROVE  Attended' /\ CountsMatch' /\ queues' = queues /\ scope' = scope
    BY <1>6, NoHardwareKeeps DEF ResumeWithoutHardware
  <1>7. ASSUME NEW r \in Resources, Unwind(r)
        PROVE  Attended' /\ CountsMatch' /\ (Reserves!Next \/ (queues' = queues /\ scope' = scope))
    BY <1>0, <1>7, UnwindKeeps DEF Reserves!Next
  <1>8. CASE CancelScope
    <2>1. Attended' /\ CountsMatch'
      BY <1>8, QuietKeeps DEF CancelScope
    <2>2. Reserves!End
      BY <1>8 DEF CancelScope, Reserves!End
    <2> QED
      BY <2>1, <2>2 DEF Reserves!Next
  <1>9. CASE CloseScope
    <2>1. Attended' /\ CountsMatch'
      BY <1>9, QuietKeeps DEF CloseScope
    <2>2. queues' = queues /\ (scope = "open")' = (scope = "open")
      BY <1>9 DEF CloseScope
    <2> QED
      BY <2>1, <2>2
  <1>10. CASE UNCHANGED effects
    <2>1. Attended' /\ CountsMatch'
      BY <1>10, QuietKeeps DEF effects
    <2>2. queues' = queues /\ scope' = scope
      BY <1>10 DEF effects
    <2> QED
      BY <2>1, <2>2
  <1>11. CASE EffectsNext
    BY <1>1, <1>2, <1>3, <1>4, <1>5, <1>6, <1>7, <1>8, <1>9, <1>11 DEF EffectsNext
  <1> QED
    BY <1>10, <1>11

\* At the start there is no work and the idle event is set.
LEMMA EffectsBegin == EffectsInit => EffectsInv /\ Reserves!Init
  <1> SUFFICES ASSUME EffectsInit PROVE EffectsInv /\ Reserves!Init
    OBVIOUS
  <1>1. queues = [r \in Resources |-> <<>>] /\ scope = "open" /\ count = 0 /\ cleanupCount = 0
        /\ notifying = FALSE /\ idle = TRUE
    BY DEF EffectsInit
  <1>2. Attended /\ IdleIffDrained
    BY <1>1 DEF Attended, IdleIffDrained
  <1>3. \A class : Reserves!Held(class) = 0
    <2>1. \A class : Reserves!Work(class) = {}
      BY <1>1 DEF Reserves!Work
    <2>2. Cardinality({}) = 0
      BY FS_EmptySet
    <2> QED
      BY <2>1, <2>2, SameCardinality DEF Reserves!Held
  <1>4. CountsMatch
    BY <1>1, <1>2, <1>3 DEF CountsMatch, Ordinary
  <1>5. Reserves!Init
    BY <1>1 DEF Reserves!Init
  <1> QED
    BY <1>2, <1>4, <1>5, WakeupInvInit DEF EffectsInv

\* The counters that submit compares with the capacity are what the queues hold,
\* and the idle event that shutdown waits for is set exactly when they hold
\* nothing and no callback runs, for any number of action instances.
THEOREM CountersMatchQueues == EffectsSpec => []CountsMatch
  <1>1. EffectsInv => CountsMatch
    BY DEF EffectsInv
  <1> QED
    BY <1>1, EffectsBegin, EffectsStep, PTL DEF EffectsSpec

\* The runners, counters and callback of _session_effects.py do what the callers
\* are promised: bounded work of two classes, in order for each resource, dropped
\* only once the session ends.
THEOREM EffectsImplementReserves == EffectsSpec => ImplementsReserves
  <1> QED
    BY EffectsBegin, EffectsStep, PTL DEF EffectsSpec, ImplementsReserves, Reserves!Spec
=============================================================================
