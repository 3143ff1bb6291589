--------------------------- MODULE StateGateProofs ---------------------------
(* Proofs about StateGate for any set of tasks and any depth of nesting.     *)
(* The argument is the conservation of one token: GateInv says that the      *)
(* token is free or has exactly one holder, that the owner field names the   *)
(* holder that is inside, and that a free token leaves no live waiter; each  *)
(* step hands the token to at most one task.                                 *)
EXTENDS StateGate, SequenceTheorems, TLAPS

USE DEF Places, Waiting, Holders

\* Dequeuing a future leaves a queue of tasks.
LEMMA DequeueIsSeq ==
    ASSUME waiters \in Seq(Tasks), NEW t, Dequeue(t)
    PROVE  waiters' \in Seq(Tasks)
  <1>1. PICK i \in 1..Len(waiters) :
          waiters' = SubSeq(waiters, 1, i - 1) \o SubSeq(waiters, i + 1, Len(waiters))
    <2>1. DOMAIN waiters = 1..Len(waiters)
      OBVIOUS
    <2>2. PICK i \in 1..Len(waiters) : waiters' = RemoveAt(waiters, i)
      BY <2>1 DEF Dequeue
    <2> QED
      BY <2>2 DEF RemoveAt
  <1>2. /\ SubSeq(waiters, 1, i - 1) \in Seq(Tasks)
        /\ SubSeq(waiters, i + 1, Len(waiters)) \in Seq(Tasks)
    OBVIOUS
  <1> QED
    BY <1>1, <1>2

\* A release by the only holder leaves the token free or with one holder, and
\* changes nobody's "inside" but the releasing task's.
LEMMA ReleaseHandsOn ==
    ASSUME GateTypeOK, NoStrandedWaiter, NEW t \in Tasks, Holders = {t},
           value = 0, ReleaseBy(t)
    PROVE  /\ value' \in {0, 1}
           /\ waiters' \in Seq(Tasks)
           /\ where' \in [Tasks -> Places]
           /\ TokenConserved'
           /\ NoStrandedWaiter'
           /\ \A u \in Tasks : where'[u] # "inside"
  <1>1. where[t] \in {"granted", "inside"} /\ \A u \in Tasks \ {t} : where[u] \notin {"granted", "inside"}
    OBVIOUS
  <1>2. CASE /\ Waiting = {}
             /\ value' = 1
             /\ waiters' = waiters
             /\ where' = [where EXCEPT ![t] = "out"]
    <2>1. \A u \in Tasks : where'[u] \notin {"granted", "inside", "waiting"}
      BY <1>1, <1>2 DEF GateTypeOK
    <2> QED
      BY <1>2, <2>1 DEF GateTypeOK, TokenConserved, NoStrandedWaiter
  <1>3. ASSUME NEW u \in Waiting,
               value' = value,
               Dequeue(u),
               where' = [where EXCEPT ![t] = "out", ![u] = "granted"]
        PROVE  /\ value' \in {0, 1}
               /\ waiters' \in Seq(Tasks)
               /\ where' \in [Tasks -> Places]
               /\ TokenConserved'
               /\ NoStrandedWaiter'
               /\ \A v \in Tasks : where'[v] # "inside"
    <2>1. u \in Tasks /\ u # t
      BY <1>1, <1>3
    <2>2. \A v \in Tasks : where'[v] = IF v = u THEN "granted"
                                       ELSE IF v = t THEN "out" ELSE where[v]
      BY <1>3, <2>1 DEF GateTypeOK
    <2>3. Holders' = {u}
      BY <1>1, <2>1, <2>2
    <2>4. waiters' \in Seq(Tasks)
      BY <1>3, DequeueIsSeq DEF GateTypeOK
    <2>5. where' \in [Tasks -> Places]
      BY <1>3, <2>1 DEF GateTypeOK
    <2> QED
      BY <1>1, <1>3, <2>1, <2>2, <2>3, <2>4, <2>5
      DEF GateTypeOK, TokenConserved, NoStrandedWaiter
  <1> QED
    BY <1>2, <1>3 DEF ReleaseBy

LEMMA GateInvInit == GateInit => GateInv
  BY GateAssumption DEF GateInit, GateInv, GateTypeOK, TokenConserved, OwnerIsInside, NoStrandedWaiter

\* Every step of the gate preserves GateInv.
LEMMA GateInvStep == GateInv /\ [GateNext]_gate => GateInv'
  <1> SUFFICES ASSUME GateInv, [GateNext]_gate
               PROVE  GateInv'
    OBVIOUS
  <1> USE GateAssumption
  <1>0. /\ GateTypeOK /\ TokenConserved /\ OwnerIsInside /\ NoStrandedWaiter
    BY DEF GateInv
  <1>1. ASSUME NEW t \in Tasks, Enter(t) PROVE GateInv'
    <2>1. Holders = {} /\ Waiting = {} /\ owner = NoTask
      BY <1>0, <1>1 DEF Enter, TokenConserved, NoStrandedWaiter, OwnerIsInside, GateTypeOK
    <2>2. Holders' = {t}
      BY <1>0, <1>1, <2>1 DEF Enter, TakeToken, GateTypeOK
    <2> QED
      BY <1>0, <1>1, <2>1, <2>2
      DEF Enter, TakeToken, GateInv, GateTypeOK, TokenConserved, OwnerIsInside, NoStrandedWaiter
  <1>2. ASSUME NEW t \in Tasks, EnterBlocked(t) PROVE GateInv'
    <2>1. Holders' = Holders
      BY <1>0, <1>2 DEF EnterBlocked, GateTypeOK
    <2>2. waiters' \in Seq(Tasks)
      BY <1>0, <1>2 DEF EnterBlocked, GateTypeOK
    <2> QED
      BY <1>0, <1>2, <2>1, <2>2
      DEF EnterBlocked, GateInv, GateTypeOK, TokenConserved, OwnerIsInside, NoStrandedWaiter
  <1>3. ASSUME NEW t \in Tasks, Reenter(t) \/ ExitNested(t) PROVE GateInv'
    BY <1>0, <1>3
    DEF Reenter, ExitNested, GateInv, GateTypeOK, TokenConserved, OwnerIsInside, NoStrandedWaiter
  <1>4. ASSUME NEW t \in Tasks, Exit(t) PROVE GateInv'
    <2>1. Holders = {t} /\ value = 0
      BY <1>0, <1>4 DEF Exit, TokenConserved, OwnerIsInside
    <2>2. /\ value' \in {0, 1}
          /\ waiters' \in Seq(Tasks)
          /\ where' \in [Tasks -> Places]
          /\ TokenConserved'
          /\ NoStrandedWaiter'
          /\ \A u \in Tasks : where'[u] # "inside"
      BY <1>0, <1>4, <2>1, ReleaseHandsOn DEF Exit
    <2> QED
      BY <1>4, <2>2 DEF Exit, GateInv, GateTypeOK, OwnerIsInside
  <1>5. ASSUME NEW t \in Tasks, RunOn(t) PROVE GateInv'
    <2>1. Holders = {t} /\ value = 0 /\ owner = NoTask
      BY <1>0, <1>5 DEF RunOn, TokenConserved, OwnerIsInside, GateTypeOK
    <2>2. Holders' = {t}
      BY <1>0, <1>5, <2>1 DEF RunOn, GateTypeOK
    <2> QED
      BY <1>0, <1>5, <2>1, <2>2
      DEF RunOn, GateInv, GateTypeOK, TokenConserved, OwnerIsInside, NoStrandedWaiter
  <1>6. ASSUME NEW t \in Tasks, CancelWaiting(t) PROVE GateInv'
    <2>1. Holders' = Holders
      BY <1>0, <1>6 DEF CancelWaiting, GateTypeOK
    <2> QED
      BY <1>0, <1>6, <2>1
      DEF CancelWaiting, GateInv, GateTypeOK, TokenConserved, OwnerIsInside, NoStrandedWaiter
  <1>7. ASSUME NEW t \in Tasks, LeaveQueue(t) PROVE GateInv'
    <2>1. Holders' = Holders
      BY <1>0, <1>7 DEF LeaveQueue, GateTypeOK
    <2>2. waiters' \in Seq(Tasks)
      BY <1>0, <1>7, DequeueIsSeq DEF LeaveQueue, GateTypeOK
    <2> QED
      BY <1>0, <1>7, <2>1, <2>2
      DEF LeaveQueue, GateInv, GateTypeOK, TokenConserved, OwnerIsInside, NoStrandedWaiter
  <1>8. ASSUME NEW t \in Tasks, CancelGranted(t) PROVE GateInv'
    <2>1. Holders = {t} /\ value = 0 /\ owner = NoTask
      BY <1>0, <1>8 DEF CancelGranted, TokenConserved, OwnerIsInside, GateTypeOK
    <2>2. /\ value' \in {0, 1}
          /\ waiters' \in Seq(Tasks)
          /\ where' \in [Tasks -> Places]
          /\ TokenConserved'
          /\ NoStrandedWaiter'
          /\ \A u \in Tasks : where'[u] # "inside"
      BY <1>0, <1>8, <2>1, ReleaseHandsOn DEF CancelGranted
    <2> QED
      BY <1>0, <1>8, <2>1, <2>2 DEF CancelGranted, GateInv, GateTypeOK, OwnerIsInside
  <1>9. CASE UNCHANGED gate
    BY <1>0, <1>9
    DEF gate, GateInv, GateTypeOK, TokenConserved, OwnerIsInside, NoStrandedWaiter
  <1> QED
    BY <1>1, <1>2, <1>3, <1>4, <1>5, <1>6, <1>7, <1>8, <1>9 DEF GateNext

\* The token, its owner and its waiters stay consistent for any number of
\* tasks, entries and cancellations of _state_gate.py.
THEOREM GateInvariant == GateSpec => []GateInv
  <1> QED
    BY GateInvInit, GateInvStep, PTL DEF GateSpec

\* Two handlers of one device session never overlap.
THEOREM GateExcludes == GateSpec => []MutualExclusion
  <1>1. GateInv => MutualExclusion
    BY DEF GateInv, TokenConserved, MutualExclusion
  <1> QED
    BY <1>1, GateInvariant, PTL

\* A cancelled waiter that is still unwinding never leaves a live task queued
\* for a free token.
THEOREM GateStrandsNobody == GateSpec => []NoStrandedWaiter
  <1>1. GateInv => NoStrandedWaiter
    BY DEF GateInv
  <1> QED
    BY <1>1, GateInvariant, PTL

\* The token goes to a live waiter only in the order of arrival, and to an
\* arriving task only when nobody live is queued.
THEOREM GateIsFifo == GateSpec => FifoHandoff
  <1>1. ASSUME GateInv, [GateNext]_gate
        PROVE  [\A t, u \in Tasks :
                  /\ t \notin Holders /\ t \in Holders'
                  /\ u \in Waiting /\ u \in Waiting'
                  => t \in Waiting /\ ~QueuedBefore(u, t)]_gate
    <2> SUFFICES ASSUME GateNext, NEW t \in Tasks, NEW u \in Tasks,
                        t \notin Holders, t \in Holders',
                        u \in Waiting, u \in Waiting'
                 PROVE  t \in Waiting /\ ~QueuedBefore(u, t)
      BY <1>1
    <2>1. PICK s \in Tasks :
            \/ Enter(s) \/ EnterBlocked(s) \/ Reenter(s)
            \/ ExitNested(s) \/ Exit(s) \/ RunOn(s)
            \/ CancelWaiting(s) \/ LeaveQueue(s) \/ CancelGranted(s)
      BY DEF GateNext
    <2>2. CASE Enter(s)
      BY <1>1, <2>2 DEF Enter, GateInv, NoStrandedWaiter
    <2>3. CASE ReleaseBy(s)
      <3>1. PICK v \in Waiting :
              /\ \A w \in Waiting \ {v} : ~QueuedBefore(w, v)
              /\ where' = [where EXCEPT ![s] = "out", ![v] = "granted"]
        BY <2>3 DEF ReleaseBy
      <3>2. t = v /\ u # v
        BY <1>1, <3>1 DEF GateInv, GateTypeOK
      <3> QED
        BY <3>1, <3>2
    <2>4. CASE EnterBlocked(s) \/ CancelWaiting(s) \/ LeaveQueue(s) \/ RunOn(s)
      BY <1>1, <2>4 DEF GateInv, GateTypeOK, EnterBlocked, CancelWaiting, LeaveQueue, RunOn
    <2>5. CASE Reenter(s) \/ ExitNested(s)
      BY <2>5 DEF Reenter, ExitNested
    <2> QED
      BY <2>1, <2>2, <2>3, <2>4, <2>5 DEF Exit, CancelGranted
  <1> QED
    BY <1>1, GateInvariant, PTL DEF GateSpec, FifoHandoff
=============================================================================
