------------------------------ MODULE StateGate ------------------------------
(****************************************************************************)
(* The session boundary of _state_gate.py: a reentrant lock over            *)
(* anyio.Semaphore(1).  Every handler of a device session (input, command,  *)
(* availability, navigation, expiry, operation completion) runs its         *)
(* transition inside "async with boundary".                                 *)
(*                                                                          *)
(* A task that cannot take the token parks a future in the semaphore's      *)
(* queue.  Cancelling it marks the future, but the future stays queued      *)
(* until the task runs again and unwinds; a release passes over it.  A task *)
(* that was handed the token and is then cancelled hands it on.             *)
(****************************************************************************)
EXTENDS Integers, SequencesExt

CONSTANTS
    Tasks,      \* the tasks of one device session
    NoTask,     \* "nobody owns the gate"
    MaxDepth    \* bound on nested entries by one owner

ASSUME GateAssumption ==
    /\ NoTask \notin Tasks
    /\ MaxDepth \in Nat \ {0}

VARIABLES
    value,      \* the semaphore's value: 1 when the token is free
    waiters,    \* futures queued by acquire(), oldest first
    where,      \* where[t]: how far t is into "async with boundary"
    owner,      \* StateGate._owner
    depth       \* StateGate._depth

gate == <<value, waiters, where, owner, depth>>

Places == {"out",        \* not in the boundary
           "waiting",    \* its future is queued and pending
           "granted",    \* its future was resolved; the task has not run yet
           "cancelled",  \* its future was cancelled; the task has not unwound
           "inside"}     \* it holds the gate

GateTypeOK ==
    /\ value \in {0, 1}
    /\ waiters \in Seq(Tasks)
    /\ where \in [Tasks -> Places]
    /\ owner \in Tasks \union {NoTask}
    /\ depth \in 0..MaxDepth

GateInit ==
    /\ value = 1
    /\ waiters = <<>>
    /\ where = [t \in Tasks |-> "out"]
    /\ owner = NoTask
    /\ depth = 0

Waiting == {t \in Tasks : where[t] = "waiting"}
Holders == {t \in Tasks : where[t] \in {"granted", "inside"}}

\* u's future is queued before t's.
QueuedBefore(u, t) ==
    \E i, j \in DOMAIN waiters : i < j /\ waiters[i] = u /\ waiters[j] = t

\* t's future leaves the queue.
Dequeue(t) ==
    \E i \in DOMAIN waiters :
        /\ waiters[i] = t
        /\ waiters' = RemoveAt(waiters, i)

\* Mutant: any pending future is resolved, not the oldest one.
ReleaseToAny(t) ==
    \/ /\ Waiting = {}
       /\ value' = 1
       /\ waiters' = waiters
       /\ where' = [where EXCEPT ![t] = "out"]
    \/ \E u \in Waiting :
          /\ value' = value
          /\ Dequeue(u)
          /\ where' = [where EXCEPT ![t] = "out", ![u] = "granted"]

(****************************************************************************)
(* Semaphore.release() by a task that ends in place "out": the oldest       *)
(* pending future is resolved and dequeued; the token becomes free only if  *)
(* no future is pending.                                                    *)
(****************************************************************************)
ReleaseBy(t) ==
    \/ /\ Waiting = {}
       /\ value' = 1
       /\ waiters' = waiters
       /\ where' = [where EXCEPT ![t] = "out"]
    \/ \E u \in Waiting :
          /\ \A v \in Waiting \ {u} : ~QueuedBefore(v, u)
          /\ value' = value
          /\ Dequeue(u)
          /\ where' = [where EXCEPT ![t] = "out", ![u] = "granted"]

----------------------------------------------------------------------------
(* __aenter__ and __aexit__ *)

TakeToken(t) ==
    /\ value' = 0
    /\ where' = [where EXCEPT ![t] = "inside"]
    /\ owner' = t
    /\ depth' = 1
    /\ UNCHANGED waiters

\* acquire_nowait succeeds: the free token is taken past any cancelled future
\* still queued.
Enter(t) ==
    /\ where[t] = "out"
    /\ value = 1
    /\ TakeToken(t)

\* Mutant: plain acquire() also queues behind a cancelled future.
EnterBlockedPlain(t) ==
    /\ where[t] = "out"
    /\ value = 0 \/ waiters # <<>>
    /\ waiters' = Append(waiters, t)
    /\ where' = [where EXCEPT ![t] = "waiting"]
    /\ UNCHANGED <<value, owner, depth>>

\* acquire_nowait raises WouldBlock: acquire() queues a future.
EnterBlocked(t) ==
    /\ where[t] = "out"
    /\ value = 0
    /\ waiters' = Append(waiters, t)
    /\ where' = [where EXCEPT ![t] = "waiting"]
    /\ UNCHANGED <<value, owner, depth>>

\* The owner enters again: no token is needed.
Reenter(t) ==
    /\ owner = t
    /\ depth < MaxDepth
    /\ depth' = depth + 1
    /\ UNCHANGED <<value, waiters, where, owner>>

\* A nested block ends.
ExitNested(t) ==
    /\ owner = t
    /\ depth > 1
    /\ depth' = depth - 1
    /\ UNCHANGED <<value, waiters, where, owner>>

\* The outermost block ends: the owner is cleared and the token released.
Exit(t) ==
    /\ owner = t
    /\ depth = 1
    /\ depth' = 0
    /\ owner' = NoTask
    /\ ReleaseBy(t)

\* A task handed the token runs on from "await acquire()".
RunOn(t) ==
    /\ where[t] = "granted"
    /\ where' = [where EXCEPT ![t] = "inside"]
    /\ owner' = t
    /\ depth' = 1
    /\ UNCHANGED <<value, waiters>>

----------------------------------------------------------------------------
(* Cancellation of a task in "await acquire()" *)

CancelWaiting(t) ==
    /\ where[t] = "waiting"
    /\ where' = [where EXCEPT ![t] = "cancelled"]
    /\ UNCHANGED <<value, waiters, owner, depth>>

LeaveQueue(t) ==
    /\ where[t] = "cancelled"
    /\ Dequeue(t)
    /\ where' = [where EXCEPT ![t] = "out"]
    /\ UNCHANGED <<value, owner, depth>>

\* Mutant: the cancelled task keeps the token.
CancelGrantedLeak(t) ==
    /\ where[t] = "granted"
    /\ where' = [where EXCEPT ![t] = "out"]
    /\ UNCHANGED <<value, waiters, owner, depth>>

\* Cancelled after the handoff: the token it never used is released again.
CancelGranted(t) ==
    /\ where[t] = "granted"
    /\ ReleaseBy(t)
    /\ UNCHANGED <<owner, depth>>

GateNext ==
    \E t \in Tasks :
        \/ Enter(t) \/ EnterBlocked(t) \/ Reenter(t)
        \/ ExitNested(t) \/ Exit(t) \/ RunOn(t)
        \/ CancelWaiting(t) \/ LeaveQueue(t) \/ CancelGranted(t)

(****************************************************************************)
(* A handler terminates, so an owner that keeps coming back to its          *)
(* outermost block leaves it (strong fairness); the event loop runs the     *)
(* task whose future is done (weak fairness).  At most one task is inside   *)
(* or has been handed the token, so nobody hides behind another here.       *)
(* Nothing makes a task enter, nothing makes anybody cancel, and a          *)
(* cancelled task may stay in the queue for ever.                           *)
(****************************************************************************)
GoesOn == \E t \in Tasks : ExitNested(t) \/ RunOn(t) \/ CancelGranted(t)
GateFairness == SF_gate(\E t \in Tasks : Exit(t)) /\ WF_gate(GoesOn)

GateSpec == GateInit /\ [][GateNext]_gate
FairGateSpec == GateSpec /\ GateFairness

----------------------------------------------------------------------------
(* Properties *)

\* Two tasks are never in a transition of the same device session at once,
\* however entries, handoffs and cancellations interleave.
MutualExclusion ==
    \A s, t \in Tasks :
        where[s] = "inside" /\ where[t] = "inside" => s = t

\* A cancelled waiter that has not unwound strands nobody: while the token is
\* free no live task is queued for it.
NoStrandedWaiter == value = 1 => Waiting = {}

\* The single token is never lost nor duplicated: it is free, or one task
\* holds it or has been handed it.
TokenConserved ==
    \/ value = 1 /\ Holders = {}
    \/ value = 0 /\ \E t \in Tasks : Holders = {t}

\* The owner field names exactly the task inside, so the reentrancy test of
\* __aenter__ never lets a second task past nor blocks the owner on itself.
OwnerIsInside ==
    /\ \A t \in Tasks : owner = t <=> where[t] = "inside"
    /\ depth = 0 <=> owner = NoTask

\* The inductive invariant the proofs rest on: what each entry, handoff and
\* cancellation of the gate preserves about the token and its owner.
GateInv == GateTypeOK /\ TokenConserved /\ OwnerIsInside /\ NoStrandedWaiter

\* Nobody gets the token past a live waiter: neither a task that has just
\* arrived (acquire_nowait) nor a waiter queued behind it.
FifoHandoff ==
    [][\A t, u \in Tasks :
          /\ t \notin Holders /\ t \in Holders'
          /\ u \in Waiting /\ u \in Waiting'
          => t \in Waiting /\ ~QueuedBefore(u, t)]_gate

\* Every task that queues for the gate leaves the queue, always again: it gets in or
\* it was cancelled.
WaiterServed ==
    \A t \in Tasks : []<>(where[t] # "waiting")

=============================================================================
