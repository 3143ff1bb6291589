---------------------------- MODULE ConfigProjection ----------------------------
(****************************************************************************)
(* MaterializedDeviceConfigService: the configurations of a controller are  *)
(* one projection in a bucket that several editors write.  The service      *)
(* follows it, keeps what it last validated while it cannot, edits it with  *)
(* revision-checked updates, and reports in the bucket what is active.      *)
(****************************************************************************)
EXTENDS Integers, FiniteSets

CONSTANTS
    Projections,    \* the sets of configurations that other editors publish
    Writes,         \* the configurations that calls of write_config have
    Attempts,       \* of one call
    MaxEvents       \* bound on what others do to the bucket, and on its failures

\* What the bucket has: a valid projection, one that is not, or none since a revision.
Entry(kind, configs, rev) == [kind |-> kind, configs |-> configs, rev |-> rev]

VARIABLES
    bucket,     \* its entry
    source,     \* KvMaterializedSource: the entry it has seen, and is_current
    woken,      \* the watch loop has a change to look at
    active,     \* _config_by_id
    adopted,    \* the revision it was adopted from
    turn,       \* who holds _reconcile_lock, the entry it read and what it has still to do
    result,     \* the result in the bucket, and whether the last one got there
    writer,     \* each call of write_config: where it is and the entry it read
    left

projection == <<bucket, source, woken, active, adopted, turn, result, writer, left>>

Nobody == "nobody"
Watch == "watch"
Call == "call"          \* of write_config
NoRevision == 0
Free == [by |-> Nobody, ph |-> "none", entry |-> Entry("missing", {}, NoRevision)]
Ids(configs) == {c.id : c \in configs}

ProjectionInit ==
    /\ \E p \in Projections : bucket = Entry("valid", p, 1)
    /\ source = [entry |-> bucket, current |-> TRUE]
    /\ woken = TRUE
    /\ active = bucket.configs
    /\ adopted = 1
    /\ turn = Free
    /\ result = [status |-> "active", ids |-> Ids(active), rev |-> 1, told |-> TRUE]
    /\ writer = [w \in Writes |-> [ph |-> "none", attempt |-> 0, read |-> bucket]]
    /\ left = MaxEvents

----------------------------------------------------------------------------
(* Other editors, and the source that follows the bucket (external) *)

Stored(kind, configs) == bucket' = Entry(kind, configs, bucket.rev + 1)

\* A whole projection is put there, or one that is not valid, or it is deleted.
Publish ==
    /\ left > 0 /\ left' = left - 1
    /\ \/ \E p \in Projections : Stored("valid", p)
       \/ Stored("invalid", {})
       \/ bucket.kind # "missing" /\ Stored("missing", {})
    /\ UNCHANGED <<source, woken, active, adopted, turn, result, writer>>

\* The source sees the entry of the bucket, at once or after it was cut off.
Observe ==
    /\ source # [entry |-> bucket, current |-> TRUE]
    /\ source' = [entry |-> bucket, current |-> TRUE]
    /\ woken' = TRUE
    /\ UNCHANGED <<bucket, active, adopted, turn, result, writer, left>>

CutOff ==
    /\ left > 0 /\ left' = left - 1
    /\ source.current /\ source' = [source EXCEPT !.current = FALSE]
    /\ woken' = TRUE
    /\ UNCHANGED <<bucket, active, adopted, turn, result, writer>>

----------------------------------------------------------------------------
(* _reconcile *)

\* With _reconcile_lock what the source has now is read, unless it is not current.  What
\* is active is replaced under a lock of its own; for an entry that is not valid there is
\* only a result to put.
Take(who) ==
    /\ turn.by = Nobody
    /\ turn' = IF source.current
               THEN [by |-> who, entry |-> source.entry,
                     ph |-> IF source.entry.kind = "invalid" THEN "report" ELSE "replace"]
               ELSE Free

TakeChange ==
    /\ woken /\ Take(Watch)
    /\ woken' = FALSE
    /\ UNCHANGED <<bucket, source, active, adopted, result, writer, left>>

\* Mutant: the call adopts what it wrote, whatever has come since.
TakeOwnWrite(w) ==
    /\ writer[w].ph = "reconcile" /\ turn.by = Nobody
    /\ turn' = [by |-> Call, ph |-> "replace",
                entry |-> Entry("valid", {c \in writer[w].read.configs : c.id # w.id} \union {w},
                                writer[w].read.rev)]
    /\ writer' = [writer EXCEPT ![w].ph = "end"]
    /\ UNCHANGED <<bucket, source, woken, active, adopted, result, left>>

TakeWrite(w) ==
    /\ writer[w].ph = "reconcile" /\ Take(Call)
    /\ writer' = [writer EXCEPT ![w].ph = "end"]
    /\ UNCHANGED <<bucket, source, woken, active, adopted, result, left>>

\* Mutant: a projection that is deleted stays active.
AdoptedKeeps == IF turn.entry.kind = "valid" THEN turn.entry.configs ELSE active

\* What becomes of the active configurations.
AdoptedConfigs == IF turn.entry.kind = "valid" THEN turn.entry.configs ELSE {}

\* The entry that was read is adopted, whatever the source has by now.
Replace ==
    /\ turn.ph = "replace"
    /\ active' = AdoptedConfigs
    /\ adopted' = turn.entry.rev
    /\ turn' = [turn EXCEPT !.ph = "report"]
    /\ UNCHANGED <<bucket, source, woken, result, writer, left>>

\* What the result says of an entry of this kind.
StatusOf(kind) == CASE kind = "valid" -> "active"
                    [] kind = "missing" -> "missing"
                    [] OTHER -> "rejected"

\* The revision it names.
RevisionOf(entry) == IF entry.kind = "missing" THEN NoRevision ELSE entry.rev

\* The result is put while the lock is held.
Report ==
    /\ turn.ph = "report"
    /\ result' = [status |-> StatusOf(turn.entry.kind), ids |-> Ids(active),
                  rev |-> RevisionOf(turn.entry), told |-> TRUE]
    /\ turn' = Free
    /\ UNCHANGED <<bucket, source, woken, active, adopted, writer, left>>

\* The bucket cannot be written: nobody learns this result.
ReportFails ==
    /\ turn.ph = "report" /\ left > 0
    /\ result' = [result EXCEPT !.told = FALSE]
    /\ turn' = Free /\ left' = left - 1
    /\ UNCHANGED <<bucket, source, woken, active, adopted, writer>>

----------------------------------------------------------------------------
(* write_config *)

\* One call at a time, to the end of its _reconcile.
BeginWrite(w) ==
    /\ writer[w].ph = "none" /\ turn.by # Call
    /\ \A v \in Writes : writer[v].ph \in {"none", "end"}
    /\ writer' = [writer EXCEPT ![w].ph = "read"]
    /\ UNCHANGED <<bucket, source, woken, active, adopted, turn, result, left>>

\* An entry that is not valid cannot be edited.
ReadEntry(w) ==
    /\ writer[w].ph = "read"
    /\ writer' = [writer EXCEPT ![w] =
                    [ph |-> IF bucket.kind = "invalid" THEN "end" ELSE "commit",
                     attempt |-> @.attempt + 1, read |-> bucket]]
    /\ UNCHANGED <<bucket, source, woken, active, adopted, turn, result, left>>

\* Mutant: whatever was written meanwhile is replaced.
UnchangedAnyway(w) == TRUE

\* create needs that there is none, update the revision that was read.
Unchanged(w) == LET read == writer[w].read IN
    IF read.kind = "missing" THEN bucket.kind = "missing" ELSE bucket.rev = read.rev

Edited(w) == {c \in writer[w].read.configs : c.id # w.id} \union {w}

Commit(w) ==
    /\ writer[w].ph = "commit"
    /\ IF Unchanged(w)
       THEN /\ Stored("valid", Edited(w))
            /\ writer' = [writer EXCEPT ![w].ph = "wait", ![w].read.rev = bucket.rev + 1]
       ELSE /\ writer' = [writer EXCEPT ![w].ph = IF writer[w].attempt < Attempts THEN "read" ELSE "end"]
            /\ UNCHANGED bucket
    /\ UNCHANGED <<source, woken, active, adopted, turn, result, left>>

\* wait_for_revision: the source has seen this write, or what came after it.
Awaited(w) ==
    /\ writer[w].ph = "wait" /\ source.entry.rev >= writer[w].read.rev
    /\ writer' = [writer EXCEPT ![w].ph = "reconcile"]
    /\ UNCHANGED <<bucket, source, woken, active, adopted, turn, result, left>>

WriterStep(w) == ReadEntry(w) \/ Commit(w) \/ Awaited(w) \/ TakeWrite(w)

ProjectionNext ==
    \/ Publish \/ Observe \/ CutOff \/ TakeChange \/ Replace \/ Report \/ ReportFails
    \/ \E w \in Writes : BeginWrite(w) \/ WriterStep(w)

ProjectionSpec == ProjectionInit /\ [][ProjectionNext]_projection

\* The source, the watch loop and the calls go on; their steps are finitely many.
Working == Observe \/ TakeChange \/ Replace \/ Report \/ \E w \in Writes : WriterStep(w)
FairProjectionSpec == ProjectionSpec /\ WF_projection(Working)

----------------------------------------------------------------------------
\* An edit changes its own configuration and keeps what other editors wrote, also
\* between its reading and its writing.
EditsKeepOthers ==
    [][\A w \in Writes : writer[w].ph = "commit" /\ bucket'.rev # bucket.rev
                            /\ writer'[w].ph = "wait" =>
          {c \in bucket'.configs : c.id # w.id} =
              {c \in bucket.configs : c.id # w.id}]_projection

\* Nothing older is adopted after something newer, whoever reconciles; and what is
\* active changes only with a later revision that the source has seen, so never because
\* the source is cut off, sees what is not valid, or sees again what is adopted.
AdoptedInOrder ==
    [][/\ adopted' >= adopted
       /\ active' # active => adopted' > adopted /\ adopted' <= source.entry.rev]_projection

Quiet == ~woken /\ turn = Free

\* When there is nothing to look at, what is active is what the source has, if that is
\* valid; and the result in the bucket says so, unless it could not be written.
ActiveIsSource ==
    Quiet /\ source.current =>
        /\ source.entry.kind = "valid" => active = source.entry.configs
        /\ source.entry.kind = "missing" => active = {}
        /\ result.told => /\ result.rev = RevisionOf(source.entry)
                          /\ result.ids = Ids(active)
                          /\ result.status = StatusOf(source.entry.kind)

==============================================================================
