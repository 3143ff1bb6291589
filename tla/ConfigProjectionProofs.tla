------------------------ MODULE ConfigProjectionProofs ------------------------
(****************************************************************************)
(* What holds of the projection for every set of projections and edits,     *)
(* and however many attempts a call has and events there are.               *)
(****************************************************************************)
EXTENDS ConfigProjection, TLAPS

Kinds == {"valid", "invalid", "missing"}

\* An entry that can be in the bucket: where there is none there are no
\* configurations either.
IsEntry(e) ==
    /\ e = [kind |-> e.kind, configs |-> e.configs, rev |-> e.rev]
    /\ e.kind \in Kinds /\ e.rev \in Nat
    /\ e.kind = "missing" => e.configs = {}

Shapes ==
    /\ IsEntry(bucket)
    /\ source = [entry |-> source.entry, current |-> source.current]
    /\ IsEntry(source.entry) /\ source.current \in BOOLEAN /\ woken \in BOOLEAN
    /\ adopted \in Nat
    /\ turn = [by |-> turn.by, ph |-> turn.ph, entry |-> turn.entry]
    /\ IsEntry(turn.entry) /\ turn.ph \in {"none", "replace", "report"}
    /\ turn.by = Nobody <=> turn.ph = "none"
    /\ result = [status |-> result.status, ids |-> result.ids,
                 rev |-> result.rev, told |-> result.told]
    /\ writer = [w \in Writes |-> [ph |-> writer[w].ph, attempt |-> writer[w].attempt,
                                   read |-> writer[w].read]]

\* The source is behind the bucket, and what is active behind the source: a revision
\* is one entry.
Revisions ==
    /\ source.entry.rev <= bucket.rev
    /\ source.entry.rev = bucket.rev => source.entry = bucket
    /\ adopted <= source.entry.rev
    /\ source.entry.rev = adopted /\ source.entry.kind # "invalid" =>
           active = source.entry.configs

\* So is what whoever has the lock has read.
Taken ==
    turn.ph = "replace" =>
        /\ turn.entry.kind # "invalid"
        /\ adopted <= turn.entry.rev /\ turn.entry.rev <= source.entry.rev
        /\ turn.entry.rev = source.entry.rev => turn.entry = source.entry
        /\ turn.entry.rev = adopted => active = turn.entry.configs

\* An entry that a call has read is the one in the bucket if that has its revision.
Reads ==
    \A w \in Writes : writer[w].ph = "commit" =>
        /\ IsEntry(writer[w].read) /\ writer[w].read.rev <= bucket.rev
        /\ writer[w].read.rev = bucket.rev => writer[w].read = bucket

\* Unless the watch loop has a change to look at, whoever has the lock has read what
\* the source has; and what is active, once replaced, and the result follow it.
Follows ==
    ~woken /\ source.current =>
        /\ turn.by # Nobody => turn.entry = source.entry
        /\ turn.ph # "replace" /\ source.entry.kind # "invalid" =>
               active = source.entry.configs
        /\ turn.by = Nobody /\ result.told =>
               /\ result.rev = RevisionOf(source.entry)
               /\ result.ids = Ids(active)
               /\ result.status = StatusOf(source.entry.kind)

ProjectionInv == Shapes /\ Revisions /\ Taken /\ Reads /\ Follows

----------------------------------------------------------------------------
\* ProjectionInv holds at the start.
LEMMA InitProjection == ProjectionInit => ProjectionInv
  <1> SUFFICES ASSUME ProjectionInit PROVE ProjectionInv
    OBVIOUS
  <1>1. PICK p \in Projections : bucket = Entry("valid", p, 1)
    BY DEF ProjectionInit
  <1>2. IsEntry(bucket)
    BY <1>1 DEF IsEntry, Entry, Kinds
  <1>3. IsEntry(Entry("missing", {}, NoRevision))
    BY DEF IsEntry, Entry, Kinds, NoRevision
  <1>4. Shapes
    BY <1>2, <1>3, SMT DEF ProjectionInit, Shapes, Free
  <1>5. Revisions
    BY <1>1 DEF ProjectionInit, Revisions, Entry
  <1>6. Taken /\ Reads /\ Follows
    BY DEF ProjectionInit, Taken, Reads, Follows, Free
  <1> QED BY <1>4, <1>5, <1>6 DEF ProjectionInv

\* Whoever takes the lock and reads the source, turn has its shape.
LEMMA Taking ==
    ASSUME Shapes, NEW who \in {Watch, Call}, Take(who)
    PROVE  /\ turn' = [by |-> turn'.by, ph |-> turn'.ph, entry |-> turn'.entry]
           /\ IsEntry(turn'.entry) /\ turn'.ph \in {"none", "replace", "report"}
           /\ turn'.by = Nobody <=> turn'.ph = "none"
  <1>1. IsEntry(Free.entry)
    BY DEF Free, Entry, NoRevision, IsEntry, Kinds
  <1>2. CASE source.current
    BY <1>2 DEF Take, Shapes, Nobody, Watch, Call
  <1>3. CASE ~source.current
    BY <1>1, <1>3 DEF Take, Free
  <1> QED BY <1>2, <1>3

\* Every step of the service, its source and the other editors preserves it.
LEMMA NextProjection == ProjectionInv /\ [ProjectionNext]_projection => ProjectionInv'
  <1> SUFFICES ASSUME ProjectionInv, [ProjectionNext]_projection PROVE ProjectionInv'
    OBVIOUS
  <1> USE DEF ProjectionInv
  <1>1. CASE Publish
    <2>1. Shapes'
      BY <1>1, SMT DEF Shapes, IsEntry, Kinds, Nobody, Watch, Call, Publish, Stored, Entry
    <2>2. Revisions'
      BY <1>1, SMT DEF Revisions, Taken, Shapes, IsEntry, Kinds, Publish, Stored, Entry
    <2>3. Taken'
      BY <1>1, SMT DEF Revisions, Taken, Shapes, IsEntry, Kinds, Publish, Stored, Entry
    <2>4. Reads'
      BY <1>1, SMT DEF Reads, Shapes, IsEntry, Kinds, Publish, Stored, Entry
    <2>5. Follows'
      BY <1>1, SMT DEF Follows, Shapes, StatusOf, RevisionOf, Nobody, Watch, Call, IsEntry, Kinds, Publish, Stored, Entry
    <2> QED BY <2>1, <2>2, <2>3, <2>4, <2>5
  <1>2. CASE Observe
    <2>1. Shapes'
      BY <1>2, SMT DEF Shapes, IsEntry, Kinds, Nobody, Watch, Call, Observe
    <2>2. Revisions'
      BY <1>2, SMT DEF Revisions, Taken, Shapes, IsEntry, Kinds, Observe
    <2>3. Taken'
      BY <1>2, SMT DEF Revisions, Taken, Shapes, IsEntry, Kinds, Observe
    <2>4. Reads'
      BY <1>2, SMT DEF Reads, Shapes, IsEntry, Kinds, Observe
    <2>5. Follows'
      BY <1>2, SMT DEF Follows, Shapes, StatusOf, RevisionOf, Nobody, Watch, Call, IsEntry, Kinds, Observe
    <2> QED BY <2>1, <2>2, <2>3, <2>4, <2>5
  <1>3. CASE CutOff
    <2>0. source' = [entry |-> source.entry, current |-> FALSE]
      BY <1>3 DEF CutOff, Shapes
    <2>1. Shapes'
      BY <1>3, <2>0 DEF Shapes, IsEntry, CutOff
    <2>2. Revisions'
      BY <1>3, SMT DEF Revisions, Taken, Shapes, IsEntry, Kinds, CutOff
    <2>3. Taken'
      BY <1>3, SMT DEF Revisions, Taken, Shapes, IsEntry, Kinds, CutOff
    <2>4. Reads'
      BY <1>3, SMT DEF Reads, Shapes, IsEntry, Kinds, CutOff
    <2>5. Follows'
      BY <1>3, SMT DEF Follows, Shapes, StatusOf, RevisionOf, Nobody, Watch, Call, IsEntry, Kinds, CutOff
    <2> QED BY <2>1, <2>2, <2>3, <2>4, <2>5
  <1>4. CASE TakeChange
    <2>1. Shapes'
      <3>1. Take(Watch)
        BY <1>4 DEF TakeChange
      <3>2. /\ woken' = FALSE
            /\ UNCHANGED <<bucket, source, active, adopted, result, writer, left>>
        BY <1>4 DEF TakeChange
      <3>3. /\ turn' = [by |-> turn'.by, ph |-> turn'.ph, entry |-> turn'.entry]
            /\ IsEntry(turn'.entry) /\ turn'.ph \in {"none", "replace", "report"}
            /\ turn'.by = Nobody <=> turn'.ph = "none"
        BY <3>1, Taking
      <3> QED BY <3>2, <3>3 DEF Shapes, IsEntry
    <2>2. Revisions'
      BY <1>4, SMT DEF Revisions, Taken, Shapes, IsEntry, Kinds, TakeChange, Take, Free, Entry, NoRevision
    <2>3. Taken'
      BY <1>4, SMT DEF Revisions, Taken, Shapes, IsEntry, Kinds, TakeChange, Take, Free, Entry, NoRevision
    <2>4. Reads'
      BY <1>4, SMT DEF Reads, Shapes, IsEntry, Kinds, TakeChange, Take, Free, Entry, NoRevision
    <2>5. Follows'
      BY <1>4, SMT DEF Follows, Shapes, StatusOf, RevisionOf, Nobody, Watch, Call, IsEntry, Kinds, TakeChange, Take, Free, Entry, NoRevision
    <2> QED BY <2>1, <2>2, <2>3, <2>4, <2>5
  <1>5. CASE Replace
    <2>1. Shapes'
      BY <1>5, SMT DEF Shapes, IsEntry, Kinds, Nobody, Watch, Call, Replace, AdoptedConfigs
    <2>0. /\ active' = turn.entry.configs /\ adopted' = turn.entry.rev
          /\ turn.entry.kind # "invalid" /\ turn.by # Nobody
          /\ turn' = [by |-> turn.by, ph |-> "report", entry |-> turn.entry]
          /\ UNCHANGED <<bucket, source, woken, result, writer>>
      <3>1. turn.entry.kind \in Kinds \ {"invalid"}
        BY <1>5 DEF Replace, Taken, Shapes, IsEntry
      <3>2. active' = turn.entry.configs
        BY <1>5, <3>1 DEF Replace, AdoptedConfigs, Kinds, Shapes, IsEntry
      <3> QED BY <1>5, <3>1, <3>2 DEF Replace, Shapes
    <2>2. Revisions'
      BY <1>5, <2>0 DEF Revisions, Taken, Replace
    <2>3. Taken'
      BY <1>5, SMT DEF Revisions, Taken, Shapes, IsEntry, Kinds, Replace, AdoptedConfigs
    <2>4. Reads'
      BY <1>5, SMT DEF Reads, Shapes, IsEntry, Kinds, Replace, AdoptedConfigs
    <2>5. Follows'
      BY <2>0 DEF Follows
    <2> QED BY <2>1, <2>2, <2>3, <2>4, <2>5
  <1>6. CASE Report
    <2>1. Shapes'
      BY <1>6, SMT DEF Shapes, IsEntry, Kinds, Nobody, Watch, Call, Report, Free, Entry, NoRevision
    <2>2. Revisions'
      BY <1>6, SMT DEF Revisions, Taken, Shapes, IsEntry, Kinds, Report, Free, Entry, NoRevision
    <2>3. Taken'
      BY <1>6, SMT DEF Revisions, Taken, Shapes, IsEntry, Kinds, Report, Free, Entry, NoRevision
    <2>4. Reads'
      BY <1>6, SMT DEF Reads, Shapes, IsEntry, Kinds, Report, Free, Entry, NoRevision
    <2>5. Follows'
      BY <1>6, SMT DEF Follows, Shapes, StatusOf, RevisionOf, Nobody, Watch, Call, IsEntry, Kinds, Report, Free, Entry, NoRevision
    <2> QED BY <2>1, <2>2, <2>3, <2>4, <2>5
  <1>7. CASE ReportFails
    <2>0. result' = [status |-> result.status, ids |-> result.ids,
                     rev |-> result.rev, told |-> FALSE]
      BY <1>7 DEF ReportFails, Shapes
    <2>1. Shapes'
      BY <1>7, <2>0 DEF Shapes, IsEntry, Kinds, Nobody, ReportFails, Free, Entry, NoRevision
    <2>2. Revisions'
      BY <1>7, SMT DEF Revisions, Taken, Shapes, IsEntry, Kinds, ReportFails, Free, Entry, NoRevision
    <2>3. Taken'
      BY <1>7, SMT DEF Revisions, Taken, Shapes, IsEntry, Kinds, ReportFails, Free, Entry, NoRevision
    <2>4. Reads'
      BY <1>7, SMT DEF Reads, Shapes, IsEntry, Kinds, ReportFails, Free, Entry, NoRevision
    <2>5. Follows'
      BY <1>7, SMT DEF Follows, Shapes, StatusOf, RevisionOf, Nobody, Watch, Call, IsEntry, Kinds, ReportFails, Free, Entry, NoRevision
    <2> QED BY <2>1, <2>2, <2>3, <2>4, <2>5
  <1>8. ASSUME NEW w \in Writes, BeginWrite(w) PROVE ProjectionInv'
    <2>1. Shapes'
      BY <1>8, SMT DEF Shapes, IsEntry, Kinds, Nobody, Watch, Call, BeginWrite
    <2>2. Revisions'
      BY <1>8, SMT DEF Revisions, Taken, Shapes, IsEntry, Kinds, BeginWrite
    <2>3. Taken'
      BY <1>8, SMT DEF Revisions, Taken, Shapes, IsEntry, Kinds, BeginWrite
    <2>4. Reads'
      <3> SUFFICES ASSUME NEW v \in Writes, writer'[v].ph = "commit"
                   PROVE  /\ IsEntry(writer'[v].read) /\ writer'[v].read.rev <= bucket'.rev
                          /\ writer'[v].read.rev = bucket'.rev => writer'[v].read = bucket'
        BY DEF Reads, IsEntry
      <3>1. v # w /\ writer'[v] = writer[v]
        BY <1>8 DEF BeginWrite, Shapes
      <3> QED BY <1>8, <3>1 DEF Reads, BeginWrite
    <2>5. Follows'
      BY <1>8, SMT DEF Follows, Shapes, StatusOf, RevisionOf, Nobody, Watch, Call, IsEntry, Kinds, BeginWrite
    <2> QED BY <2>1, <2>2, <2>3, <2>4, <2>5
  <1>9. ASSUME NEW w \in Writes, ReadEntry(w) PROVE ProjectionInv'
    <2>1. Shapes'
      BY <1>9, SMT DEF Shapes, IsEntry, Kinds, Nobody, Watch, Call, ReadEntry
    <2>2. Revisions'
      BY <1>9, SMT DEF Revisions, Taken, Shapes, IsEntry, Kinds, ReadEntry
    <2>3. Taken'
      BY <1>9, SMT DEF Revisions, Taken, Shapes, IsEntry, Kinds, ReadEntry
    <2>4. Reads'
      BY <1>9, SMT DEF Reads, Shapes, IsEntry, Kinds, ReadEntry
    <2>5. Follows'
      BY <1>9, SMT DEF Follows, Shapes, StatusOf, RevisionOf, Nobody, Watch, Call, IsEntry, Kinds, ReadEntry
    <2> QED BY <2>1, <2>2, <2>3, <2>4, <2>5
  <1>10. ASSUME NEW w \in Writes, Commit(w) PROVE ProjectionInv'
    <2>1. Shapes'
      BY <1>10, SMT DEF Shapes, IsEntry, Kinds, Nobody, Watch, Call, Commit, Stored, Entry
    <2>2. Revisions'
      BY <1>10, SMT DEF Revisions, Taken, Shapes, IsEntry, Kinds, Commit, Stored, Entry
    <2>3. Taken'
      BY <1>10, SMT DEF Revisions, Taken, Shapes, IsEntry, Kinds, Commit, Stored, Entry
    <2>4. Reads'
      <3> SUFFICES ASSUME NEW v \in Writes, writer'[v].ph = "commit"
                   PROVE  /\ IsEntry(writer'[v].read) /\ writer'[v].read.rev <= bucket'.rev
                          /\ writer'[v].read.rev = bucket'.rev => writer'[v].read = bucket'
        BY DEF Reads, IsEntry
      <3>1. writer'[w].ph # "commit"
        BY <1>10 DEF Commit, Shapes
      <3>2. writer'[v] = writer[v]
        BY <1>10, <3>1 DEF Commit, Shapes
      <3>3. bucket' = bucket \/ bucket'.rev = bucket.rev + 1
        BY <1>10 DEF Commit, Stored, Entry
      <3>4. IsEntry(writer[v].read) /\ writer[v].read.rev <= bucket.rev
            /\ (writer[v].read.rev = bucket.rev => writer[v].read = bucket)
        BY <3>2 DEF Reads
      <3>5. bucket.rev \in Nat /\ writer[v].read.rev \in Nat
        BY <3>4 DEF Shapes, IsEntry
      <3> QED BY <3>2, <3>3, <3>4, <3>5
    <2>5. Follows'
      BY <1>10, SMT DEF Follows, Shapes, StatusOf, RevisionOf, Nobody, Watch, Call, IsEntry, Kinds, Commit, Stored, Entry
    <2> QED BY <2>1, <2>2, <2>3, <2>4, <2>5
  <1>11. ASSUME NEW w \in Writes, Awaited(w) PROVE ProjectionInv'
    <2>1. Shapes'
      BY <1>11, SMT DEF Shapes, IsEntry, Kinds, Nobody, Watch, Call, Awaited
    <2>2. Revisions'
      BY <1>11, SMT DEF Revisions, Taken, Shapes, IsEntry, Kinds, Awaited
    <2>3. Taken'
      BY <1>11, SMT DEF Revisions, Taken, Shapes, IsEntry, Kinds, Awaited
    <2>4. Reads'
      <3> SUFFICES ASSUME NEW v \in Writes, writer'[v].ph = "commit"
                   PROVE  /\ IsEntry(writer'[v].read) /\ writer'[v].read.rev <= bucket'.rev
                          /\ writer'[v].read.rev = bucket'.rev => writer'[v].read = bucket'
        BY DEF Reads, IsEntry
      <3>1. writer'[w].ph # "commit" /\ bucket' = bucket
        BY <1>11 DEF Awaited, Shapes
      <3>2. writer'[v] = writer[v]
        BY <1>11, <3>1 DEF Awaited, Shapes
      <3> QED BY <3>1, <3>2 DEF Reads
    <2>5. Follows'
      BY <1>11, SMT DEF Follows, Shapes, StatusOf, RevisionOf, Nobody, Watch, Call, IsEntry, Kinds, Awaited
    <2> QED BY <2>1, <2>2, <2>3, <2>4, <2>5
  <1>12. ASSUME NEW w \in Writes, TakeWrite(w) PROVE ProjectionInv'
    <2>1. Shapes'
      <3>1. Take(Call)
        BY <1>12 DEF TakeWrite
      <3> QED BY <1>12, <3>1, Taking, SMT DEF Shapes, IsEntry, TakeWrite
    <2>2. Revisions'
      BY <1>12, SMT DEF Revisions, Taken, Shapes, IsEntry, Kinds, TakeWrite, Take, Free, Entry, NoRevision
    <2>3. Taken'
      BY <1>12, SMT DEF Revisions, Taken, Shapes, IsEntry, Kinds, TakeWrite, Take, Free, Entry, NoRevision
    <2>4. Reads'
      <3> SUFFICES ASSUME NEW v \in Writes, writer'[v].ph = "commit"
                   PROVE  /\ IsEntry(writer'[v].read) /\ writer'[v].read.rev <= bucket'.rev
                          /\ writer'[v].read.rev = bucket'.rev => writer'[v].read = bucket'
        BY DEF Reads, IsEntry
      <3>1. writer'[w].ph # "commit" /\ bucket' = bucket
        BY <1>12 DEF TakeWrite, Shapes
      <3>2. writer'[v] = writer[v]
        BY <1>12, <3>1 DEF TakeWrite, Shapes
      <3> QED BY <3>1, <3>2 DEF Reads
    <2>5. Follows'
      BY <1>12, SMT DEF Follows, Shapes, StatusOf, RevisionOf, Nobody, Watch, Call, IsEntry, Kinds, TakeWrite, Take, Free, Entry, NoRevision
    <2> QED BY <2>1, <2>2, <2>3, <2>4, <2>5
  <1>13. CASE UNCHANGED projection
    BY <1>13 DEF projection, Shapes, Revisions, Taken, Reads, Follows, IsEntry
  <1> QED
    BY <1>1, <1>2, <1>3, <1>4, <1>5, <1>6, <1>7, <1>8, <1>9, <1>10, <1>11, <1>12, <1>13
       DEF ProjectionNext, WriterStep

\* The inductive invariant, for every set of projections and edits.
THEOREM ProjectionInvariant == ProjectionSpec => []ProjectionInv
  BY InitProjection, NextProjection, PTL DEF ProjectionSpec

\* With nothing to look at, what is active is what the source has, and the result in
\* the bucket says so (_apply_entry, _write_result).
THEOREM ProjectionIsFollowed == ProjectionSpec => []ActiveIsSource
  <1>1. ProjectionInv => ActiveIsSource
    BY SMT DEF ProjectionInv, Shapes, Follows, ActiveIsSource, Quiet, Free, Nobody, IsEntry, Kinds
  <1> QED BY <1>1, ProjectionInvariant, PTL

\* Nothing older is adopted after something newer, and what is active changes only with
\* a later revision that the source has seen (_reconcile, _apply_entry).
THEOREM ProjectionIsAdoptedInOrder == ProjectionSpec => AdoptedInOrder
  <1> DEFINE InOrder ==
        /\ adopted' >= adopted
        /\ active' # active => adopted' > adopted /\ adopted' <= source.entry.rev
  <1>1. ProjectionInv /\ [ProjectionNext]_projection => [InOrder]_projection
    <2> SUFFICES ASSUME ProjectionInv, ProjectionNext PROVE InOrder
      BY DEF projection
    <2>1. adopted \in Nat
      BY DEF ProjectionInv, Shapes
    <2>2. CASE Replace
      <3>1. /\ turn.entry.rev \in Nat /\ source.entry.rev \in Nat
            /\ turn.entry.kind = "missing" => turn.entry.configs = {}
            /\ turn.entry.kind \in Kinds
        BY DEF ProjectionInv, Shapes, IsEntry
      <3>2. /\ turn.entry.kind # "invalid"
            /\ adopted <= turn.entry.rev /\ turn.entry.rev <= source.entry.rev
            /\ turn.entry.rev = adopted => active = turn.entry.configs
        BY <2>2 DEF ProjectionInv, Taken, Replace
      <3>3. active' = turn.entry.configs /\ adopted' = turn.entry.rev
        BY <2>2, <3>1, <3>2 DEF Replace, AdoptedConfigs, Kinds
      <3> QED BY <2>1, <3>1, <3>2, <3>3
    <2>3. ASSUME UNCHANGED <<active, adopted>> PROVE InOrder
      BY <2>1, <2>3
    <2>4. CASE Publish \/ Observe \/ CutOff \/ TakeChange \/ Report \/ ReportFails
      BY <2>3, <2>4 DEF Publish, Observe, CutOff, TakeChange, Report, ReportFails
    <2>5. CASE \E w \in Writes : BeginWrite(w) \/ WriterStep(w)
      BY <2>3, <2>5 DEF BeginWrite, WriterStep, ReadEntry, Commit, Awaited, TakeWrite
    <2> QED BY <2>2, <2>4, <2>5 DEF ProjectionNext
  <1> QED BY <1>1, ProjectionInvariant, PTL DEF ProjectionSpec, AdoptedInOrder

\* An edit changes its own configuration and keeps what other editors wrote, also
\* between its reading and its writing (write_config).
THEOREM EditsKeepTheRest == ProjectionSpec => EditsKeepOthers
  <1> DEFINE Others(w, configs) == {c \in configs : c.id # w.id}
             Kept == \A w \in Writes :
                        writer[w].ph = "commit" /\ bucket'.rev # bucket.rev
                          /\ writer'[w].ph = "wait" =>
                        Others(w, bucket'.configs) = Others(w, bucket.configs)
  <1>1. ProjectionInv /\ [ProjectionNext]_projection => [Kept]_projection
    <2> SUFFICES ASSUME ProjectionInv, ProjectionNext, NEW w \in Writes,
                        writer[w].ph = "commit", bucket'.rev # bucket.rev,
                        writer'[w].ph = "wait"
                 PROVE  Others(w, bucket'.configs) = Others(w, bucket.configs)
      BY DEF projection
    <2>1. Commit(w)
      <3>1. writer' # writer
        OBVIOUS
      <3>2. PICK v \in Writes : Commit(v)
        BY <3>1 DEF ProjectionNext, WriterStep, Publish, Observe, CutOff, TakeChange,
                    Replace, Report, ReportFails, BeginWrite, ReadEntry, Awaited, TakeWrite
      <3>3. v # w => writer'[w] = writer[w]
        BY <3>2 DEF Commit, ProjectionInv, Shapes
      <3> QED BY <3>2, <3>3
    <2>2. bucket'.configs = Edited(w) /\ Unchanged(w)
      BY <2>1 DEF Commit, Stored, Entry
    <2>3. bucket.configs = writer[w].read.configs
      <3>1. CASE writer[w].read.kind = "missing"
        BY <2>2, <3>1 DEF Unchanged, ProjectionInv, Shapes, Reads, IsEntry
      <3>2. CASE writer[w].read.kind # "missing"
        BY <2>2, <3>2 DEF Unchanged, ProjectionInv, Reads
      <3> QED BY <3>1, <3>2
    <2> QED BY <2>2, <2>3 DEF Edited
  <1> QED BY <1>1, ProjectionInvariant, PTL DEF ProjectionSpec, EditsKeepOthers
==============================================================================
