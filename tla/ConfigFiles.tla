------------------------------ MODULE ConfigFiles ------------------------------
(****************************************************************************)
(* FileBackedDeviceConfigService: configurations in a directory of files    *)
(* that anybody edits at any time.  A scan lists the directory and reads    *)
(* one file after the other, outside the event loop; its result replaces    *)
(* the snapshot, wakes subscribers and is published as one projection.      *)
(****************************************************************************)
EXTENDS Integers, FiniteSets, Functions, FiniteSetsExt

CONSTANTS
    Paths,      \* the files there may be, in the order of their names
    Documents,  \* what they may hold: configurations, Invalid or Absent
    Directories,    \* the directories there may be at the start
    Subscribed, \* the ids that somebody subscribes to
    OwnPath,    \* the file that a configuration unknown so far is written to
    Writes,     \* the configurations that calls of write_config have
    MaxEvents   \* bound on edits of the directory and failures of the bucket

Absent == [id |-> "absent", v |-> 0]
Invalid == [id |-> "invalid", v |-> 0]
Valid == Documents \ {Absent, Invalid}

VARIABLES
    disk,       \* the directory: whether it is there, what its files hold or held, and the
                \* ids swept: a write made the directory anew without the files that had them
    svc,        \* the snapshot: the id of each path, the configuration of each id, the
                \* document of each path; its version, and whether there is one
    scan,       \* who holds _scan_lock, the files not read yet, and what was found
    pub,        \* who holds _publish_lock and what it publishes
    acked,      \* _published_version
    remote,     \* the projection in the bucket
    task,       \* the watch loop and the calls of write_config
    sub,        \* a subscriber of each id: what it was given, whether it is woken
    left,       \* events that may still come
    steady      \* ids that their files have not given up since the scan began

vars == <<disk, svc, scan, pub, acked, remote, task, sub, left, steady>>

Watch == [id |-> "watch", v |-> 0]
Tasks == Writes \union {Watch}
Nobody == [id |-> "nobody", v |-> 0]
None == Absent
Empty == [x \in {} |-> None]
NoScan == [by |-> Nobody, todo |-> {}, paths |-> Empty, configs |-> Empty, docs |-> Empty]
NoPublication == [by |-> Nobody, version |-> 0, configs |-> Empty]
Never == 0 - 1

Get(f, x) == IF x \in DOMAIN f THEN f[x] ELSE None
Files(d) == {p \in Paths : d.file[p] # Absent}
Unambiguous(file) == \A p, q \in Paths : file[p] \in Valid /\ file[q] \in Valid
                                            /\ file[p].id = file[q].id => p = q

Init ==
    /\ disk \in Directories
    /\ svc = [paths |-> Empty, configs |-> Empty, docs |-> Empty, version |-> 0, has |-> FALSE]
    /\ scan = NoScan /\ pub = NoPublication /\ acked = Never
    /\ remote = [version |-> Never, configs |-> Empty]
    /\ task = [t \in Tasks |-> [ph |-> IF t = Watch THEN "scan" ELSE "none", wrote |-> t = Watch]]
    /\ sub = [id \in Subscribed |-> [given |-> None, woken |-> TRUE]]
    /\ left = MaxEvents
    /\ steady = {}

Moved(t, ph) == [task EXCEPT ![t].ph = ph]

----------------------------------------------------------------------------
(* The directory (external) *)

\* A file keeps its id while it holds it, or nothing valid.
KeepsId(p, d) == p \in DOMAIN svc.paths /\ (d = Invalid \/ d.id = svc.paths[p])

\* Where p holds d, nobody misses d's id.
Holding(directory, p, d) == [directory EXCEPT !.file[p] = d, !.swept = @ \ {d.id}]

\* The ids that are steady when p holds d.
SteadyWith(p, d) == {id \in steady : \A q \in DOMAIN svc.paths :
                        q = p /\ svc.paths[q] = id => KeepsId(p, d)}

Edit ==
    /\ left > 0 /\ left' = left - 1
    /\ \/ \E p \in Paths, d \in Documents :
             d # disk.file[p] /\ disk' = Holding(disk, p, d) /\ steady' = SteadyWith(p, d)
       \/ disk' = [disk EXCEPT !.up = ~@] /\ UNCHANGED steady
    /\ UNCHANGED <<svc, scan, pub, acked, remote, task, sub>>

----------------------------------------------------------------------------
(* _scan_configs *)

ScanEnds(t) ==
    /\ scan' = NoScan /\ steady' = {}
    /\ task' = Moved(t, IF task[t].wrote THEN "publish" ELSE "place")

\* A directory that cannot be read leaves everything as it is.
BeginScan(t) ==
    /\ task[t].ph = "scan" /\ scan.by = Nobody
    /\ IF disk.up
       THEN /\ scan' = [NoScan EXCEPT !.by = t, !.todo = Files(disk)]
            /\ steady' = {svc.paths[p] : p \in {q \in Paths : KeepsId(q, disk.file[q])}}
            /\ task' = Moved(t, "reads")
       ELSE ScanEnds(t)
    /\ UNCHANGED <<disk, svc, pub, acked, remote, sub, left>>

\* The validated value of a file before this scan.
Prior(p) == IF p \in DOMAIN svc.paths THEN Get(svc.configs, svc.paths[p]) ELSE None

\* What is read from a file; in a directory that is gone, nothing.
Content(p) == IF disk.up THEN disk.file[p] ELSE Absent

\* Mutant: a file that does not hold a valid configuration gives its id up.
ReadStrict(p) == IF Content(p) \in Valid THEN Content(p) ELSE None

\* What a file says now: an unchanged document is not validated again, and one that
\* is invalid or gone keeps the value before.
Read(p) ==
    LET d == Content(p) IN
    IF d \in Valid /\ ~(Prior(p) # None /\ Get(svc.docs, p) = d) THEN d ELSE Prior(p)

Extend(f, x, y) == [z \in DOMAIN f \union {x} |-> IF z = x THEN y ELSE f[z]]

\* A second file with the same id makes the whole scan void.
ReadFile(t) ==
    /\ task[t].ph = "reads" /\ scan.todo # {}
    /\ LET p == Min(scan.todo)
           d == Content(p)
           c == Read(p)
       IN IF c # None /\ c.id \in DOMAIN scan.configs
          THEN ScanEnds(t)
          ELSE /\ scan' = [scan EXCEPT
                            !.todo = @ \ {p},
                            !.docs = IF d \in Valid THEN Extend(@, p, d) ELSE @,
                            !.paths = IF c = None THEN @ ELSE Extend(@, p, c.id),
                            !.configs = IF c = None THEN @ ELSE Extend(@, c.id, c)]
               /\ UNCHANGED <<task, steady>>
    /\ UNCHANGED <<disk, svc, pub, acked, remote, sub, left>>

Changed(new) == {id \in DOMAIN svc.configs \union DOMAIN new : Get(svc.configs, id) # Get(new, id)}

EndScan(t) ==
    /\ task[t].ph = "reads" /\ scan.todo = {}
    /\ svc' = [paths |-> scan.paths, configs |-> scan.configs, docs |-> scan.docs, has |-> TRUE,
               version |-> svc.version + (IF Changed(scan.configs) = {} THEN 0 ELSE 1)]
    /\ sub' = [id \in Subscribed |-> IF id \in Changed(scan.configs)
                              THEN [sub[id] EXCEPT !.woken = TRUE] ELSE sub[id]]
    /\ ScanEnds(t)
    /\ UNCHANGED <<disk, pub, acked, remote, left>>

\* A subscriber that is woken is given what the snapshot holds now.
Give(id) ==
    /\ sub[id].woken
    /\ sub' = [sub EXCEPT ![id] = [given |-> Get(svc.configs, id), woken |-> FALSE]]
    /\ UNCHANGED <<disk, svc, scan, pub, acked, remote, task, left, steady>>

----------------------------------------------------------------------------
(* _publish_materialized_snapshot *)

\* Nothing is published before the first scan, and no version twice.
BeginPublish(t) ==
    /\ task[t].ph = "publish" /\ pub.by = Nobody
    /\ IF ~svc.has \/ svc.version = acked
       THEN task' = Moved(t, "end") /\ UNCHANGED pub
       ELSE /\ pub' = [by |-> t, version |-> svc.version, configs |-> svc.configs]
            /\ task' = Moved(t, "publishes")
    /\ UNCHANGED <<disk, svc, scan, acked, remote, sub, left, steady>>

Put(t) == remote' = [version |-> pub.version, configs |-> pub.configs]

EndPublish(t) ==
    /\ task[t].ph = "publishes" /\ pub.by = t
    /\ Put(t) /\ acked' = pub.version
    /\ pub' = NoPublication
    /\ task' = Moved(t, "end")
    /\ UNCHANGED <<disk, svc, scan, sub, left, steady>>

\* Mutant: a version is done with when it could not be put.
FailPublishAcks(t) ==
    /\ task[t].ph = "publishes" /\ left > 0
    /\ left' = left - 1
    /\ Put(t) \/ UNCHANGED remote
    /\ acked' = pub.version
    /\ pub' = NoPublication
    /\ task' = Moved(t, "end")
    /\ UNCHANGED <<disk, svc, scan, sub, steady>>

\* The bucket fails, or its answer is lost: the next refresh publishes again.
FailPublish(t) ==
    /\ task[t].ph = "publishes" /\ left > 0
    /\ left' = left - 1
    /\ Put(t) \/ UNCHANGED remote
    /\ pub' = NoPublication
    /\ task' = Moved(t, "end")
    /\ UNCHANGED <<disk, svc, scan, acked, sub, steady>>

----------------------------------------------------------------------------
(* _watch_loop and write_config *)

\* A hint, or half a second: the watch loop scans and publishes again.
Refresh ==
    /\ task[Watch].ph = "end"
    /\ task' = Moved(Watch, "scan")
    /\ UNCHANGED <<disk, svc, scan, pub, acked, remote, sub, left, steady>>

\* One call at a time: a scan, the file, and a refresh.
BeginWrite(w) ==
    /\ task[w].ph = "none"
    /\ \A v \in Writes : task[v].ph \in {"none", "end"}
    /\ task' = Moved(w, "scan")
    /\ UNCHANGED <<disk, svc, scan, pub, acked, remote, sub, left, steady>>

\* mkdir: a directory that is not there is made, without files.
MakeDirectory ==
    IF disk.up THEN disk
    ELSE [up |-> TRUE, file |-> [p \in Paths |-> Absent],
          swept |-> disk.swept \union
                    {svc.paths[p] : p \in {q \in Paths : KeepsId(q, disk.file[q])}}]

\* In it the file that is known to hold the id, or the one named after it, is replaced
\* as a whole.  A scan that is under way keeps what it had of files that it misses.
PlaceFile(w) ==
    LET known == {p \in DOMAIN svc.paths : svc.paths[p] = w.id}
        target == IF known = {} THEN OwnPath[w.id] ELSE Min(known)
    IN /\ task[w].ph = "place"
       /\ disk' = Holding(MakeDirectory, target, w) /\ steady' = SteadyWith(target, w)
       /\ task' = [task EXCEPT ![w] = [ph |-> "scan", wrote |-> TRUE]]
       /\ UNCHANGED <<svc, scan, pub, acked, remote, sub, left>>

\* The directory cannot be made, or the file not written: the call ends there.
FailWrite(w) ==
    /\ task[w].ph = "place"
    /\ disk' \in {disk, MakeDirectory}
    /\ task' = Moved(w, "end")
    /\ UNCHANGED <<svc, scan, pub, acked, remote, sub, left, steady>>

Step(t) == BeginScan(t) \/ ReadFile(t) \/ EndScan(t) \/ BeginPublish(t) \/ EndPublish(t)

Next ==
    \/ \E t \in Tasks : Step(t) \/ FailPublish(t)
    \/ \E id \in Subscribed : Give(id)
    \/ \E w \in Writes : BeginWrite(w) \/ PlaceFile(w) \/ FailWrite(w)
    \/ Edit \/ Refresh

Spec == Init /\ [][Next]_vars

\* The watch loop goes on, a call of write_config is not left in the middle, and
\* subscribers take what they are woken for.
Watching == Refresh \/ Step(Watch)
Writing == \E w \in Writes : PlaceFile(w) \/ FailWrite(w) \/ Step(w)
Giving == \E id \in Subscribed : Give(id)
FairSpec == Spec /\ WF_vars(Watching) /\ WF_vars(Writing) /\ WF_vars(Giving)

----------------------------------------------------------------------------
\* No configuration is lost: not from the snapshot to a half-edited file, to two files
\* that claim one id or to a directory that is not there while it is scanned (an id that
\* its file has not given up since then stays); not from the bucket to a publication
\* that is slower than a newer one, or made before the directory has been read.  Of a
\* directory that a write has made anew LossIsNotDeletion speaks.
KeptWhileThere ==
    [][/\ svc'.configs # svc.configs => steady \subseteq DOMAIN svc'.configs
       /\ remote' # remote => remote'.version >= remote.version /\ svc.has]_vars

\* Source loss is not deletion: a configuration whose file went with the directory, and
\* that nobody has deleted, stays in the snapshot, also when a write comes in between.
LossIsNotDeletion == disk.swept \subseteq DOMAIN svc.configs

Said(file) == {file[p] : p \in Paths} \ {Absent, Invalid}

\* In the end the projection and the subscribers have what the files say, although
\* scans see files of different moments and publications fail.
Settles ==
    (<>[](disk.up /\ Unambiguous(disk.file) /\ Invalid \notin Range(disk.file))) =>
        <>[](/\ Range(remote.configs) = Said(disk.file)
             /\ \A id \in Subscribed : \/ sub[id].given \in {d \in Said(disk.file) : d.id = id}
                                       \/ sub[id].given = None /\ \A d \in Said(disk.file) : d.id # id)
==============================================================================
