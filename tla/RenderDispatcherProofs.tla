------------------------ MODULE RenderDispatcherProofs ------------------------
(****************************************************************************)
(* What the dispatcher of a control promises, for any number of messages,   *)
(* bindings, render tasks and pages, whatever fails.                        *)
(*                                                                          *)
(* The tasks of a control share one output: render tasks, the clear, the    *)
(* jobs of provider messages, loading indicators and restorations.  The     *)
(* invariant (Inv) has these parts:                                         *)
(*   Line      the output lock: in line are exactly the tasks that wait for *)
(*             the output or hold it, each once, and a holder is first;     *)
(*   Ordered   whoever writes brings nothing older than what is published,  *)
(*             though it was admitted before its last look at the control;  *)
(*   Belongs   what the control accepted and who it belongs to are of the   *)
(*             page of now, and what else is written is ahead of a clear;   *)
(*   Expected  what waits has a task that will take it;                     *)
(*   Told      how far each job is and what its provider was told agree.    *)
(*                                                                          *)
(* None is inductive without Line: that a writer's generation stays ahead   *)
(* of what is published is so because no other task publishes meanwhile.    *)
(*                                                                          *)
(* Sound(t, X) is the invariant but for the tasks of X, which are between   *)
(* two stages: an action first changes the stage of its task, then its      *)
(* place in line.  Every operator of the model has a lemma that it keeps    *)
(* Sound, and every action one that it keeps Inv, publishes in order and    *)
(* shows no pixels of an earlier page (Keeps).                              *)
(****************************************************************************)
EXTENDS RenderDispatcher, FiniteSetTheorems, SequenceTheorems, TLAPS

\* The indicators of jobs and of render tasks: no two of them are one.
LEMMA JobsHaveFeeds == Jobs \subseteq Feeds
  BY DEF Feeds

\* A render task has its own, and another for its next request.
LEMMA RunsHaveFeeds ==
    ASSUME NEW k \in Runs
    PROVE  k \in Feeds \ Jobs /\ Second(k) \in Feeds \ Jobs
  <1>1. k \in 0..2*MaxActive /\ Second(k) \in 0..2*MaxActive
    BY DispatcherAssumption DEF Runs, Second
  <1>2. k \in Feeds /\ Second(k) \in Feeds
    BY DEF Feeds
  <1> QED BY <1>1, <1>2, DispatcherAssumption

\* What is recorded of mishaps is a set of them.
LEMMA MishapsAreTyped ==
    ASSUME lost \subseteq Mishaps, NEW P
    PROVE  FailedIf(P) \subseteq Mishaps /\ MendedIf(P) \subseteq Mishaps
  BY DEF FailedIf, MendedIf, Mishaps

USE JobsHaveFeeds

----------------------------------------------------------------------------
(* What the invariant is made of *)

\* The tasks that may stand in line for the output of the control.
Tasks ==
    ({"run"} \X Runs) \union {<<"clear", 0>>} \union ({"job"} \X Jobs)
        \union ({"feed"} \X Feeds) \union ({"undo"} \X Jobs)

\* What a task is doing; what it publishes at the end of its write; and whose pixels
\* it writes (a restoration writes what the control accepted).
Stage(t, x) ==
    CASE x[1] = "run" -> t.run[x[2]].ph
      [] x[1] = "clear" -> t.clear.ph
      [] x[1] = "job" -> t.job[x[2]].ph
      [] x[1] = "feed" -> t.feed[x[2]].ph
      [] x[1] = "undo" -> t.undo[x[2]].ph

Gen(t, x) ==
    CASE x[1] = "run" -> t.run[x[2]].req.gen
      [] x[1] = "clear" -> t.clear.gen
      [] x[1] = "job" -> t.job[x[2]].rev
      [] x[1] = "feed" -> t.feed[x[2]].gen
      [] x[1] = "undo" -> t.undo[x[2]].gen

Owner(t, x) ==
    CASE x[1] = "run" -> t.run[x[2]].req.frame.own
      [] x[1] = "job" -> t.job[x[2]].b
      [] x[1] = "feed" -> t.feed[x[2]].own
      [] OTHER -> None

\* The stages in which a task is in line, is first in line and holds the output, and
\* writes what it brought.
InLine == {"apply", "queue", "settle", "write", "restore", "send"}
Holding == {"write", "restore", "send"}
Writing == {"write", "send"}

Owners == 0..MaxBindings
Bases == Jobs \union Nat
Frames == [own : Owners, base : Bases, ov : Int]
Requests == [gen : Nat, own : Owners, frame : Frames]

Controls ==
    [gen : Nat, published : Nat, base : Nat, own : Owners, pending : Requests,
     accepted : Frames, provisional : BOOLEAN, cancelled : SUBSET Runs]

RunStates ==
    [ph : {"idle", "render", "apply", "write", "settle", "restore"}, req : Requests]

JobStates ==
    [ph : {"new", "content", "compose", "queue", "send", "end"}, b : Owners,
     ticket : Nat, rev : Nat, ov : Int, done : BOOLEAN, ready : BOOLEAN,
     command : {"none", "sent", "rejected"}]

FeedStates == [ph : {"off", "timer", "queue", "write"}, gen : Nat, own : Owners]
UndoStates == [ph : {"off", "start", "queue", "write"}, gen : Nat]

\* What a provider may be told.
Replies == {"rejected", "dispatched", "superseded", "failed", "hardware"}

States ==
    [ctl : Controls, io : Seq(Tasks), run : [Runs -> RunStates],
     clear : [ph : {"idle", "start", "queue", "write"}, gen : Nat, pending : Nat],
     job : [Jobs -> JobStates], results : [Jobs -> Seq(Replies)],
     feed : [Feeds -> FeedStates], undo : [Jobs -> UndoStates],
     store : [Bindings -> [base : Bases, ov : Int]],
     bind : [last : Owners, cur : Owners, act : Owners, wiped : Owners, agreed : BOOLEAN],
     left : Budget]

\* Who is first in line.
First(t, x) == t.io # <<>> /\ Head(t.io) = x

\* The line: exactly the tasks in a stage that waits for the output or holds it, each
\* once, and whoever holds it is first.  The tasks of X are between two stages: they are
\* about to enter the line or to leave it.
Line(t, X) ==
    /\ IsInjective(t.io)
    /\ \A x \in Tasks \ X :
         /\ x \in ToSet(t.io) <=> Stage(t, x) \in InLine
         /\ Stage(t, x) \in Holding => First(t, x)

\* The output is published in order: whoever writes brings nothing older than what is
\* published, and nothing is newer than the control's generation.
Ordered(t) ==
    /\ t.ctl.published <= t.ctl.gen
    /\ t.clear.pending <= t.ctl.gen
    /\ \A x \in Tasks :
         /\ Gen(t, x) <= t.ctl.gen
         /\ Stage(t, x) \in Writing => t.ctl.published <= Gen(t, x)

\* A binding installed since the control was last given to another page.
Fresh(t, b) == b = None \/ b > t.bind.wiped

\* What is of the generation of now is of the owner of now.
OfOwner(t, gen, own) == gen = t.ctl.gen => own = t.ctl.own

FrameOf(f, b) == f.own \in {None, b}

\* The control belongs to a binding of its page, and old pixels are written only ahead
\* of a clear.
Belongs(t) ==
    /\ t.bind.act \in {None, t.bind.cur}
    /\ t.bind.wiped <= t.bind.last /\ t.bind.cur <= t.bind.last
    /\ t.bind.last + t.left.bindings <= MaxBindings
    /\ Fresh(t, t.bind.cur) /\ Fresh(t, t.ctl.own) /\ Fresh(t, t.ctl.accepted.own)
    /\ t.ctl.gen = 0 => t.ctl.own = None
    /\ \A k \in Runs :
         /\ FrameOf(t.run[k].req.frame, t.run[k].req.own)
         /\ OfOwner(t, t.run[k].req.gen, t.run[k].req.own)
    /\ \A x \in Feeds : OfOwner(t, t.feed[x].gen, t.feed[x].own)
    /\ \A x \in Tasks :
         Stage(t, x) \in Writing => Fresh(t, Owner(t, x)) \/ t.clear.ph # "idle"

\* Nothing that waits is forgotten.
Expected(t) ==
    /\ t.clear.pending # None => t.clear.ph # "idle"
    /\ t.ctl.pending # NoRequest =>
         /\ \A k \in Runs : t.run[k].ph # "idle"
         /\ t.ctl.pending.gen = t.ctl.gen /\ t.ctl.pending.own = t.ctl.own
         /\ FrameOf(t.ctl.pending.frame, t.ctl.own)

Ends == {"dispatched", "superseded", "failed"}

\* What the provider was told (q) of a message, as far as its job (r) has come; f is its
\* loading indicator, and n the stage of the restoration after it.
Honest(j, r, q, f, n) ==
    /\ r.ph = "new" => r.done = FALSE /\ r.command = "none" /\ f.ph = "off"
    /\ f.ph # "off" => f.own = r.b
    /\ r.ph \notin {"new", "end"} => r.b # None
    /\ ~r.done => q = <<>> /\ n = "off"
    /\ r.done =>
         \/ j \in DirectJobs /\ q = <<>>
         \/ r.command = "none" /\ q = <<"rejected">>
         \/ r.command # "rejected" /\ \E e \in Ends : q = <<e>>
         \/ r.command = "rejected" /\ \E e \in Ends : q = <<e, "hardware">>

Told(t) ==
    \A j \in Jobs : Honest(j, t.job[j], t.results[j], t.feed[j], t.undo[j].ph)

\* What every operation of the session and of the tasks keeps.
Sound(t, X) ==
    t \in States /\ Line(t, X) /\ Ordered(t) /\ Belongs(t) /\ Expected(t) /\ Told(t)

Inv == Sound(State, {}) /\ lost \subseteq Mishaps
----------------------------------------------------------------------------
(* Tasks *)

\* What stage, generation and owner are, for each kind of task.
LEMMA TaskViews ==
    ASSUME NEW t
    PROVE  /\ \A k \in Runs : /\ <<"run", k>> \in Tasks
                              /\ Stage(t, <<"run", k>>) = t.run[k].ph
                              /\ Gen(t, <<"run", k>>) = t.run[k].req.gen
                              /\ Owner(t, <<"run", k>>) = t.run[k].req.frame.own
           /\ /\ <<"clear", 0>> \in Tasks
              /\ Stage(t, <<"clear", 0>>) = t.clear.ph
              /\ Gen(t, <<"clear", 0>>) = t.clear.gen
              /\ Owner(t, <<"clear", 0>>) = None
           /\ \A j \in Jobs : /\ <<"job", j>> \in Tasks
                              /\ Stage(t, <<"job", j>>) = t.job[j].ph
                              /\ Gen(t, <<"job", j>>) = t.job[j].rev
                              /\ Owner(t, <<"job", j>>) = t.job[j].b
           /\ \A y \in Feeds : /\ <<"feed", y>> \in Tasks
                                          /\ Stage(t, <<"feed", y>>) = t.feed[y].ph
                                          /\ Gen(t, <<"feed", y>>) = t.feed[y].gen
                                          /\ Owner(t, <<"feed", y>>) = t.feed[y].own
           /\ \A j \in Jobs : /\ <<"undo", j>> \in Tasks
                              /\ Stage(t, <<"undo", j>>) = t.undo[j].ph
                              /\ Gen(t, <<"undo", j>>) = t.undo[j].gen
                              /\ Owner(t, <<"undo", j>>) = None
  <1>1. ASSUME NEW k \in Runs
        PROVE  /\ <<"run", k>> \in Tasks
               /\ Stage(t, <<"run", k>>) = t.run[k].ph
               /\ Gen(t, <<"run", k>>) = t.run[k].req.gen
               /\ Owner(t, <<"run", k>>) = t.run[k].req.frame.own
    BY DEF Tasks, Stage, Gen, Owner
  <1>2. /\ <<"clear", 0>> \in Tasks
        /\ Stage(t, <<"clear", 0>>) = t.clear.ph
        /\ Gen(t, <<"clear", 0>>) = t.clear.gen
        /\ Owner(t, <<"clear", 0>>) = None
    BY DEF Tasks, Stage, Gen, Owner
  <1>3. ASSUME NEW j \in Jobs
        PROVE  /\ <<"job", j>> \in Tasks
               /\ Stage(t, <<"job", j>>) = t.job[j].ph
               /\ Gen(t, <<"job", j>>) = t.job[j].rev
               /\ Owner(t, <<"job", j>>) = t.job[j].b
    BY DEF Tasks, Stage, Gen, Owner
  <1>4. ASSUME NEW y \in Feeds
        PROVE  /\ <<"feed", y>> \in Tasks
               /\ Stage(t, <<"feed", y>>) = t.feed[y].ph
               /\ Gen(t, <<"feed", y>>) = t.feed[y].gen
               /\ Owner(t, <<"feed", y>>) = t.feed[y].own
    BY DEF Tasks, Stage, Gen, Owner
  <1>5. ASSUME NEW j \in Jobs
        PROVE  /\ <<"undo", j>> \in Tasks
               /\ Stage(t, <<"undo", j>>) = t.undo[j].ph
               /\ Gen(t, <<"undo", j>>) = t.undo[j].gen
               /\ Owner(t, <<"undo", j>>) = None
    <2>1. <<"undo", j>> \in Tasks
      BY DEF Tasks
    <2>2. Stage(t, <<"undo", j>>) = t.undo[j].ph
      BY DEF Stage
    <2>3. Gen(t, <<"undo", j>>) = t.undo[j].gen
      BY DEF Gen
    <2>4. Owner(t, <<"undo", j>>) = None
      BY DEF Owner
    <2> QED BY <2>1, <2>2, <2>3, <2>4
  <1> QED BY <1>1, <1>2, <1>3, <1>4, <1>5

\* The kinds of tasks there are.
LEMMA TaskKinds ==
    ASSUME NEW x \in Tasks
    PROVE  \/ \E k \in Runs : x = <<"run", k>>
           \/ x = <<"clear", 0>>
           \/ \E j \in Jobs : x = <<"job", j>>
           \/ \E y \in Feeds : x = <<"feed", y>>
           \/ \E j \in Jobs : x = <<"undo", j>>
  BY DEF Tasks

\* A task looks as it did where nothing of it changed.
Alike(t, u, x) == Stage(u, x) = Stage(t, x) /\ Gen(u, x) = Gen(t, x) /\ Owner(u, x) = Owner(t, x)

\* Who changes one render task leaves the others, and all other tasks, alike.
LEMMA RunAlone ==
    ASSUME NEW t, NEW u, NEW k \in Runs,
           \A l \in Runs \ {k} : u.run[l] = t.run[l],
           u.clear = t.clear, u.job = t.job, u.feed = t.feed, u.undo = t.undo
    PROVE  \A x \in Tasks \ {<<"run", k>>} : Alike(t, u, x)
  <1> SUFFICES ASSUME NEW x \in Tasks, x # <<"run", k>> PROVE Alike(t, u, x)
    OBVIOUS
  <1>1. CASE \E l \in Runs : x = <<"run", l>>
    BY <1>1, TaskViews DEF Alike
  <1>2. CASE x = <<"clear", 0>>
    BY <1>2, TaskViews DEF Alike
  <1>3. CASE \E i \in Jobs : x = <<"job", i>>
    BY <1>3, TaskViews DEF Alike
  <1>4. CASE \E z \in Feeds : x = <<"feed", z>>
    BY <1>4, TaskViews DEF Alike
  <1>5. CASE \E i \in Jobs : x = <<"undo", i>>
    BY <1>5, TaskViews DEF Alike
  <1> QED BY <1>1, <1>2, <1>3, <1>4, <1>5, TaskKinds

\* Who changes the clear leaves all other tasks alike.
LEMMA ClearAlone ==
    ASSUME NEW t, NEW u,
           u.run = t.run, u.job = t.job, u.feed = t.feed, u.undo = t.undo
    PROVE  \A x \in Tasks \ {<<"clear", 0>>} : Alike(t, u, x)
  <1> SUFFICES ASSUME NEW x \in Tasks, x # <<"clear", 0>> PROVE Alike(t, u, x)
    OBVIOUS
  <1>1. CASE \E l \in Runs : x = <<"run", l>>
    BY <1>1, TaskViews DEF Alike
  <1>2. CASE x = <<"clear", 0>>
    BY <1>2, TaskViews DEF Alike
  <1>3. CASE \E i \in Jobs : x = <<"job", i>>
    BY <1>3, TaskViews DEF Alike
  <1>4. CASE \E z \in Feeds : x = <<"feed", z>>
    BY <1>4, TaskViews DEF Alike
  <1>5. CASE \E i \in Jobs : x = <<"undo", i>>
    BY <1>5, TaskViews DEF Alike
  <1> QED BY <1>1, <1>2, <1>3, <1>4, <1>5, TaskKinds

\* Who changes one job leaves all other tasks alike.
LEMMA JobAlone ==
    ASSUME NEW t, NEW u, NEW j \in Jobs,
           \A i \in Jobs \ {j} : u.job[i] = t.job[i],
           u.clear = t.clear, u.run = t.run, u.feed = t.feed, u.undo = t.undo
    PROVE  \A x \in Tasks \ {<<"job", j>>} : Alike(t, u, x)
  <1> SUFFICES ASSUME NEW x \in Tasks, x # <<"job", j>> PROVE Alike(t, u, x)
    OBVIOUS
  <1>1. CASE \E l \in Runs : x = <<"run", l>>
    BY <1>1, TaskViews DEF Alike
  <1>2. CASE x = <<"clear", 0>>
    BY <1>2, TaskViews DEF Alike
  <1>3. CASE \E i \in Jobs : x = <<"job", i>>
    BY <1>3, TaskViews DEF Alike
  <1>4. CASE \E z \in Feeds : x = <<"feed", z>>
    BY <1>4, TaskViews DEF Alike
  <1>5. CASE \E i \in Jobs : x = <<"undo", i>>
    BY <1>5, TaskViews DEF Alike
  <1> QED BY <1>1, <1>2, <1>3, <1>4, <1>5, TaskKinds

\* Who changes one loading indicator leaves all other tasks alike.
LEMMA FeedAlone ==
    ASSUME NEW t, NEW u, NEW y \in Feeds,
           \A z \in Feeds \ {y} : u.feed[z] = t.feed[z],
           u.clear = t.clear, u.run = t.run, u.job = t.job, u.undo = t.undo
    PROVE  \A x \in Tasks \ {<<"feed", y>>} : Alike(t, u, x)
  <1> SUFFICES ASSUME NEW x \in Tasks, x # <<"feed", y>> PROVE Alike(t, u, x)
    OBVIOUS
  <1>1. CASE \E l \in Runs : x = <<"run", l>>
    BY <1>1, TaskViews DEF Alike
  <1>2. CASE x = <<"clear", 0>>
    BY <1>2, TaskViews DEF Alike
  <1>3. CASE \E i \in Jobs : x = <<"job", i>>
    BY <1>3, TaskViews DEF Alike
  <1>4. CASE \E z \in Feeds : x = <<"feed", z>>
    BY <1>4, TaskViews DEF Alike
  <1>5. CASE \E i \in Jobs : x = <<"undo", i>>
    BY <1>5, TaskViews DEF Alike
  <1> QED BY <1>1, <1>2, <1>3, <1>4, <1>5, TaskKinds

\* Who changes one restoration leaves all other tasks alike.
LEMMA UndoAlone ==
    ASSUME NEW t, NEW u, NEW j \in Jobs,
           \A i \in Jobs \ {j} : u.undo[i] = t.undo[i],
           u.clear = t.clear, u.run = t.run, u.feed = t.feed, u.job = t.job
    PROVE  \A x \in Tasks \ {<<"undo", j>>} : Alike(t, u, x)
  <1> SUFFICES ASSUME NEW x \in Tasks, x # <<"undo", j>> PROVE Alike(t, u, x)
    OBVIOUS
  <1>1. CASE \E l \in Runs : x = <<"run", l>>
    BY <1>1, TaskViews DEF Alike
  <1>2. CASE x = <<"clear", 0>>
    BY <1>2, TaskViews DEF Alike
  <1>3. CASE \E i \in Jobs : x = <<"job", i>>
    BY <1>3, TaskViews DEF Alike
  <1>4. CASE \E z \in Feeds : x = <<"feed", z>>
    BY <1>4, TaskViews DEF Alike
  <1>5. CASE \E i \in Jobs : x = <<"undo", i>>
    BY <1>5, TaskViews DEF Alike
  <1> QED BY <1>1, <1>2, <1>3, <1>4, <1>5, TaskKinds

\* Who changes no task leaves all tasks alike.
LEMMA TasksAlone ==
    ASSUME NEW t, NEW u,
           u.run = t.run, u.clear = t.clear, u.job = t.job, u.feed = t.feed, u.undo = t.undo
    PROVE  \A x \in Tasks : Alike(t, u, x)
  <1> SUFFICES ASSUME NEW x \in Tasks PROVE Alike(t, u, x)
    OBVIOUS
  <1>1. CASE \E l \in Runs : x = <<"run", l>>
    BY <1>1, TaskViews DEF Alike
  <1>2. CASE x = <<"clear", 0>>
    BY <1>2, TaskViews DEF Alike
  <1>3. CASE \E i \in Jobs : x = <<"job", i>>
    BY <1>3, TaskViews DEF Alike
  <1>4. CASE \E z \in Feeds : x = <<"feed", z>>
    BY <1>4, TaskViews DEF Alike
  <1>5. CASE \E i \in Jobs : x = <<"undo", i>>
    BY <1>5, TaskViews DEF Alike
  <1> QED BY <1>1, <1>2, <1>3, <1>4, <1>5, TaskKinds

\* The types of what tasks are about.
LEMMA StateTypes ==
    ASSUME NEW t \in States
    PROVE  /\ t.ctl \in Controls /\ t.ctl.gen \in Nat /\ t.ctl.published \in Nat
           /\ \A k \in Runs : /\ t.run[k] \in RunStates /\ t.run[k].req \in Requests
                              /\ t.run[k].req.gen \in Nat /\ t.run[k].req.own \in Owners
                              /\ t.run[k].req.frame \in Frames
           /\ t.clear.gen \in Nat /\ t.clear.pending \in Nat
           /\ \A j \in Jobs : /\ t.job[j] \in JobStates /\ t.job[j].rev \in Nat
                              /\ t.job[j].b \in Owners /\ t.job[j].ticket \in Nat
           /\ \A y \in Feeds :
                t.feed[y] \in FeedStates /\ t.feed[y].gen \in Nat /\ t.feed[y].own \in Owners
           /\ \A j \in Jobs : t.undo[j] \in UndoStates /\ t.undo[j].gen \in Nat
           /\ \A b \in Bindings : t.store[b].base \in Bases /\ t.store[b].ov \in Int
           /\ {t.bind.last, t.bind.cur, t.bind.act, t.bind.wiped} \subseteq Owners
           /\ t.left \in Budget /\ t.left.bindings \in Nat
           /\ \A x \in Tasks : Gen(t, x) \in Nat
  <1>1. t.ctl \in Controls /\ t.ctl.gen \in Nat /\ t.ctl.published \in Nat
    BY DEF States, Controls
  <1>2. ASSUME NEW k \in Runs
        PROVE  /\ t.run[k] \in RunStates /\ t.run[k].req \in Requests
               /\ t.run[k].req.gen \in Nat /\ t.run[k].req.own \in Owners
               /\ t.run[k].req.frame \in Frames
    <2>1. t.run[k] \in RunStates
      BY DEF States
    <2>2. t.run[k].req \in Requests
      BY <2>1 DEF RunStates
    <2> QED BY <2>1, <2>2 DEF Requests
  <1>3. t.clear.gen \in Nat /\ t.clear.pending \in Nat
    BY DEF States
  <1>4. ASSUME NEW j \in Jobs
        PROVE  /\ t.job[j] \in JobStates /\ t.job[j].rev \in Nat
               /\ t.job[j].b \in Owners /\ t.job[j].ticket \in Nat
    <2>1. t.job[j] \in JobStates
      BY DEF States
    <2> QED BY <2>1 DEF JobStates
  <1>5. ASSUME NEW y \in Feeds
        PROVE  t.feed[y] \in FeedStates /\ t.feed[y].gen \in Nat /\ t.feed[y].own \in Owners
    <2>1. t.feed[y] \in FeedStates
      BY DEF States
    <2> QED BY <2>1 DEF FeedStates
  <1>6. ASSUME NEW j \in Jobs PROVE t.undo[j] \in UndoStates /\ t.undo[j].gen \in Nat
    <2>1. t.undo[j] \in UndoStates
      BY DEF States
    <2> QED BY <2>1 DEF UndoStates
  <1>7. /\ \A b \in Bindings : t.store[b].base \in Bases /\ t.store[b].ov \in Int
        /\ {t.bind.last, t.bind.cur, t.bind.act, t.bind.wiped} \subseteq Owners
    BY DEF States
  <1>8. t.left \in Budget /\ t.left.bindings \in Nat
    <2>1. t.left \in Budget
      BY DEF States
    <2>2. t.left.bindings \in 0..MaxBindings /\ MaxBindings \in Nat
      BY <2>1, DispatcherAssumption DEF Budget
    <2> QED BY <2>1, <2>2
  <1>9. ASSUME NEW x \in Tasks PROVE Gen(t, x) \in Nat
    <2>1. CASE \E k \in Runs : x = <<"run", k>>
      BY <2>1, <1>2, TaskViews
    <2>2. CASE x = <<"clear", 0>>
      BY <2>2, <1>3, TaskViews
    <2>3. CASE \E j \in Jobs : x = <<"job", j>>
      BY <2>3, <1>4, TaskViews
    <2>4. CASE \E y \in Feeds : x = <<"feed", y>>
      BY <2>4, <1>5, TaskViews
    <2>5. CASE \E j \in Jobs : x = <<"undo", j>>
      BY <2>5, <1>6, TaskViews
    <2> QED BY <2>1, <2>2, <2>3, <2>4, <2>5, TaskKinds
  <1> QED BY <1>1, <1>2, <1>3, <1>4, <1>5, <1>6, <1>7, <1>8, <1>9

\* What each kind of task that is sound brings: nothing newer than the control, and when
\* it writes, nothing older than what is published.
LEMMA SoundTasks ==
    ASSUME NEW t, NEW X, Sound(t, X)
    PROVE  /\ \A k \in Runs :
                /\ t.run[k].req.gen <= t.ctl.gen
                /\ t.run[k].ph \in Writing => t.ctl.published <= t.run[k].req.gen
           /\ \A j \in Jobs :
                /\ t.job[j].rev <= t.ctl.gen
                /\ t.job[j].ph \in Writing => /\ t.ctl.published <= t.job[j].rev
                                              /\ Fresh(t, t.job[j].b) \/ t.clear.ph # "idle"
           /\ \A z \in Feeds : t.feed[z].gen <= t.ctl.gen
           /\ \A j \in Jobs : t.undo[j].gen <= t.ctl.gen
  <1>1. \A x \in Tasks :
          /\ Gen(t, x) <= t.ctl.gen
          /\ Stage(t, x) \in Writing => /\ t.ctl.published <= Gen(t, x)
                                        /\ Fresh(t, Owner(t, x)) \/ t.clear.ph # "idle"
    BY DEF Sound, Ordered, Belongs
  <1>2. ASSUME NEW k \in Runs
        PROVE  /\ t.run[k].req.gen <= t.ctl.gen
               /\ t.run[k].ph \in Writing => t.ctl.published <= t.run[k].req.gen
    <2> DEFINE x == <<"run", k>>
    <2>1. x \in Tasks /\ Stage(t, x) = t.run[k].ph /\ Gen(t, x) = t.run[k].req.gen
      BY TaskViews
    <2> HIDE DEF x
    <2> QED BY <1>1, <2>1
  <1>3. ASSUME NEW j \in Jobs
        PROVE  /\ t.job[j].rev <= t.ctl.gen
               /\ t.job[j].ph \in Writing => /\ t.ctl.published <= t.job[j].rev
                                             /\ Fresh(t, t.job[j].b) \/ t.clear.ph # "idle"
    <2> DEFINE x == <<"job", j>>
    <2>1. /\ x \in Tasks /\ Stage(t, x) = t.job[j].ph /\ Gen(t, x) = t.job[j].rev
          /\ Owner(t, x) = t.job[j].b
      BY TaskViews
    <2> HIDE DEF x
    <2> QED BY <1>1, <2>1
  <1>4. ASSUME NEW z \in Feeds PROVE t.feed[z].gen <= t.ctl.gen
    <2> DEFINE x == <<"feed", z>>
    <2>1. x \in Tasks /\ Gen(t, x) = t.feed[z].gen
      BY TaskViews
    <2> HIDE DEF x
    <2> QED BY <1>1, <2>1
  <1>5. ASSUME NEW j \in Jobs PROVE t.undo[j].gen <= t.ctl.gen
    <2> DEFINE x == <<"undo", j>>
    <2>1. x \in Tasks /\ Gen(t, x) = t.undo[j].gen
      BY TaskViews
    <2> HIDE DEF x
    <2> QED BY <1>1, <2>1
  <1> QED BY <1>2, <1>3, <1>4, <1>5

----------------------------------------------------------------------------
(* What changes one part of the state keeps the rest *)

\* The control may get a later generation of an owner of its page; what is
\* published may rise as far as those who write allow.
LEMMA CtlChanges ==
    ASSUME NEW t, NEW X, Sound(t, X), NEW c \in Controls,
           c.published <= c.gen, t.ctl.gen <= c.gen, c.gen = t.ctl.gen => c.own = t.ctl.own,
           \A x \in Tasks : Stage(t, x) \in Writing => c.published <= Gen(t, x),
           Fresh(t, c.own), Fresh(t, c.accepted.own),
           \/ c.pending = NoRequest
           \/ c.pending = t.ctl.pending /\ c.gen = t.ctl.gen
    PROVE  Sound([t EXCEPT !.ctl = c], X)
  <1> DEFINE u == [t EXCEPT !.ctl = c]
  <1>1. /\ u \in States /\ u.ctl = c /\ u.io = t.io /\ u.run = t.run /\ u.clear = t.clear
        /\ u.job = t.job /\ u.results = t.results /\ u.feed = t.feed /\ u.undo = t.undo
        /\ u.store = t.store /\ u.bind = t.bind /\ u.left = t.left
    BY DEF Sound, States
  <1>2. \A x \in Tasks : Alike(t, u, x)
    BY <1>1, TasksAlone
  <1>0. t \in States /\ t.ctl.gen \in Nat /\ c.gen \in Nat
    BY DEF Sound, States, Controls
  <1> HIDE DEF u
  <1>3. Line(u, X)
    BY <1>1, <1>2 DEF Sound, Line, Alike, First
  <1>4. Ordered(u)
    <2>1. \A x \in Tasks : Gen(t, x) \in Nat
      BY <1>0, StateTypes
    <2>2. t.clear.pending \in Nat
      BY <1>0, StateTypes
    <2> QED BY <1>0, <1>1, <1>2, <2>1, <2>2 DEF Sound, Ordered, Alike
  <1>5. Belongs(u)
    <2>1. ASSUME NEW gen \in Nat, gen <= t.ctl.gen, NEW own, OfOwner(t, gen, own)
          PROVE  OfOwner(u, gen, own)
      BY <1>0, <1>1, <2>1 DEF OfOwner
    <2>2. \A k \in Runs : t.run[k].req.gen \in Nat /\ t.run[k].req.gen <= t.ctl.gen
      BY SoundTasks, StateTypes, <1>0
    <2>3. \A y \in Feeds : t.feed[y].gen \in Nat /\ t.feed[y].gen <= t.ctl.gen
      BY SoundTasks, StateTypes, <1>0
    <2>4. \A b : Fresh(t, b) <=> Fresh(u, b)
      BY <1>1 DEF Fresh
    <2>5. u.ctl.gen = 0 => u.ctl.own = None
      BY <1>0, <1>1 DEF Sound, Belongs
    <2> QED BY <1>1, <1>2, <2>1, <2>2, <2>3, <2>4, <2>5 DEF Sound, Belongs, Alike
  <1>6. Expected(u)
    BY <1>1, <1>2 DEF Sound, Expected
  <1>7. Told(u)
    BY <1>1 DEF Sound, Told
  <1> QED BY <1>1, <1>3, <1>4, <1>5, <1>6, <1>7 DEF Sound, u

\* A render task may take another request of the control and, when it writes, one
\* that is not older than what is published.
LEMMA RunChanges ==
    ASSUME NEW t, NEW X, Sound(t, X), NEW k \in Runs, NEW r \in RunStates,
           r.req.gen <= t.ctl.gen, r.ph \in Writing => t.ctl.published <= r.req.gen,
           FrameOf(r.req.frame, r.req.own), OfOwner(t, r.req.gen, r.req.own),
           r.ph \in Writing => Fresh(t, r.req.frame.own) \/ t.clear.ph # "idle",
           r.ph = "idle" => t.ctl.pending = NoRequest
    PROVE  Sound([t EXCEPT !.run[k] = r], X \union {<<"run", k>>})
  <1> DEFINE u == [t EXCEPT !.run[k] = r]
             x == <<"run", k>>
  <1>1. /\ u \in States /\ u.ctl = t.ctl /\ u.io = t.io /\ u.clear = t.clear
        /\ u.job = t.job /\ u.results = t.results /\ u.feed = t.feed /\ u.undo = t.undo
        /\ u.store = t.store /\ u.bind = t.bind /\ u.left = t.left
        /\ u.run[k] = r /\ \A l \in Runs \ {k} : u.run[l] = t.run[l]
    BY DEF Sound, States
  <1>2. \A y \in Tasks \ {x} : Alike(t, u, y)
    BY <1>1, RunAlone
  <1> HIDE DEF u
  <1>3. Stage(u, x) = r.ph /\ Gen(u, x) = r.req.gen /\ Owner(u, x) = r.req.frame.own
    BY <1>1, TaskViews
  <1> HIDE DEF x
  <1>4. Line(u, X \union {x})
    BY <1>1, <1>2 DEF Sound, Line, Alike, First
  <1>5. Ordered(u)
    BY <1>1, <1>2, <1>3 DEF Sound, Ordered, Alike
  <1>6. Belongs(u)
    <2>1. \A b : Fresh(t, b) <=> Fresh(u, b)
      BY <1>1 DEF Fresh
    <2>2. \A gen, own : OfOwner(t, gen, own) <=> OfOwner(u, gen, own)
      BY <1>1 DEF OfOwner
    <2>3. \A l \in Runs : /\ FrameOf(u.run[l].req.frame, u.run[l].req.own)
                          /\ OfOwner(u, u.run[l].req.gen, u.run[l].req.own)
      BY <1>1, <2>2 DEF Sound, Belongs
    <2> QED BY <1>1, <1>2, <1>3, <2>1, <2>2, <2>3 DEF Sound, Belongs, Alike
  <1>7. Expected(u)
    BY <1>1 DEF Sound, Expected
  <1>8. Told(u)
    BY <1>1 DEF Sound, Told
  <1> QED BY <1>1, <1>4, <1>5, <1>6, <1>7, <1>8 DEF Sound, u, x

\* The clear may change unless a clear that waits would lose its task.
LEMMA ClearChanges ==
    ASSUME NEW t, NEW X, Sound(t, X),
           NEW d \in [ph : {"idle", "start", "queue", "write"}, gen : Nat, pending : Nat],
           d.gen <= t.ctl.gen, d.pending <= t.ctl.gen,
           d.ph = "write" => t.ctl.published <= d.gen,
           d.pending # None => d.ph # "idle",
           d.ph = "idle" => t.clear.ph = "idle" \/ \A x \in Tasks : Stage(t, x) \notin Writing
                                                          \/ x = <<"clear", 0>>
    PROVE  Sound([t EXCEPT !.clear = d], X \union {<<"clear", 0>>})
  <1> DEFINE u == [t EXCEPT !.clear = d]
             x == <<"clear", 0>>
  <1>1. /\ u \in States /\ u.ctl = t.ctl /\ u.io = t.io /\ u.run = t.run
        /\ u.job = t.job /\ u.results = t.results /\ u.feed = t.feed /\ u.undo = t.undo
        /\ u.store = t.store /\ u.bind = t.bind /\ u.left = t.left
        /\ u.clear = d
    BY DEF Sound, States
  <1>2. \A y \in Tasks \ {x} : Alike(t, u, y)
    BY <1>1, ClearAlone
  <1> HIDE DEF u
  <1>3. Stage(u, x) = d.ph /\ Gen(u, x) = d.gen /\ Owner(u, x) = None
    BY <1>1, TaskViews
  <1>4. Line(u, X \union {x})
    BY <1>1, <1>2 DEF Sound, Line, Alike, First
  <1>5. Ordered(u)
    BY <1>1, <1>2, <1>3 DEF Sound, Ordered, Alike, Writing
  <1>6. Belongs(u)
    <2>1. \A b : Fresh(t, b) <=> Fresh(u, b)
      BY <1>1 DEF Fresh
    <2>2. \A gen, own : OfOwner(t, gen, own) <=> OfOwner(u, gen, own)
      BY <1>1 DEF OfOwner
    <2>3. \A y \in Tasks : Stage(u, y) \in Writing => Fresh(u, Owner(u, y)) \/ u.clear.ph # "idle"
      <3>1. Fresh(u, Owner(u, x))
        BY <1>3 DEF Fresh
      <3> QED BY <1>1, <1>2, <2>1, <3>1 DEF Sound, Belongs, Alike
    <2> QED BY <1>1, <2>1, <2>2, <2>3 DEF Sound, Belongs
  <1>7. Expected(u)
    BY <1>1 DEF Sound, Expected
  <1>8. Told(u)
    BY <1>1 DEF Sound, Told
  <1> QED BY <1>1, <1>4, <1>5, <1>6, <1>7, <1>8 DEF Sound, u, x

\* A job may change with what its provider is told, as long as that stays honest.
LEMMA JobChanges ==
    ASSUME NEW t, NEW X, Sound(t, X), NEW j \in Jobs, NEW r \in JobStates, NEW q \in Seq(Replies),
           r.rev <= t.ctl.gen, r.ph \in Writing => t.ctl.published <= r.rev,
           r.ph \in Writing => Fresh(t, r.b) \/ t.clear.ph # "idle",
           Honest(j, r, q, t.feed[j], t.undo[j].ph)
    PROVE  Sound([t EXCEPT !.job[j] = r, !.results[j] = q], X \union {<<"job", j>>})
  <1> DEFINE u == [t EXCEPT !.job[j] = r, !.results[j] = q]
             x == <<"job", j>>
  <1>1. /\ u \in States /\ u.ctl = t.ctl /\ u.io = t.io /\ u.clear = t.clear
        /\ u.run = t.run /\ u.feed = t.feed /\ u.undo = t.undo
        /\ u.store = t.store /\ u.bind = t.bind /\ u.left = t.left
        /\ u.job[j] = r /\ \A i \in Jobs \ {j} : u.job[i] = t.job[i]
        /\ u.results[j] = q /\ \A i \in Jobs \ {j} : u.results[i] = t.results[i]
    BY DEF Sound, States
  <1>2. \A y \in Tasks \ {x} : Alike(t, u, y)
    BY <1>1, JobAlone
  <1> HIDE DEF u
  <1>3. Stage(u, x) = r.ph /\ Gen(u, x) = r.rev /\ Owner(u, x) = r.b
    BY <1>1, TaskViews
  <1> HIDE DEF x
  <1>4. Line(u, X \union {x})
    BY <1>1, <1>2 DEF Sound, Line, Alike, First
  <1>5. Ordered(u)
    BY <1>1, <1>2, <1>3 DEF Sound, Ordered, Alike
  <1>6. Belongs(u)
    <2>1. \A b : Fresh(t, b) <=> Fresh(u, b)
      BY <1>1 DEF Fresh
    <2>2. \A gen, own : OfOwner(t, gen, own) <=> OfOwner(u, gen, own)
      BY <1>1 DEF OfOwner
    <2> QED BY <1>1, <1>2, <1>3, <2>1, <2>2 DEF Sound, Belongs, Alike
  <1>7. Expected(u)
    BY <1>1 DEF Sound, Expected
  <1>8. Told(u)
    <2> SUFFICES ASSUME NEW i \in Jobs
                 PROVE  Honest(i, u.job[i], u.results[i], u.feed[i], u.undo[i].ph)
      BY DEF Told
    <2>1. CASE i = j
      BY <1>1, <2>1
    <2>2. CASE i # j
      BY <1>1, <2>2 DEF Sound, Told
    <2> QED BY <2>1, <2>2
  <1> QED BY <1>1, <1>4, <1>5, <1>6, <1>7, <1>8 DEF Sound, u, x

\* A loading indicator may change as long as it is that of its owner.
LEMMA FeedChanges ==
    ASSUME NEW t, NEW X, Sound(t, X), NEW y \in Feeds, NEW f \in FeedStates,
           f.gen <= t.ctl.gen, f.ph = "write" => t.ctl.published <= f.gen,
           OfOwner(t, f.gen, f.own),
           f.ph = "write" => Fresh(t, f.own) \/ t.clear.ph # "idle",
           y \in Jobs => f.ph = "off" \/ (t.job[y].ph # "new" /\ f.own = t.job[y].b)
    PROVE  Sound([t EXCEPT !.feed[y] = f], X \union {<<"feed", y>>})
  <1> DEFINE u == [t EXCEPT !.feed[y] = f]
             x == <<"feed", y>>
  <1>1. /\ u \in States /\ u.ctl = t.ctl /\ u.io = t.io /\ u.clear = t.clear
        /\ u.job = t.job /\ u.results = t.results /\ u.run = t.run /\ u.undo = t.undo
        /\ u.store = t.store /\ u.bind = t.bind /\ u.left = t.left
        /\ u.feed[y] = f /\ \A z \in Feeds \ {y} : u.feed[z] = t.feed[z]
    BY DEF Sound, States
  <1>2. \A z \in Tasks \ {x} : Alike(t, u, z)
    BY <1>1, FeedAlone
  <1> HIDE DEF u
  <1>3. Stage(u, x) = f.ph /\ Gen(u, x) = f.gen /\ Owner(u, x) = f.own
    BY <1>1, TaskViews
  <1>9. f.ph \in Writing => f.ph = "write"
    BY DEF FeedStates, Writing
  <1> HIDE DEF x
  <1>4. Line(u, X \union {x})
    BY <1>1, <1>2 DEF Sound, Line, Alike, First
  <1>5. Ordered(u)
    BY <1>1, <1>2, <1>3, <1>9 DEF Sound, Ordered, Alike
  <1>6. Belongs(u)
    <2>1. \A b : Fresh(t, b) <=> Fresh(u, b)
      BY <1>1 DEF Fresh
    <2>2. \A gen, own : OfOwner(t, gen, own) <=> OfOwner(u, gen, own)
      BY <1>1 DEF OfOwner
    <2>3. \A z \in Feeds : OfOwner(u, u.feed[z].gen, u.feed[z].own)
      BY <1>1, <2>2 DEF Sound, Belongs
    <2> QED BY <1>1, <1>2, <1>3, <1>9, <2>1, <2>2, <2>3 DEF Sound, Belongs, Alike
  <1>7. Expected(u)
    BY <1>1 DEF Sound, Expected
  <1>8. Told(u)
    <2> SUFFICES ASSUME NEW i \in Jobs
                 PROVE  Honest(i, u.job[i], u.results[i], u.feed[i], u.undo[i].ph)
      BY DEF Told
    <2>1. CASE i = y
      BY <1>1, <2>1 DEF Sound, Told, Honest
    <2>2. CASE i # y
      BY <1>1, <2>2 DEF Sound, Told
    <2> QED BY <2>1, <2>2
  <1> QED BY <1>1, <1>4, <1>5, <1>6, <1>7, <1>8 DEF Sound, u, x

\* A restoration may change once its job is done.
LEMMA UndoChanges ==
    ASSUME NEW t, NEW X, Sound(t, X), NEW j \in Jobs, NEW n \in UndoStates,
           n.gen <= t.ctl.gen, n.ph = "write" => t.ctl.published <= n.gen,
           t.job[j].done \/ n.ph = "off"
    PROVE  Sound([t EXCEPT !.undo[j] = n], X \union {<<"undo", j>>})
  <1> DEFINE u == [t EXCEPT !.undo[j] = n]
             x == <<"undo", j>>
  <1>1. /\ u \in States /\ u.ctl = t.ctl /\ u.io = t.io /\ u.clear = t.clear
        /\ u.job = t.job /\ u.results = t.results /\ u.run = t.run /\ u.feed = t.feed
        /\ u.store = t.store /\ u.bind = t.bind /\ u.left = t.left
        /\ u.undo[j] = n /\ \A i \in Jobs \ {j} : u.undo[i] = t.undo[i]
    BY DEF Sound, States
  <1>2. \A z \in Tasks \ {x} : Alike(t, u, z)
    BY <1>1, UndoAlone
  <1> HIDE DEF u
  <1>3. Stage(u, x) = n.ph /\ Gen(u, x) = n.gen /\ Owner(u, x) = None
    BY <1>1, TaskViews
  <1>9. n.ph \in Writing => n.ph = "write"
    BY DEF UndoStates, Writing
  <1> HIDE DEF x
  <1>4. Line(u, X \union {x})
    BY <1>1, <1>2 DEF Sound, Line, Alike, First
  <1>5. Ordered(u)
    BY <1>1, <1>2, <1>3, <1>9 DEF Sound, Ordered, Alike
  <1>6. Belongs(u)
    <2>1. \A b : Fresh(t, b) <=> Fresh(u, b)
      BY <1>1 DEF Fresh
    <2>2. \A gen, own : OfOwner(t, gen, own) <=> OfOwner(u, gen, own)
      BY <1>1 DEF OfOwner
    <2>3. Fresh(u, Owner(u, x))
      BY <1>3 DEF Fresh
    <2> QED BY <1>1, <1>2, <1>3, <2>1, <2>2, <2>3 DEF Sound, Belongs, Alike
  <1>7. Expected(u)
    BY <1>1 DEF Sound, Expected
  <1>8. Told(u)
    <2> SUFFICES ASSUME NEW i \in Jobs
                 PROVE  Honest(i, u.job[i], u.results[i], u.feed[i], u.undo[i].ph)
      BY DEF Told
    <2>1. CASE i = j
      BY <1>1, <2>1 DEF Sound, Told, Honest
    <2>2. CASE i # j
      BY <1>1, <2>2 DEF Sound, Told
    <2> QED BY <2>1, <2>2
  <1> QED BY <1>1, <1>4, <1>5, <1>6, <1>7, <1>8 DEF Sound, u, x

\* The contents of bindings are nobody's order.
LEMMA StoreChanges ==
    ASSUME NEW t, NEW X, Sound(t, X), NEW z \in [Bindings -> [base : Bases, ov : Int]]
    PROVE  Sound([t EXCEPT !.store = z], X)
  <1> DEFINE u == [t EXCEPT !.store = z]
  <1>1. /\ u \in States /\ u.ctl = t.ctl /\ u.io = t.io /\ u.run = t.run /\ u.clear = t.clear
        /\ u.job = t.job /\ u.results = t.results /\ u.feed = t.feed /\ u.undo = t.undo
        /\ u.bind = t.bind /\ u.left = t.left
    BY DEF Sound, States
  <1>2. \A x \in Tasks : Alike(t, u, x)
    BY <1>1, TasksAlone
  <1> HIDE DEF u
  <1>3. Line(u, X)
    BY <1>1, <1>2 DEF Sound, Line, Alike, First
  <1>4. Ordered(u)
    BY <1>1, <1>2 DEF Sound, Ordered, Alike
  <1>5. Belongs(u)
    <2>1. \A b : Fresh(t, b) <=> Fresh(u, b)
      BY <1>1 DEF Fresh
    <2>2. \A gen, own : OfOwner(t, gen, own) <=> OfOwner(u, gen, own)
      BY <1>1 DEF OfOwner
    <2> QED BY <1>1, <1>2, <2>1, <2>2 DEF Sound, Belongs, Alike
  <1>6. Expected(u) /\ Told(u)
    BY <1>1 DEF Sound, Expected, Told
  <1> QED BY <1>1, <1>3, <1>4, <1>5, <1>6 DEF Sound, u

\* Bindings come and go, and pages.
LEMMA BindingsChange ==
    ASSUME NEW t, NEW X, Sound(t, X),
           NEW b \in [last : Owners, cur : Owners, act : Owners, wiped : Owners, agreed : BOOLEAN],
           NEW l \in Budget,
           b.act \in {None, b.cur}, b.wiped <= b.last, b.cur <= b.last,
           b.last + l.bindings <= MaxBindings,
           \A o \in {b.cur, t.ctl.own, t.ctl.accepted.own} : o = None \/ o > b.wiped,
           b.wiped = t.bind.wiped \/ t.clear.ph # "idle"
    PROVE  Sound([t EXCEPT !.bind = b, !.left = l], X)
  <1> DEFINE u == [t EXCEPT !.bind = b, !.left = l]
  <1>1. /\ u \in States /\ u.ctl = t.ctl /\ u.io = t.io /\ u.run = t.run /\ u.clear = t.clear
        /\ u.job = t.job /\ u.results = t.results /\ u.feed = t.feed /\ u.undo = t.undo
        /\ u.store = t.store /\ u.bind = b /\ u.left = l
    BY DEF Sound, States
  <1>2. \A x \in Tasks : Alike(t, u, x)
    BY <1>1, TasksAlone
  <1> HIDE DEF u
  <1>3. Line(u, X)
    BY <1>1, <1>2 DEF Sound, Line, Alike, First
  <1>4. Ordered(u)
    BY <1>1, <1>2 DEF Sound, Ordered, Alike
  <1>5. Belongs(u)
    <2>1. b.wiped = t.bind.wiped => \A o : Fresh(t, o) <=> Fresh(u, o)
      BY <1>1 DEF Fresh
    <2>2. \A gen, own : OfOwner(t, gen, own) <=> OfOwner(u, gen, own)
      BY <1>1 DEF OfOwner
    <2>3. \A o \in {b.cur, t.ctl.own, t.ctl.accepted.own} : Fresh(u, o)
      BY <1>1 DEF Fresh
    <2>4. \A x \in Tasks : Stage(u, x) \in Writing => Fresh(u, Owner(u, x)) \/ u.clear.ph # "idle"
      BY <1>1, <1>2, <2>1 DEF Sound, Belongs, Alike
    <2> QED BY <1>1, <1>2, <2>2, <2>3, <2>4 DEF Sound, Belongs
  <1>6. Expected(u) /\ Told(u)
    BY <1>1 DEF Sound, Expected, Told
  <1> QED BY <1>1, <1>3, <1>4, <1>5, <1>6 DEF Sound, u

----------------------------------------------------------------------------
(* The line *)

\* A set of naturals has a first one: of the intervals up to its elements none is
\* within all others but the least.
LEMMA LeastNatural ==
    ASSUME NEW N \in SUBSET Nat, N # {}
    PROVE  \E n \in N : \A m \in N : n <= m
  <1> DEFINE T == {1..n : n \in N}
  <1>1. T \subseteq FiniteSubsetsOf(Nat) /\ T # {}
    <2>1. \A n \in N : IsFiniteSet(1..n) /\ 1..n \in SUBSET Nat
      BY FS_Interval
    <2> QED BY <2>1 DEF FiniteSubsetsOf
  <1>2. \E x \in T : \A y \in T : ~(<<y, x>> \in StrictSubsetOrdering(Nat))
    BY <1>1, WFMin, FS_StrictSubsetOrderingWellFounded
  <1>3. PICK n \in N : \A m \in N : ~(<<1..m, 1..n>> \in StrictSubsetOrdering(Nat))
    BY <1>2
  <1>4. ASSUME NEW m \in N, m < n PROVE FALSE
    <2>1. 1..m \in SUBSET Nat /\ 1..n \in SUBSET Nat /\ 1..m \subseteq 1..n /\ 1..m # 1..n
      BY <1>4
    <2> QED BY <1>3, <2>1 DEF StrictSubsetOrdering
  <1> QED BY <1>4

\* Appending adds one element, and keeps the elements of a sequence distinct.
LEMMA AppendAddsElement ==
    ASSUME NEW S, NEW q \in Seq(S), NEW x \in S
    PROVE  /\ Append(q, x) \in Seq(S)
           /\ ToSet(Append(q, x)) = ToSet(q) \union {x}
           /\ IsInjective(q) /\ x \notin ToSet(q) => IsInjective(Append(q, x))
           /\ q # <<>> => Append(q, x) # <<>> /\ Head(Append(q, x)) = Head(q)
  <1> DEFINE r == Append(q, x)
  <1>1. r \in Seq(S) /\ Len(r) = Len(q) + 1 /\ r[Len(q) + 1] = x
        /\ \A k \in 1..Len(q) : r[k] = q[k]
    OBVIOUS
  <1> HIDE DEF r
  <1>2. ToSet(r) = ToSet(q) \union {x}
    <2>1. DOMAIN r = 1..(Len(q) + 1) /\ DOMAIN q = 1..Len(q) /\ Len(q) \in Nat
      BY <1>1
    <2>2. \A k \in DOMAIN r : k \in DOMAIN q \/ k = Len(q) + 1
      BY <2>1
    <2> QED BY <1>1, <2>1, <2>2 DEF ToSet
  <1>3. ASSUME IsInjective(q), x \notin ToSet(q) PROVE IsInjective(r)
    BY <1>1, <1>3 DEF ToSet, IsInjective
  <1>4. q # <<>> => r # <<>> /\ Head(r) = Head(q)
    BY <1>1
  <1> QED BY <1>1, <1>2, <1>3, <1>4 DEF r

\* Appending to a sequence of one element makes the pair.
LEMMA AppendToOne ==
    ASSUME NEW S, NEW a \in S, NEW b \in S PROVE Append(<<a>>, b) = <<a, b>>
  <1> DEFINE v == Append(<<a>>, b)
             w == <<a, b>>
  <1>1. <<a>> \in Seq(S) /\ w \in Seq(S) /\ Len(w) = 2 /\ w[1] = a /\ w[2] = b
    OBVIOUS
  <1>2. v \in Seq(S) /\ Len(v) = 2 /\ v[1] = a /\ v[2] = b
    BY <1>1
  <1> HIDE DEF v, w
  <1>3. \A i \in 1..2 : v[i] = w[i]
    <2>1. \A i \in 1..2 : i = 1 \/ i = 2
      OBVIOUS
    <2> QED BY <1>1, <1>2, <2>1
  <1>4. v = w
    BY <1>1, <1>2, <1>3, SeqEqual
  <1> QED BY <1>4 DEF v, w

\* An injective sequence is left without x, in the order it was in.
LEMMA RemoveFirstRemoves ==
    ASSUME NEW S, NEW q \in Seq(S), IsInjective(q), NEW x
    PROVE  /\ RemoveFirst(q, x) \in Seq(S)
           /\ ToSet(RemoveFirst(q, x)) = ToSet(q) \ {x}
           /\ IsInjective(RemoveFirst(q, x))
           /\ q # <<>> /\ Head(q) # x =>
                RemoveFirst(q, x) # <<>> /\ Head(RemoveFirst(q, x)) = Head(q)
  <1>1. CASE ~ \E i \in 1..Len(q) : q[i] = x
    BY <1>1 DEF RemoveFirst, ToSet
  <1>2. CASE \E i \in 1..Len(q) : q[i] = x
    <2>1. PICK i \in 1..Len(q) : q[i] = x
      BY <1>2
    <2>2. \A j \in 1..Len(q) : q[j] = x <=> j = i
      BY <2>1 DEF IsInjective
    <2>3. {j \in 1..Len(q) : q[j] = x} = {i}
      BY <2>2
    <2>4. Min({i}) = i
      BY DEF Min
    <2>5. SelectInSeq(q, LAMBDA v : v = x) = i
      BY <2>3, <2>4 DEF SelectInSeq
    <2>6. RemoveFirst(q, x) = SubSeq(q, 1, i - 1) \o SubSeq(q, i + 1, Len(q))
      BY <1>2, <2>5 DEF RemoveFirst, RemoveAt
    <2> DEFINE r == [j \in 1..(Len(q) - 1) |-> IF j < i THEN q[j] ELSE q[j + 1]]
    <2>7. RemoveFirst(q, x) = r
      <3> DEFINE before == SubSeq(q, 1, i - 1)
                 after == SubSeq(q, i + 1, Len(q))
      <3>1. before \in Seq(S) /\ Len(before) = i - 1 /\ \A j \in 1..(i - 1) : before[j] = q[j]
        OBVIOUS
      <3>2. after \in Seq(S) /\ Len(after) = Len(q) - i
            /\ \A j \in 1..(Len(q) - i) : after[j] = q[i + j]
        OBVIOUS
      <3> HIDE DEF before, after
      <3>3. before \o after \in Seq(S) /\ Len(before \o after) = Len(q) - 1
            /\ \A j \in 1..(Len(q) - 1) : (before \o after)[j] = r[j]
        <4>1. /\ before \o after \in Seq(S) /\ Len(before \o after) = Len(q) - 1
              /\ \A j \in 1..(Len(q) - 1) :
                    (before \o after)[j] = IF j <= i - 1 THEN before[j] ELSE after[j - (i - 1)]
          <5>1. before \in Seq(S) /\ after \in Seq(S) /\ Len(before) + Len(after) = Len(q) - 1
            BY <3>1, <3>2
          <5>2. /\ before \o after \in Seq(S)
                /\ Len(before \o after) = Len(before) + Len(after)
                /\ \A j \in 1..(Len(before) + Len(after)) : (before \o after)[j] =
                       IF j <= Len(before) THEN before[j] ELSE after[j - Len(before)]
            BY <5>1, ConcatProperties
          <5> QED BY <3>1, <5>1, <5>2
        <4>2. ASSUME NEW j \in 1..(Len(q) - 1) PROVE (before \o after)[j] = r[j]
          <5>1. CASE j < i
            <6>1. j <= i - 1 /\ j \in 1..(i - 1)
              BY <5>1
            <6>2. (before \o after)[j] = before[j] /\ before[j] = q[j]
              BY <3>1, <4>1, <6>1
            <6> QED BY <5>1, <6>2
          <5>2. CASE j >= i
            <6>1. j - (i - 1) \in 1..(Len(q) - i)
              BY <5>2
            <6>2. after[j - (i - 1)] = q[i + (j - (i - 1))]
              BY <3>2, <6>1
            <6>3. i + (j - (i - 1)) = j + 1 /\ ~(j <= i - 1) /\ ~(j < i)
              BY <5>2
            <6> QED BY <4>1, <6>2, <6>3
          <5>3. j < i \/ j >= i
            OBVIOUS
          <5> HIDE DEF r
          <5> QED BY <5>1, <5>2, <5>3
        <4> QED BY <4>1, <4>2
      <3>4. r \in Seq(S) /\ Len(r) = Len(q) - 1
        OBVIOUS
      <3> HIDE DEF r
      <3>5. before \o after = r
        BY <3>3, <3>4, SeqEqual
      <3> QED BY <2>6, <3>5 DEF before, after
    <2>8. r \in Seq(S)
      OBVIOUS
    <2>9. ToSet(r) = ToSet(q) \ {x}
      <3>1. ASSUME NEW j \in DOMAIN r PROVE r[j] \in ToSet(q) \ {x}
        BY <2>2 DEF ToSet
      <3>2. ASSUME NEW j \in 1..Len(q), j # i PROVE q[j] \in ToSet(r)
        <4>1. CASE j < i
          <5>1. j \in DOMAIN r /\ r[j] = q[j]
            BY <4>1
          <5> QED BY <5>1 DEF ToSet
        <4>2. CASE j > i
          <5>1. j - 1 \in DOMAIN r /\ r[j - 1] = q[j]
            BY <4>2
          <5> QED BY <5>1 DEF ToSet
        <4> QED BY <3>2, <4>1, <4>2
      <3>3. \A j \in 1..Len(q) : q[j] # x => j # i
        BY <2>2
      <3>4. DOMAIN q = 1..Len(q)
        OBVIOUS
      <3> HIDE DEF r
      <3>5. ToSet(r) \subseteq ToSet(q) \ {x}
        BY <3>1 DEF ToSet
      <3>6. \A v \in ToSet(q) : v # x => v \in ToSet(r)
        BY <3>2, <3>3, <3>4 DEF ToSet
      <3> QED BY <3>5, <3>6
    <2>10. IsInjective(r)
      BY DEF IsInjective
    <2>11. q # <<>> /\ Head(q) # x => r # <<>> /\ Head(r) = Head(q)
      <3>1. Head(q) # x => i > 1 /\ Len(q) > 1
        BY <2>1
      <3>2. Len(r) = Len(q) - 1 /\ (i > 1 /\ Len(q) > 1 => r[1] = q[1])
        OBVIOUS
      <3>3. Head(q) = q[1]
        OBVIOUS
      <3> HIDE DEF r
      <3>4. Len(r) > 0 => r # <<>> /\ Head(r) = r[1]
        BY <2>8
      <3> QED BY <3>1, <3>2, <3>3, <3>4
    <2> QED BY <2>7, <2>8, <2>9, <2>10, <2>11
  <1> QED BY <1>1, <1>2

\* Leaving the line, and joining it, moves nobody else.
SameLine(t, u, x) ==
    \A y \in Tasks \ {x} :
        (y \in ToSet(u.io) <=> y \in ToSet(t.io)) /\ (First(t, y) => First(u, y))

OnlyLine(t, u) ==
    /\ u.ctl = t.ctl /\ u.run = t.run /\ u.clear = t.clear /\ u.job = t.job
    /\ u.results = t.results /\ u.feed = t.feed /\ u.undo = t.undo /\ u.store = t.store
    /\ u.bind = t.bind /\ u.left = t.left

\* The line may change as long as the others keep their place in it.
LEMMA LineChanges ==
    ASSUME NEW t, NEW X, Sound(t, X), NEW x \in Tasks, NEW q \in Seq(Tasks), IsInjective(q),
           \A y \in Tasks \ {x} : /\ y \in ToSet(q) <=> y \in ToSet(t.io)
                                  /\ First(t, y) => q # <<>> /\ Head(q) = y
    PROVE  LET u == [t EXCEPT !.io = q]
           IN Sound(u, X \union {x}) /\ SameLine(t, u, x) /\ OnlyLine(t, u) /\ u.io = q
  <1> DEFINE u == [t EXCEPT !.io = q]
  <1>1. u \in States /\ u.io = q /\ OnlyLine(t, u)
    BY DEF Sound, States, OnlyLine
  <1>2. \A y \in Tasks : Alike(t, u, y)
    BY <1>1, TasksAlone DEF OnlyLine
  <1> HIDE DEF u
  <1>3. SameLine(t, u, x)
    BY <1>1 DEF SameLine, First
  <1>4. Line(u, X \union {x})
    BY <1>1, <1>2, <1>3 DEF Sound, Line, Alike, SameLine
  <1>5. Ordered(u)
    BY <1>1, <1>2 DEF Sound, Ordered, Alike, OnlyLine
  <1>6. Belongs(u)
    <2>1. \A b : Fresh(t, b) <=> Fresh(u, b)
      BY <1>1 DEF Fresh, OnlyLine
    <2>2. \A gen, own : OfOwner(t, gen, own) <=> OfOwner(u, gen, own)
      BY <1>1 DEF OfOwner, OnlyLine
    <2> QED BY <1>1, <1>2, <2>1, <2>2 DEF Sound, Belongs, Alike, OnlyLine
  <1>7. Expected(u) /\ Told(u)
    BY <1>1 DEF Sound, Expected, Told, OnlyLine
  <1>8. Sound(u, X \union {x})
    BY <1>1, <1>4, <1>5, <1>6, <1>7 DEF Sound
  <1> QED BY <1>1, <1>3, <1>8 DEF u

\* Leaving the line keeps Sound, until the task has taken its next stage.
LEMMA LeaveKeeps ==
    ASSUME NEW t, NEW X, Sound(t, X), NEW x \in Tasks
    PROVE  LET u == Leave(t, x)
           IN /\ Sound(u, X \union {x}) /\ SameLine(t, u, x) /\ OnlyLine(t, u)
              /\ x \notin ToSet(u.io)
  <1> DEFINE q == RemoveFirst(t.io, x)
  <1>1. t.io \in Seq(Tasks) /\ IsInjective(t.io)
    BY DEF Sound, States, Line
  <1>2. /\ q \in Seq(Tasks) /\ ToSet(q) = ToSet(t.io) \ {x} /\ IsInjective(q)
        /\ t.io # <<>> /\ Head(t.io) # x => q # <<>> /\ Head(q) = Head(t.io)
    BY <1>1, RemoveFirstRemoves
  <1>3. Leave(t, x) = [t EXCEPT !.io = q]
    BY DEF Leave
  <1> HIDE DEF q
  <1>4. \A y \in Tasks \ {x} : /\ y \in ToSet(q) <=> y \in ToSet(t.io)
                               /\ First(t, y) => q # <<>> /\ Head(q) = y
    BY <1>2 DEF First
  <1>5. LET u == [t EXCEPT !.io = q]
        IN Sound(u, X \union {x}) /\ SameLine(t, u, x) /\ OnlyLine(t, u) /\ u.io = q
    BY <1>2, <1>4, LineChanges
  <1> QED BY <1>2, <1>3, <1>5

\* Joining the line keeps Sound, until the task has taken its next stage.
LEMMA JoinKeeps ==
    ASSUME NEW t, NEW X, Sound(t, X), NEW x \in Tasks, x \notin ToSet(t.io)
    PROVE  LET u == Join(t, x)
           IN /\ Sound(u, X \union {x}) /\ SameLine(t, u, x) /\ OnlyLine(t, u)
              /\ x \in ToSet(u.io)
  <1> DEFINE q == Append(t.io, x)
  <1>1. t.io \in Seq(Tasks) /\ IsInjective(t.io)
    BY DEF Sound, States, Line
  <1>2. /\ q \in Seq(Tasks) /\ ToSet(q) = ToSet(t.io) \union {x} /\ IsInjective(q)
        /\ t.io # <<>> => q # <<>> /\ Head(q) = Head(t.io)
    BY <1>1, AppendAddsElement
  <1>3. Join(t, x) = [t EXCEPT !.io = q]
    BY DEF Join
  <1> HIDE DEF q
  <1>4. \A y \in Tasks \ {x} : /\ y \in ToSet(q) <=> y \in ToSet(t.io)
                               /\ First(t, y) => q # <<>> /\ Head(q) = y
    BY <1>2 DEF First
  <1>5. LET u == [t EXCEPT !.io = q]
        IN Sound(u, X \union {x}) /\ SameLine(t, u, x) /\ OnlyLine(t, u) /\ u.io = q
    BY <1>2, <1>4, LineChanges
  <1> QED BY <1>2, <1>3, <1>5

\* A task that has its place is accounted for again.
LEMMA Arrives ==
    ASSUME NEW t, NEW X, NEW x, Sound(t, X \union {x}),
           x \in ToSet(t.io) <=> Stage(t, x) \in InLine,
           Stage(t, x) \in Holding => First(t, x)
    PROVE  Sound(t, X \ {x})
  BY DEF Sound, Line

\* A task that is in a stage out of line completes Sound by leaving the line.
LEMMA LeavesFor ==
    ASSUME NEW t, NEW X, NEW x \in Tasks, Sound(t, X \union {x}), Stage(t, x) \notin InLine
    PROVE  LET u == Leave(t, x)
           IN /\ Sound(u, X \ {x}) /\ SameLine(t, u, x) /\ OnlyLine(t, u)
              /\ x \notin ToSet(u.io)
  <1> DEFINE u == Leave(t, x)
  <1>1. /\ Sound(u, X \union {x}) /\ SameLine(t, u, x) /\ OnlyLine(t, u)
        /\ x \notin ToSet(u.io)
    <2>1. (X \union {x}) \union {x} = X \union {x}
      OBVIOUS
    <2> QED BY <2>1, LeaveKeeps
  <1> HIDE DEF u
  <1>2. Stage(u, x) = Stage(t, x)
    BY <1>1, TasksAlone DEF Alike, OnlyLine
  <1>3. Stage(u, x) \notin Holding
    BY <1>2 DEF InLine, Holding
  <1>4. Sound(u, X \ {x})
    BY <1>1, <1>2, <1>3, Arrives
  <1> QED BY <1>1, <1>4 DEF u

\* A task that is in a stage of waiting completes Sound by joining the line.
LEMMA JoinsFor ==
    ASSUME NEW t, NEW X, NEW x \in Tasks, Sound(t, X \union {x}), x \notin ToSet(t.io),
           Stage(t, x) \in InLine \ Holding
    PROVE  LET u == Join(t, x)
           IN Sound(u, X \ {x}) /\ SameLine(t, u, x) /\ OnlyLine(t, u)
  <1> DEFINE u == Join(t, x)
  <1>1. /\ Sound(u, X \union {x}) /\ SameLine(t, u, x) /\ OnlyLine(t, u)
        /\ x \in ToSet(u.io)
    <2>1. (X \union {x}) \union {x} = X \union {x}
      OBVIOUS
    <2> QED BY <2>1, JoinKeeps
  <1> HIDE DEF u
  <1>2. Stage(u, x) = Stage(t, x)
    BY <1>1, TasksAlone DEF Alike, OnlyLine
  <1>4. Sound(u, X \ {x})
    BY <1>1, <1>2, Arrives
  <1> QED BY <1>1, <1>4 DEF u

\* While one task is first in line nobody else holds the output.
LEMMA FirstExcludes ==
    ASSUME NEW t, NEW X, Sound(t, X), NEW x, First(t, x), NEW y \in Tasks \ X, y # x
    PROVE  Stage(t, y) \notin Holding
  BY DEF Sound, Line, First

\* What is sound but for some tasks is sound but for more.
LEMMA LooserSound ==
    ASSUME NEW t, NEW X, NEW Y, X \subseteq Y, Sound(t, X) PROVE Sound(t, Y)
  BY DEF Sound, Line

----------------------------------------------------------------------------
(* Requests *)

\* What a request for output leaves alone.
Requested(t, u) ==
    /\ u.job = t.job /\ u.results = t.results /\ u.undo = t.undo /\ u.store = t.store
    /\ u.bind = t.bind /\ u.left = t.left /\ u.io = t.io
    /\ u.ctl.published = t.ctl.published /\ u.ctl.gen = t.ctl.gen + 1

\* The blank frame is a frame of nobody.
LEMMA BlankIsFrame == Blank \in Frames /\ Blank.own = None
  BY DispatcherAssumption DEF Blank, Frame, Frames, Owners, Bases, None

\* No request is of generation zero and of nobody.
LEMMA NoRequestIsRequest == NoRequest \in Requests /\ NoRequest.gen = 0 /\ NoRequest.own = None
  BY BlankIsFrame, DispatcherAssumption DEF NoRequest, Requests, Owners, None

\* A composition is a frame of its binding, or of nobody.
LEMMA FrameIsFrame ==
    ASSUME NEW b \in Owners, NEW base \in Bases, NEW ov \in Int
    PROVE  Frame(b, base, ov) \in Frames /\ FrameOf(Frame(b, base, ov), b)
  BY DispatcherAssumption DEF Frame, FrameOf, Frames, Owners, None

\* A claim of the control by a binding of its page keeps Sound.
LEMMA ClaimKeeps ==
    ASSUME NEW t, NEW X, Sound(t, X), NEW b \in Owners, NEW base \in Nat, Fresh(t, b)
    PROVE  LET u == Claim(t, b, base)
           IN /\ Sound(u, X) /\ Requested(t, u)
              /\ u.ctl.own = b /\ u.ctl.pending = NoRequest /\ u.ctl.base = t.ctl.base + base
              /\ u.run = t.run /\ u.feed = t.feed /\ u.clear = t.clear
  <1> DEFINE o == Owned(t.ctl, b)
             c == [o EXCEPT !.base = @ + base, !.gen = @ + 1, !.pending = NoRequest,
                            !.cancelled = Scopes(t)]
             u == [t EXCEPT !.ctl = c]
  <1>1. t \in States /\ t.ctl \in Controls /\ t.ctl.gen \in Nat
    BY StateTypes DEF Sound
  <1>2. /\ o \in Controls /\ o.own = b /\ o.gen = t.ctl.gen /\ o.published = t.ctl.published
        /\ o.base = t.ctl.base
        /\ o.accepted \in {t.ctl.accepted, Blank}
    BY <1>1, BlankIsFrame DEF Owned, Controls
  <1>3. Scopes(t) \in SUBSET Runs
    BY DEF Scopes
  <1> HIDE DEF o
  <1>4. /\ c \in Controls /\ c.own = b /\ c.gen = t.ctl.gen + 1
        /\ c.published = t.ctl.published /\ c.pending = NoRequest
        /\ c.base = t.ctl.base + base /\ c.accepted = o.accepted
    <2>1. o.base \in Nat /\ o.gen \in Nat
      BY <1>2 DEF Controls
    <2>2. o.base + base \in Nat /\ o.gen + 1 \in Nat
      BY <2>1
    <2> DEFINE a == o.base + base
               g == o.gen + 1
               e == [o EXCEPT !.base = a, !.gen = g, !.pending = NoRequest,
                              !.cancelled = Scopes(t)]
    <2>3. c = e
      BY <1>2 DEF Controls
    <2> HIDE DEF a, g, c
    <2>4. /\ e \in Controls /\ e.own = b /\ e.gen = g /\ e.published = t.ctl.published
          /\ e.pending = NoRequest /\ e.base = a /\ e.accepted = o.accepted
      BY <1>2, <1>3, <2>2, NoRequestIsRequest DEF Controls, a, g
    <2> QED BY <1>2, <2>3, <2>4 DEF a, g
  <1> HIDE DEF c
  <1>5. Fresh(t, c.accepted.own)
    BY <1>2, <1>4, BlankIsFrame DEF Sound, Belongs, Fresh
  <1>6. c.published <= c.gen /\ t.ctl.gen <= c.gen /\ c.gen # t.ctl.gen
    BY <1>1, <1>4, StateTypes DEF Sound, Ordered
  <1>7. Sound(u, X)
    BY <1>4, <1>5, <1>6, CtlChanges DEF Sound, Ordered
  <1>8. Claim(t, b, base) = u
    BY DEF Claim, o, c
  <1>9. /\ u.ctl = c /\ u.job = t.job /\ u.results = t.results /\ u.undo = t.undo
        /\ u.store = t.store /\ u.bind = t.bind /\ u.left = t.left /\ u.io = t.io
        /\ u.run = t.run /\ u.feed = t.feed /\ u.clear = t.clear
    BY <1>1 DEF States
  <1> HIDE DEF u
  <1> QED BY <1>4, <1>7, <1>8, <1>9 DEF Requested

\* Starting a task to render a request.
LEMMA StartRunKeeps ==
    ASSUME NEW t, Sound(t, {}), NEW k \in Runs, t.run[k].ph = "idle",
           NEW req \in Requests, req.gen = t.ctl.gen, req.own = t.ctl.own,
           FrameOf(req.frame, req.own)
    PROVE  LET u == StartRun(t, k, req)
           IN /\ Sound(u, {}) /\ u.ctl = [t.ctl EXCEPT !.cancelled = @ \ {k}]
              /\ u.job = t.job /\ u.results = t.results /\ u.undo = t.undo /\ u.store = t.store
              /\ u.bind = t.bind /\ u.left = t.left /\ u.io = t.io /\ u.clear = t.clear
  <1> DEFINE s == IF t.feed[k].ph = "off" THEN k ELSE Second(k)
             r == [ph |-> "render", req |-> req]
             f == [ph |-> "timer", gen |-> req.gen, own |-> req.own]
             c == [t.ctl EXCEPT !.cancelled = @ \ {k}]
             x == <<"run", k>>
             y == <<"feed", s>>
             t1 == [t EXCEPT !.run[k] = r]
             t2 == [t1 EXCEPT !.ctl = c]
             t3 == [t2 EXCEPT !.feed[s] = f]
  <1>1. t \in States /\ t.ctl \in Controls /\ t.ctl.gen \in Nat
    BY StateTypes DEF Sound
  <1>2. x \in Tasks /\ x \notin ToSet(t.io)
    BY TaskViews DEF Sound, Line, InLine
  <1>3. Sound(t1, {x})
    <2>1. r \in RunStates /\ r.ph \notin Writing /\ r.ph # "idle" /\ r.req = req
      BY DEF RunStates, Writing
    <2>2. r.req.gen <= t.ctl.gen /\ OfOwner(t, r.req.gen, r.req.own)
      BY <1>1, <2>1 DEF OfOwner
    <2> HIDE DEF r
    <2>3. Sound(t1, {} \union {x})
      BY <2>1, <2>2, RunChanges
    <2> QED BY <2>3
  <1>4. Sound(t1, {})
    <2>1. t1.io = t.io /\ t1.run[k].ph = "render"
      BY <1>1 DEF States
    <2>2. Stage(t1, x) = "render"
      BY <2>1, TaskViews
    <2> HIDE DEF t1
    <2>3. Sound(t1, {} \union {x})
      BY <1>3
    <2>4. Sound(t1, {} \ {x})
      BY <1>2, <2>1, <2>2, <2>3, Arrives DEF InLine, Holding
    <2> QED BY <2>4
  <1>5. t1.ctl = t.ctl /\ c \in Controls /\ c.gen = t.ctl.gen /\ c.own = t.ctl.own
        /\ c.published = t.ctl.published /\ c.pending = t.ctl.pending
        /\ c.accepted = t.ctl.accepted
    BY <1>1 DEF States, Controls
  <1>6. Sound(t2, {})
    <2> HIDE DEF t1, c
    <2>1. /\ c.published <= c.gen /\ t1.ctl.gen <= c.gen
          /\ \A z \in Tasks : Stage(t1, z) \in Writing => c.published <= Gen(t1, z)
      BY <1>4, <1>5, <1>1 DEF Sound, Ordered
    <2>2. Fresh(t1, c.own) /\ Fresh(t1, c.accepted.own)
      BY <1>4, <1>5 DEF Sound, Belongs
    <2> QED BY <1>4, <1>5, <2>1, <2>2, CtlChanges
  <1>7. /\ t2.ctl = c /\ t2.io = t.io /\ t2.feed = t.feed /\ t2.job = t.job
        /\ t2.results = t.results /\ t2.undo = t.undo /\ t2.store = t.store
        /\ t2.bind = t.bind /\ t2.left = t.left /\ t2.clear = t.clear
    BY <1>1 DEF States
  <1>8. s \in Feeds \ Jobs
    BY RunsHaveFeeds
  <1> HIDE DEF s
  <1>9. StartRun(t, k, req) =
           [t EXCEPT !.run[k] = r, !.ctl.cancelled = @ \ {k},
                     !.feed[s] = IF k \in t.left.slow /\ req.frame.ov = None /\ @.ph = "off"
                                 THEN f ELSE @]
    BY DEF StartRun, s
  <1>10. CASE t.feed[s].ph # "off" \/ k \notin t.left.slow \/ req.frame.ov # None
    <2>1. StartRun(t, k, req) =
            [t EXCEPT !.run[k] = r, !.ctl.cancelled = @ \ {k}, !.feed[s] = @]
      BY ONLY <1>9, <1>10
    <2>2. [t EXCEPT !.run[k] = r, !.ctl.cancelled = @ \ {k}, !.feed[s] = @] = t2
      BY <1>1, <1>8 DEF States
    <2> QED BY <1>6, <1>7, <2>1, <2>2
  <1>11. CASE t.feed[s].ph = "off" /\ k \in t.left.slow /\ req.frame.ov = None
    <2>1. StartRun(t, k, req) = t3
      BY <1>1, <1>11, <1>8, <1>9 DEF States
    <2>2. /\ t3.ctl = c /\ t3.io = t.io /\ t3.job = t.job
          /\ t3.results = t.results /\ t3.undo = t.undo /\ t3.store = t.store
          /\ t3.bind = t.bind /\ t3.left = t.left /\ t3.clear = t.clear
          /\ t3.feed[s] = f
      BY <1>1, <1>8 DEF States
    <2>3. f \in FeedStates /\ f.ph = "timer" /\ f.gen = t.ctl.gen /\ f.own = t.ctl.own
      BY StateTypes DEF FeedStates, Requests
    <2>4. s \notin Jobs /\ s \in Feeds
      BY <1>8
    <2>5. Sound(t3, {y})
      <3> HIDE DEF f, t2
      <3>1. f.gen <= t2.ctl.gen /\ OfOwner(t2, f.gen, f.own)
        BY <1>1, <1>5, <1>7, <2>3 DEF OfOwner
      <3>2. Sound(t3, {} \union {y})
        BY <1>6, <2>3, <2>4, <3>1, FeedChanges
      <3> QED BY <3>2
    <2>6. y \notin ToSet(t.io)
      BY <1>11, <2>4, TaskViews DEF Sound, Line, InLine
    <2> HIDE DEF t3, f
    <2>7. Stage(t3, y) = "timer"
      BY <2>2, <2>3, <2>4, TaskViews
    <2>8. Sound(t3, {} \ {y})
      <3>1. Sound(t3, {} \union {y})
        BY <2>5
      <3> QED BY <2>2, <2>6, <2>7, <3>1, Arrives DEF InLine, Holding
    <2>9. Sound(t3, {})
      BY <2>8
    <2> QED BY <2>1, <2>2, <2>9 DEF t3, f
  <1> QED BY <1>10, <1>11

\* A render submitted for a binding of its page keeps Sound.
LEMMA SubmitKeeps ==
    ASSUME NEW t, Sound(t, {}), NEW b \in Owners, Fresh(t, b),
           NEW frame \in Frames, FrameOf(frame, b), NEW base \in Nat
    PROVE  LET u == Submit(t, b, frame, base)
           IN Sound(u, {}) /\ Requested(t, u) /\ u.ctl.own = b /\ u.clear = t.clear
  <1> DEFINE v == Claim(t, b, base)
             req == [gen |-> v.ctl.gen, own |-> b, frame |-> frame]
             idle == {k \in Runs : t.run[k].ph = "idle"}
  <1>1. /\ Sound(v, {}) /\ Requested(t, v) /\ v.ctl.own = b /\ v.ctl.pending = NoRequest
        /\ v.run = t.run /\ v.clear = t.clear
    BY ClaimKeeps
  <1> HIDE DEF v
  <1>2. v \in States /\ v.ctl \in Controls /\ v.ctl.gen \in Nat
    BY <1>1, StateTypes DEF Sound
  <1>3. req \in Requests /\ req.gen = v.ctl.gen /\ req.own = b /\ req.frame = frame
    BY <1>2 DEF Requests
  <1> HIDE DEF req
  <1>4. CASE idle = {}
    <2> DEFINE c == [v.ctl EXCEPT !.pending = req]
               w == [v EXCEPT !.ctl = c]
    <2>1. Submit(t, b, frame, base) = w
      BY <1>2, <1>4 DEF Submit, v, req, States
    <2>2. /\ w \in States /\ w.ctl = c /\ c.own = b /\ c.gen = v.ctl.gen
          /\ c.published = v.ctl.published /\ c.pending = req
          /\ c.accepted = v.ctl.accepted
          /\ w.io = v.io /\ w.run = t.run /\ w.clear = v.clear /\ w.job = v.job
          /\ w.results = v.results /\ w.feed = v.feed /\ w.undo = v.undo
          /\ w.store = v.store /\ w.bind = v.bind /\ w.left = v.left
      BY <1>1, <1>2, <1>3 DEF States, Controls
    <2> HIDE DEF w, c
    <2>3. \A x \in Tasks : Alike(v, w, x)
      BY <1>1, <2>2, TasksAlone
    <2>4. Line(w, {}) /\ Ordered(w)
      BY <1>1, <2>2, <2>3 DEF Sound, Line, First, Ordered, Alike
    <2>5. Belongs(w)
      <3>1. \A o : Fresh(v, o) <=> Fresh(w, o)
        BY <2>2 DEF Fresh
      <3>2. \A gen, own : OfOwner(v, gen, own) <=> OfOwner(w, gen, own)
        BY <1>1, <2>2 DEF OfOwner
      <3> QED BY <1>1, <2>2, <2>3, <3>1, <3>2 DEF Sound, Belongs, Alike
    <2>6. Expected(w)
      BY <1>1, <1>3, <1>4, <2>2 DEF Sound, Expected
    <2>7. Told(w)
      BY <1>1, <2>2 DEF Sound, Told
    <2>8. Sound(w, {})
      BY <2>2, <2>4, <2>5, <2>6, <2>7 DEF Sound
    <2> QED BY <1>1, <2>1, <2>2, <2>8 DEF Requested
  <1>5. CASE idle # {}
    <2>1. PICK k \in idle : k = CHOOSE l \in idle : TRUE
      BY <1>5
    <2>2. Submit(t, b, frame, base) = StartRun(v, k, req)
      BY <1>5, <2>1 DEF Submit, v, req
    <2>3. k \in Runs /\ v.run[k].ph = "idle"
      BY <1>1
    <2> DEFINE u == StartRun(v, k, req)
    <2>4. /\ Sound(u, {}) /\ u.ctl = [v.ctl EXCEPT !.cancelled = @ \ {k}]
          /\ u.job = v.job /\ u.results = v.results /\ u.undo = v.undo /\ u.store = v.store
          /\ u.bind = v.bind /\ u.left = v.left /\ u.io = v.io /\ u.clear = v.clear
      BY <1>1, <1>3, <2>3, StartRunKeeps
    <2>5. u.ctl.own = b /\ u.ctl.gen = v.ctl.gen /\ u.ctl.published = v.ctl.published
      BY <1>1, <1>2, <2>4 DEF Controls
    <2> HIDE DEF u
    <2> QED BY <1>1, <2>2, <2>4, <2>5 DEF Requested, u
  <1> QED BY <1>4, <1>5

\* A task whose stage and whose place are as before is accounted for as before.
LEMMA StageKept ==
    ASSUME NEW t, NEW u, NEW X, NEW x \in Tasks, Sound(t, X), Sound(u, X \union {x}),
           u.io = t.io, Stage(u, x) = Stage(t, x)
    PROVE  Sound(u, X)
  BY DEF Sound, Line, First

\* A control given to a binding of its page, or to nobody, keeps Sound, whether
\* or not a clear is queued for it.
LEMMA ClearControlKeeps ==
    ASSUME NEW t, Sound(t, {}), NEW b \in Owners, Fresh(t, b), NEW base \in Nat,
           NEW clearOutput \in BOOLEAN
    PROVE  LET u == ClearControl(t, b, clearOutput, base)
           IN /\ Sound(u, {}) /\ Requested(t, u)
              /\ u.ctl.own = b /\ u.ctl.accepted = Blank /\ u.ctl.pending = NoRequest
              /\ clearOutput => u.clear.ph # "idle"
  <1> DEFINE base2 == t.ctl.base + base
             gen2 == t.ctl.gen + 1
             c == [t.ctl EXCEPT !.own = b, !.base = base2, !.gen = gen2,
                          !.pending = NoRequest, !.accepted = Blank,
                          !.provisional = FALSE, !.cancelled = Scopes(t)]
             d == [t.clear EXCEPT !.pending = gen2, !.ph = IF @ = "idle" THEN "start" ELSE @]
             t1 == [t EXCEPT !.ctl = c]
             t2 == [t1 EXCEPT !.clear = d]
             x == <<"clear", 0>>
  <1>1. t \in States /\ t.ctl \in Controls /\ gen2 \in Nat /\ base2 \in Nat /\ t.ctl.gen \in Nat
    <2>1. t \in States /\ t.ctl \in Controls /\ t.ctl.gen \in Nat
      BY StateTypes DEF Sound
    <2>2. t.ctl.base \in Nat
      BY <2>1 DEF Controls
    <2> QED BY <2>1, <2>2
  <1>2. Scopes(t) \in SUBSET Runs
    BY DEF Scopes
  <1>3. t.ctl.gen < gen2 /\ t.ctl.gen # gen2
    BY <1>1
  <1>4. /\ c \in Controls /\ c.own = b /\ c.gen = gen2 /\ c.published = t.ctl.published
        /\ c.pending = NoRequest /\ c.accepted = Blank
    <2> HIDE DEF gen2, base2
    <2> QED BY <1>1, <1>2, NoRequestIsRequest, BlankIsFrame DEF Controls
  <1> DEFINE e == [t.ctl EXCEPT !.own = b, !.base = @ + base, !.gen = @ + 1,
                          !.pending = NoRequest, !.accepted = Blank,
                          !.provisional = FALSE, !.cancelled = Scopes(t)]
             was == [t.clear EXCEPT !.pending = t.ctl.gen + 1,
                                    !.ph = IF @ = "idle" THEN "start" ELSE @]
  <1>9. c = e /\ was = d
    BY <1>1 DEF Controls
  <1>10. ClearControl(t, b, clearOutput, base) =
            [t EXCEPT !.ctl = e, !.clear = IF ~clearOutput THEN t.clear ELSE was]
    BY DEF ClearControl
  <1> HIDE DEF c, e, was
  <1>5. Sound(t1, {})
    <2>1. Fresh(t, c.accepted.own) /\ Fresh(t, c.own)
      BY <1>4, BlankIsFrame DEF Fresh
    <2>2. c.published <= c.gen /\ t.ctl.gen <= c.gen /\ c.gen # t.ctl.gen
      BY <1>1, <1>3, <1>4, StateTypes DEF Sound, Ordered
    <2> QED BY <1>4, <2>1, <2>2, CtlChanges DEF Sound, Ordered
  <1>6. /\ t1.ctl = c /\ t1.job = t.job /\ t1.results = t.results /\ t1.undo = t.undo
        /\ t1.store = t.store /\ t1.bind = t.bind /\ t1.left = t.left /\ t1.io = t.io
        /\ t1.clear = t.clear
    BY <1>1 DEF States
  <1>7. CASE ~clearOutput
    <2>1. ClearControl(t, b, clearOutput, base) = t1
      BY <1>1, <1>7, <1>9, <1>10 DEF States
    <2> HIDE DEF t1
    <2> QED BY <1>4, <1>5, <1>6, <1>7, <2>1 DEF Requested
  <1>8. CASE clearOutput
    <2>1. ClearControl(t, b, clearOutput, base) = t2
      <3> HIDE DEF d
      <3> QED BY <1>1, <1>8, <1>9, <1>10 DEF States
    <2>2. /\ t2.ctl = c /\ t2.job = t.job /\ t2.results = t.results /\ t2.undo = t.undo
          /\ t2.store = t.store /\ t2.bind = t.bind /\ t2.left = t.left /\ t2.io = t.io
          /\ t2.clear = d
      BY <1>1 DEF States
    <2>3. /\ d \in [ph : {"idle", "start", "queue", "write"}, gen : Nat, pending : Nat]
          /\ d.gen = t.clear.gen /\ d.pending = gen2 /\ d.ph # "idle"
          /\ IF t.clear.ph = "idle" THEN d.ph = "start" ELSE d.ph = t.clear.ph
      BY <1>1 DEF States
    <2> HIDE DEF d, gen2
    <2>4. Sound(t2, {x})
      <3>1. d.gen <= t1.ctl.gen /\ d.pending <= t1.ctl.gen
        BY <1>1, <1>3, <1>4, <1>6, <2>3, StateTypes, TaskViews DEF Sound, Ordered
      <3>2. d.ph = "write" => t1.ctl.published <= d.gen
        BY <1>6, <1>4, <2>3, TaskViews DEF Sound, Ordered, Writing
      <3> HIDE DEF t1
      <3>3. Sound(t2, {} \union {x})
        BY <1>5, <2>3, <3>1, <3>2, ClearChanges
      <3> QED BY <3>3
    <2>5. Sound(t2, {})
      <3> HIDE DEF t2
      <3>1. Stage(t2, x) = d.ph /\ Stage(t, x) = t.clear.ph /\ x \in Tasks
        BY <2>2, TaskViews
      <3>2. CASE t.clear.ph = "idle"
        <4>1. x \notin ToSet(t2.io) /\ Stage(t2, x) \notin InLine \union Holding
          BY <2>2, <2>3, <3>1, <3>2 DEF Sound, Line, InLine, Holding
        <4>2. Sound(t2, {} \union {x})
          BY <2>4
        <4>3. Sound(t2, {} \ {x})
          BY <4>1, <4>2, Arrives
        <4> QED BY <4>3
      <3>3. CASE t.clear.ph # "idle"
        <4>1. Sound(t2, {} \union {x})
          BY <2>4
        <4> QED BY <2>2, <2>3, <3>1, <3>3, <4>1, StageKept
      <3> QED BY <3>2, <3>3
    <2> HIDE DEF t2
    <2> QED BY <1>4, <2>1, <2>2, <2>3, <2>5 DEF Requested, gen2
  <1> QED BY <1>7, <1>8

\* The render of an installed binding keeps Sound.
LEMMA RenderKeeps ==
    ASSUME NEW t, Sound(t, {}), NEW b \in Bindings, Fresh(t, b), NEW clearWhenEmpty \in BOOLEAN
    PROVE  LET u == Render(t, b, clearWhenEmpty)
           IN Sound(u, {}) /\ Requested(t, u) /\ u.ctl.own = b
  <1>1. b \in Owners
    BY DispatcherAssumption DEF Owners, Bindings
  <1>2. t \in States /\ t.store[b].base \in Bases /\ t.store[b].ov \in Int
    BY StateTypes DEF Sound
  <1>3. Composed(t, b) \in Frames /\ FrameOf(Composed(t, b), b)
    BY <1>1, <1>2, FrameIsFrame DEF Composed
  <1>4. CASE ~Empty(t, b)
    <2>1. Render(t, b, clearWhenEmpty) = Submit(t, b, Composed(t, b), 0)
      BY <1>4 DEF Render
    <2> QED BY <1>1, <1>3, <2>1, SubmitKeeps
  <1>5. CASE Empty(t, b) /\ clearWhenEmpty
    <2>1. Render(t, b, clearWhenEmpty) = ClearControl(t, b, TRUE, 0)
      BY <1>5 DEF Render
    <2>2. /\ Sound(ClearControl(t, b, TRUE, 0), {}) /\ Requested(t, ClearControl(t, b, TRUE, 0))
          /\ ClearControl(t, b, TRUE, 0).ctl.own = b
      <3>1. TRUE \in BOOLEAN /\ 0 \in Nat
        OBVIOUS
      <3> QED BY <1>1, <3>1, ClearControlKeeps, Zenon
    <2> QED BY <2>1, <2>2
  <1>6. CASE Empty(t, b) /\ ~clearWhenEmpty
    <2>1. Render(t, b, clearWhenEmpty) = Claim(t, b, 0)
      BY <1>6 DEF Render
    <2> QED BY <1>1, <2>1, ClaimKeeps
  <1> QED BY <1>4, <1>5, <1>6

----------------------------------------------------------------------------
(* Loading indicators and the end of a job *)

\* An indicator that is over leaves the line.
LEMMA FeedLeaves ==
    ASSUME NEW t, NEW X, Sound(t, X), NEW y \in Feeds, <<"feed", y>> \notin X
    PROVE  LET u == Leave([t EXCEPT !.feed[y] = IdleFeed], <<"feed", y>>)
           IN /\ Sound(u, X) /\ SameLine(t, u, <<"feed", y>>)
              /\ u.ctl = t.ctl /\ u.run = t.run /\ u.clear = t.clear /\ u.job = t.job
              /\ u.results = t.results /\ u.undo = t.undo /\ u.store = t.store
              /\ u.bind = t.bind /\ u.left = t.left
              /\ \A z \in Feeds \ {y} : u.feed[z] = t.feed[z]
  <1> DEFINE x == <<"feed", y>>
             v == [t EXCEPT !.feed[y] = IdleFeed]
             u == Leave(v, x)
  <1>1. t \in States /\ t.ctl.gen \in Nat
    BY StateTypes DEF Sound
  <1>2. /\ v.ctl = t.ctl /\ v.io = t.io /\ v.run = t.run /\ v.clear = t.clear
        /\ v.job = t.job /\ v.results = t.results /\ v.undo = t.undo /\ v.store = t.store
        /\ v.bind = t.bind /\ v.left = t.left /\ v.feed[y] = IdleFeed
        /\ \A z \in Feeds \ {y} : v.feed[z] = t.feed[z]
    BY <1>1 DEF States
  <1>3. IdleFeed \in FeedStates /\ IdleFeed.gen = 0 /\ IdleFeed.own = None
        /\ IdleFeed.ph = "off"
    BY DispatcherAssumption DEF IdleFeed, FeedStates, Owners, None
  <1>4. IdleFeed.gen <= t.ctl.gen /\ OfOwner(t, IdleFeed.gen, IdleFeed.own)
    BY <1>1, <1>3 DEF Sound, Belongs, OfOwner
  <1>5. Sound(v, X \union {x})
    <2>1. /\ IdleFeed.ph = "write" => t.ctl.published <= IdleFeed.gen
          /\ IdleFeed.ph = "write" => Fresh(t, IdleFeed.own) \/ t.clear.ph # "idle"
          /\ y \in Jobs => \/ IdleFeed.ph = "off"
                           \/ t.job[y].ph # "new" /\ IdleFeed.own = t.job[y].b
      BY <1>3
    <2> QED BY <1>3, <1>4, <2>1, FeedChanges
  <1> HIDE DEF v
  <1>6. Stage(v, x) = "off" /\ x \in Tasks
    BY <1>2, <1>3, TaskViews
  <1>7. Sound(u, X \ {x}) /\ SameLine(v, u, x) /\ OnlyLine(v, u)
    BY <1>5, <1>6, LeavesFor DEF InLine
  <1>8. X \ {x} = X
      OBVIOUS
  <1> HIDE DEF u
  <1>9. /\ Sound(u, X) /\ SameLine(t, u, x)
        /\ u.ctl = t.ctl /\ u.run = t.run /\ u.clear = t.clear /\ u.job = t.job
        /\ u.results = t.results /\ u.undo = t.undo /\ u.store = t.store
        /\ u.bind = t.bind /\ u.left = t.left
        /\ \A z \in Feeds \ {y} : u.feed[z] = t.feed[z]
    BY <1>2, <1>7, <1>8 DEF SameLine, OnlyLine, First
  <1> QED BY <1>9 DEF u, v

\* Stopping an indicator, wherever it is, keeps Sound.
LEMMA StopFeedKeeps ==
    ASSUME NEW t, NEW X, Sound(t, X), NEW y \in Feeds, <<"feed", y>> \notin X
    PROVE  LET u == StopFeed(t, y)
           IN /\ Sound(u, X) /\ SameLine(t, u, <<"feed", y>>)
              /\ u.ctl = t.ctl /\ u.run = t.run /\ u.clear = t.clear /\ u.job = t.job
              /\ u.results = t.results /\ u.undo = t.undo /\ u.store = t.store
              /\ u.bind = t.bind /\ u.left = t.left
              /\ \A z \in Feeds \ {y} : u.feed[z] = t.feed[z]
  <1>1. CASE t.feed[y].ph \in {"off", "write"}
    BY <1>1 DEF StopFeed, SameLine
  <1>2. CASE t.feed[y].ph \notin {"off", "write"}
    <2>1. StopFeed(t, y) = Leave([t EXCEPT !.feed[y] = IdleFeed], <<"feed", y>>)
      BY <1>2 DEF StopFeed
    <2> QED BY <2>1, FeedLeaves
  <1> QED BY <1>1, <1>2

\* What the end of a job leaves alone.
Ended(t, u) ==
    /\ u.ctl = t.ctl /\ u.run = t.run /\ u.clear = t.clear /\ u.store = t.store
    /\ u.bind = t.bind /\ u.left = t.left
    /\ \A i \in Jobs : /\ u.job[i].ph = t.job[i].ph /\ u.job[i].b = t.job[i].b
                       /\ u.job[i].ticket = t.job[i].ticket
    /\ \A i \in Jobs : <<"job", i>> \in ToSet(u.io) => <<"job", i>> \in ToSet(t.io)

\* The end of a job keeps Sound: its provider is told once, and a job that was told
\* already is left as it is.
LEMMA FinishKeeps ==
    ASSUME NEW t, NEW j \in Jobs, NEW X \in SUBSET {<<"job", j>>}, Sound(t, X),
           t.job[j].ph # "new", NEW result \in Ends
    PROVE  LET u == Finish(t, j, result)
           IN Sound(u, X) /\ Ended(t, u)
  <1> DEFINE told == IF j \in DirectJobs THEN <<>>
                     ELSE IF t.job[j].command = "rejected" THEN <<result, "hardware">>
                     ELSE <<result>>
             r == [t.job[j] EXCEPT !.done = TRUE]
             n == [t.undo[j] EXCEPT !.ph = IF result = "dispatched" THEN @ ELSE "start"]
             t1 == [t EXCEPT !.job[j] = r, !.results[j] = told]
             t2 == [t1 EXCEPT !.undo[j] = n]
             x == <<"job", j>>
             y == <<"undo", j>>
  <1>3. <<"feed", j>> \notin X /\ y \notin X
    OBVIOUS
  <1>1. CASE t.job[j].done
    BY <1>1 DEF Finish, Ended
  <1>2. CASE ~t.job[j].done
    <2>1. /\ t \in States /\ t.job[j] \in JobStates /\ t.undo[j] \in UndoStates
          /\ t.results \in [Jobs -> Seq(Replies)]
      BY StateTypes DEF Sound, States
    <2>2. t.results[j] = <<>> /\ t.undo[j].ph = "off"
      BY <1>2 DEF Sound, Told, Honest
    <2>3. told \in Seq(Replies) /\ t.results[j] \o told = told
      <3>1. result \in Replies /\ "hardware" \in Replies
        BY DEF Ends, Replies
      <3>2. told \in Seq(Replies)
        BY <3>1
      <3> HIDE DEF told
      <3>3. <<>> \o told = told
        BY <3>2, ConcatEmptySeq
      <3> QED BY <2>2, <3>2, <3>3
    <2>4. Finish(t, j, result) = StopFeed(t2, j)
      <3>1. [t EXCEPT !.job[j].done = TRUE, !.results[j] = @ \o told,
                      !.undo[j].ph = IF result = "dispatched" THEN @ ELSE "start"] =
            [t EXCEPT !.job[j] = r, !.results[j] = t.results[j] \o told, !.undo[j] = n]
        BY <2>1 DEF States
      <3>2. [t EXCEPT !.job[j] = r, !.results[j] = t.results[j] \o told, !.undo[j] = n] = t2
        <4> HIDE DEF r, told, n
        <4> QED BY <2>1, <2>3 DEF States
      <3>3. Finish(t, j, result) = StopFeed([t EXCEPT !.job[j].done = TRUE,
                  !.results[j] = @ \o told,
                  !.undo[j].ph = IF result = "dispatched" THEN @ ELSE "start"], j)
        BY <1>2 DEF Finish
      <3> HIDE DEF r, told, n, t1, t2
      <3> QED BY <3>1, <3>2, <3>3
    <2>5. /\ r \in JobStates /\ r.done = TRUE /\ r.ph = t.job[j].ph /\ r.b = t.job[j].b
          /\ r.rev = t.job[j].rev /\ r.ticket = t.job[j].ticket
          /\ r.command = t.job[j].command
      BY <2>1 DEF JobStates
    <2>6. Honest(j, r, told, t.feed[j], t.undo[j].ph)
      <3>1. r.ph \notin {"new", "end"} => r.b # None
        BY <2>5 DEF Sound, Told, Honest
      <3>2. t.feed[j].ph # "off" => t.feed[j].own = r.b
        BY <2>5 DEF Sound, Told, Honest
      <3> QED BY <2>5, <3>1, <3>2 DEF Honest
    <2>7. Sound(t1, X \union {x})
      <3> HIDE DEF r, told
      <3>4. Stage(t, x) = r.ph /\ Gen(t, x) = r.rev /\ Owner(t, x) = r.b /\ x \in Tasks
        BY <2>5, TaskViews
      <3>1. r.rev <= t.ctl.gen
        BY <3>4 DEF Sound, Ordered
      <3>2. r.ph \in Writing => t.ctl.published <= r.rev
        BY <3>4 DEF Sound, Ordered
      <3>3. r.ph \in Writing => Fresh(t, r.b) \/ t.clear.ph # "idle"
        BY <3>4 DEF Sound, Belongs
      <3> QED BY ZenonT(60), <2>3, <2>5, <2>6, <3>1, <3>2, <3>3, JobChanges
    <2>8. /\ t1.ctl = t.ctl /\ t1.run = t.run /\ t1.clear = t.clear /\ t1.store = t.store
          /\ t1.bind = t.bind /\ t1.left = t.left /\ t1.io = t.io /\ t1.undo = t.undo
          /\ t1.job[j] = r /\ \A i \in Jobs \ {j} : t1.job[i] = t.job[i]
      <3> HIDE DEF r, told
      <3> QED BY <2>1 DEF States
    <2> HIDE DEF r, told, t1
    <2>9. Sound(t1, X)
      <3>1. Stage(t1, x) = Stage(t, x) /\ x \in Tasks
        BY <2>5, <2>8, TaskViews
      <3> QED BY <2>7, <2>8, <3>1, StageKept
    <2>10. n \in UndoStates /\ n.gen = t.undo[j].gen /\ n.ph \in {"off", "start"}
      BY <2>1, <2>2 DEF UndoStates
    <2>11. /\ t2.ctl = t.ctl /\ t2.run = t.run /\ t2.clear = t.clear /\ t2.store = t.store
           /\ t2.bind = t.bind /\ t2.left = t.left /\ t2.io = t.io /\ t2.job = t1.job
           /\ t2.undo[j] = n
      <3> HIDE DEF n
      <3> QED BY <2>8, <2>9 DEF Sound, States
    <2> HIDE DEF n
    <2>12. Sound(t2, X)
      <3>1. n.gen <= t1.ctl.gen
        BY <2>8, <2>9, <2>10, SoundTasks
      <3>2. n.ph # "write" /\ t1.job[j].done
        BY <2>5, <2>8, <2>10
      <3>3. Sound(t2, X \union {y})
        BY <2>9, <2>10, <3>1, <3>2, UndoChanges
      <3> HIDE DEF t2
      <3>4. Stage(t2, y) = n.ph /\ Stage(t, y) = "off" /\ y \in Tasks
        BY <2>2, <2>11, TaskViews
      <3>5. y \notin ToSet(t2.io)
        BY <2>11, <3>4 DEF Sound, Line, InLine
      <3>6. Stage(t2, y) \notin InLine \union Holding
        BY <2>10, <3>4 DEF InLine, Holding
      <3>7. Sound(t2, X \ {y})
        BY <3>3, <3>5, <3>6, Arrives
      <3>8. X \ {y} = X
        BY <1>3
      <3> QED BY <3>7, <3>8
    <2> HIDE DEF t2
    <2> DEFINE u == StopFeed(t2, j)
    <2>13. /\ Sound(u, X) /\ SameLine(t2, u, <<"feed", j>>)
           /\ u.ctl = t2.ctl /\ u.run = t2.run /\ u.clear = t2.clear /\ u.job = t2.job
           /\ u.store = t2.store /\ u.bind = t2.bind /\ u.left = t2.left
      BY <1>3, <2>12, StopFeedKeeps
    <2> HIDE DEF u
    <2>14. \A i \in Jobs : u.job[i].ph = t.job[i].ph /\ u.job[i].b = t.job[i].b
                           /\ u.job[i].ticket = t.job[i].ticket
      BY <2>5, <2>8, <2>11, <2>13
    <2>15. \A i \in Jobs : <<"job", i>> \in ToSet(u.io) => <<"job", i>> \in ToSet(t.io)
      BY <2>11, <2>13, TaskViews DEF SameLine
    <2>16. u.job[j].done
      BY <2>5, <2>8, <2>11, <2>13
    <2> QED BY <2>4, <2>11, <2>13, <2>14, <2>15, <2>16 DEF Ended, u
  <1> QED BY <1>1, <1>2

\* The end of several jobs, as a fold.
FinishStep(result, t, j) == Finish(t, j, result)
FinishGood(result, z, t, D) ==
    Sound(t, {}) /\ Ended(z, t)

Endings == INSTANCE FoldProofs WITH Step <- FinishStep, Good <- FinishGood

\* The end of any set of jobs keeps Sound.
LEMMA FinishAllKeeps ==
    ASSUME NEW t, Sound(t, {}), NEW js \in SUBSET Jobs, \A j \in js : t.job[j].ph # "new",
           NEW result \in Ends
    PROVE  LET u == FinishAll(t, js, result) IN Sound(u, {}) /\ Ended(t, u)
  <1> DEFINE u == Endings!FoldedSet(result, t, js)
             size == [D \in SUBSET js |-> Cardinality(D)]
  <1>1. FinishAll(t, js, result) = u
    BY DEF FinishAll, FinishStep, FoldSet, MapThenFoldSet, Endings!FoldedSet
  <1>2. /\ Endings!Shrinking(size, js)
        /\ \A D \in SUBSET js : size[D] <= size[js]
    <2>1. IsFiniteSet(js)
      BY DispatcherAssumption, FS_Subset
    <2>2. ASSUME NEW D \in SUBSET js
          PROVE  /\ Cardinality(D) \in Nat /\ Cardinality(D) <= Cardinality(js)
                 /\ \A j \in D : Cardinality(D \ {j}) < Cardinality(D)
      <3>1. IsFiniteSet(D) /\ Cardinality(D) <= Cardinality(js)
        BY <2>1, FS_Subset
      <3>2. Cardinality(D) \in Nat
        BY <3>1, FS_CardinalityType
      <3>3. \A j \in D : Cardinality(D \ {j}) = Cardinality(D) - 1
        BY <3>1, FS_RemoveElement
      <3> QED BY <3>1, <3>2, <3>3
    <2> QED BY <2>2 DEF Endings!Shrinking
  <1>3. FinishGood(result, t, t, {})
    BY DEF FinishGood, Ended
  <1>4. ASSUME NEW D \in SUBSET js, NEW j \in js \ D, NEW v, FinishGood(result, t, v, D)
        PROVE  FinishGood(result, t, FinishStep(result, v, j), D \union {j})
    <2> DEFINE w == Finish(v, j, result)
    <2>1. Sound(v, {}) /\ Ended(t, v) /\ v.job[j].ph # "new"
      BY <1>4 DEF FinishGood, Ended
    <2>2. Sound(w, {}) /\ Ended(v, w)
      <3>1. j \in Jobs /\ {} \in SUBSET {<<"job", j>>}
        OBVIOUS
      <3> HIDE DEF w
      <3> QED BY <2>1, <3>1, FinishKeeps DEF w
    <2>3. FinishStep(result, v, j) = w
      BY DEF FinishStep
    <2> HIDE DEF w
    <2>5. Ended(t, w)
      BY <2>1, <2>2 DEF Ended
    <2> QED BY <2>2, <2>3, <2>5 DEF FinishGood
  <1> HIDE DEF u, size
  <1>5. FinishGood(result, t, u, js)
    BY <1>2, <1>3, <1>4, LeastNatural, Endings!FoldSetKeeps DEF u, Endings!WellOrdered
  <1> QED BY <1>1, <1>5 DEF FinishGood

----------------------------------------------------------------------------
(* The stages of runs and jobs *)

\* What a task that goes on leaves alone.
GoesOn(t, u) ==
    /\ u.job = t.job /\ u.results = t.results /\ u.undo = t.undo /\ u.store = t.store
    /\ u.bind = t.bind /\ u.left = t.left /\ u.clear = t.clear
    /\ u.ctl.published = t.ctl.published /\ u.ctl.gen = t.ctl.gen

\* A render task that ends its request takes the one that waits, or ends.
LEMMA NextRequestKeeps ==
    ASSUME NEW t, NEW k \in Runs, Sound(t, {<<"run", k>>}), <<"run", k>> \notin ToSet(t.io)
    PROVE  LET u == NextRequest(t, k) IN Sound(u, {}) /\ GoesOn(t, u)
  <1> DEFINE c == [t.ctl EXCEPT !.pending = NoRequest, !.cancelled = @ \ {k}]
             x == <<"run", k>>
             t1 == [t EXCEPT !.ctl = c]
             t2 == [t1 EXCEPT !.run[k] = IdleRun]
  <1>1. t \in States /\ t.ctl \in Controls /\ t.ctl.gen \in Nat
    BY StateTypes DEF Sound
  <1>2. /\ c \in Controls /\ c.own = t.ctl.own /\ c.gen = t.ctl.gen
        /\ c.published = t.ctl.published /\ c.pending = NoRequest
        /\ c.accepted = t.ctl.accepted
    BY <1>1, NoRequestIsRequest DEF Controls
  <1> HIDE DEF c
  <1>3. Sound(t1, {x})
    <2>1. Fresh(t, c.accepted.own) /\ Fresh(t, c.own)
      BY <1>2 DEF Sound, Belongs
    <2>2. c.published <= c.gen /\ t.ctl.gen <= c.gen
          /\ \A y \in Tasks : Stage(t, y) \in Writing => c.published <= Gen(t, y)
      BY <1>1, <1>2 DEF Sound, Ordered
    <2> QED BY <1>2, <2>1, <2>2, CtlChanges
  <1>4. /\ t1.ctl = c /\ t1.job = t.job /\ t1.results = t.results /\ t1.undo = t.undo
        /\ t1.store = t.store /\ t1.bind = t.bind /\ t1.left = t.left /\ t1.io = t.io
        /\ t1.clear = t.clear /\ t1.run = t.run
    BY <1>1 DEF States
  <1>5. /\ t2.ctl = c /\ t2.job = t.job /\ t2.results = t.results /\ t2.undo = t.undo
        /\ t2.store = t.store /\ t2.bind = t.bind /\ t2.left = t.left /\ t2.io = t.io
        /\ t2.clear = t.clear /\ t2.run[k] = IdleRun
    BY <1>1 DEF States
  <1>6. /\ IdleRun \in RunStates /\ IdleRun.ph = "idle" /\ IdleRun.req.gen = 0
        /\ IdleRun.req.own = None /\ FrameOf(IdleRun.req.frame, None)
    BY NoRequestIsRequest, BlankIsFrame DEF IdleRun, RunStates, FrameOf, NoRequest
  <1> HIDE DEF t1
  <1>7. Sound(t2, {x})
    <2>1. IdleRun.req.gen <= t1.ctl.gen /\ OfOwner(t1, IdleRun.req.gen, IdleRun.req.own)
      BY <1>1, <1>2, <1>3, <1>4, <1>6 DEF Sound, Belongs, OfOwner
    <2>2. IdleRun.ph \notin Writing
      BY <1>6 DEF Writing
    <2>3. Sound(t2, {x} \union {x})
      BY <1>2, <1>3, <1>4, <1>6, <2>1, <2>2, RunChanges
    <2> QED BY <2>3
  <1> DEFINE freed == [t EXCEPT !.run[k] = IdleRun, !.ctl.pending = NoRequest,
                                !.ctl.cancelled = @ \ {k}]
  <1>8. freed = t2
    BY <1>1 DEF t1, c, States
  <1>9. NextRequest(t, k) = IF t.ctl.pending = NoRequest THEN freed
                            ELSE StartRun(freed, k, t.ctl.pending)
    BY DEF NextRequest
  <1> HIDE DEF t2, freed
  <1>10. Sound(t2, {})
    <2>1. Stage(t2, x) = "idle" /\ x \in Tasks
      BY <1>5, <1>6, TaskViews
    <2>2. Sound(t2, {} \union {x})
      BY <1>7
    <2>3. Sound(t2, {} \ {x})
      BY <1>5, <2>1, <2>2, Arrives DEF InLine, Holding
    <2> QED BY <2>3
  <1>11. CASE t.ctl.pending = NoRequest
    BY <1>2, <1>5, <1>8, <1>9, <1>10, <1>11 DEF GoesOn
  <1>12. CASE t.ctl.pending # NoRequest
    <2> DEFINE u == StartRun(t2, k, t.ctl.pending)
    <2>1. /\ t.ctl.pending \in Requests /\ t.ctl.pending.gen = t2.ctl.gen
          /\ t.ctl.pending.own = t2.ctl.own /\ FrameOf(t.ctl.pending.frame, t.ctl.pending.own)
      BY <1>1, <1>2, <1>5, <1>12 DEF Sound, Expected, Controls
    <2>2. /\ Sound(u, {}) /\ u.ctl = [t2.ctl EXCEPT !.cancelled = @ \ {k}]
          /\ u.job = t2.job /\ u.results = t2.results /\ u.undo = t2.undo
          /\ u.store = t2.store /\ u.bind = t2.bind /\ u.left = t2.left /\ u.clear = t2.clear
      BY <1>5, <1>6, <1>10, <2>1, StartRunKeeps
    <2>3. u.ctl.gen = t.ctl.gen /\ u.ctl.published = t.ctl.published
      BY <1>2, <1>5, <2>2 DEF Controls
    <2> HIDE DEF u
    <2> QED BY <1>5, <1>8, <1>9, <1>12, <2>2, <2>3 DEF GoesOn, u
  <1> QED BY <1>11, <1>12

\* A run keeps its request through its stages.
Staged(t, k, ph) == [t EXCEPT !.run[k].ph = ph]

\* A render task may go to any stage it is allowed.
LEMMA RunMoves ==
    ASSUME NEW t, NEW X, NEW k \in Runs, Sound(t, X),
           NEW ph \in {"render", "apply", "write", "settle", "restore"},
           ph = "write" => /\ t.run[k].req.gen = t.ctl.gen
    PROVE  LET u == Staged(t, k, ph)
           IN /\ Sound(u, X \union {<<"run", k>>}) /\ GoesOn(t, u) /\ u.io = t.io /\ u.ctl = t.ctl
              /\ u.run[k] = [ph |-> ph, req |-> t.run[k].req] /\ u.feed = t.feed
  <1> DEFINE r == [ph |-> ph, req |-> t.run[k].req]
             u == [t EXCEPT !.run[k] = r]
  <1>1. t \in States /\ t.run[k] \in RunStates /\ t.ctl.gen \in Nat /\ t.ctl.published \in Nat
    BY StateTypes DEF Sound
  <1>2. Staged(t, k, ph) = u
    BY <1>1 DEF RunStates, Staged
  <1>3. r \in RunStates /\ r.ph = ph /\ r.req = t.run[k].req
    BY <1>1 DEF RunStates
  <1>4. /\ r.req.gen <= t.ctl.gen /\ FrameOf(r.req.frame, r.req.own)
        /\ OfOwner(t, r.req.gen, r.req.own)
    BY <1>3, TaskViews DEF Sound, Ordered, Belongs
  <1>5. ph = "write" => t.ctl.published <= r.req.gen /\ Fresh(t, r.req.frame.own)
    BY <1>1, <1>3, <1>4 DEF Sound, Ordered, Belongs, OfOwner, FrameOf, Fresh
  <1>6. r.ph \in Writing => ph = "write"
    BY <1>3 DEF Writing
  <1>7. /\ u.ctl = t.ctl /\ u.job = t.job /\ u.results = t.results /\ u.undo = t.undo
        /\ u.store = t.store /\ u.bind = t.bind /\ u.left = t.left /\ u.io = t.io
        /\ u.clear = t.clear /\ u.run[k] = r /\ u.feed = t.feed
    <2> HIDE DEF r
    <2> QED BY <1>1 DEF States
  <1>8. Sound(u, X \union {<<"run", k>>})
    <2>1. r.ph # "idle"
      BY <1>3
    <2> HIDE DEF r
    <2> QED BY <1>3, <1>4, <1>5, <1>6, <2>1, RunChanges
  <1> HIDE DEF u
  <1> QED BY <1>2, <1>7, <1>8 DEF GoesOn

\* A render task that was written and is late goes on, or stands in line to restore.
LEMMA SettleKeeps ==
    ASSUME NEW t, NEW k \in Runs, Sound(t, {<<"run", k>>}), <<"run", k>> \notin ToSet(t.io)
    PROVE  LET u == Settle(t, k) IN Sound(u, {}) /\ GoesOn(t, u) /\ u.ctl = t.ctl
  <1> DEFINE x == <<"run", k>>
             v == Staged(t, k, "settle")
             u == Join(v, x)
  <1>1. /\ Sound(v, {x}) /\ GoesOn(t, v) /\ v.io = t.io /\ v.ctl = t.ctl
        /\ v.run[k].ph = "settle"
    <2>1. /\ Sound(v, {x} \union {x}) /\ GoesOn(t, v) /\ v.io = t.io /\ v.ctl = t.ctl
          /\ v.run[k] = [ph |-> "settle", req |-> t.run[k].req]
      <3>1. "settle" \in {"render", "apply", "write", "settle", "restore"} /\ "settle" # "write"
        OBVIOUS
      <3> QED BY ZenonT(60), <3>1, RunMoves
    <2> HIDE DEF v
    <2> QED BY <2>1
  <1>2. Settle(t, k) = u
    BY DEF Settle, Staged
  <1> HIDE DEF v
  <1>3. Stage(v, x) = "settle" /\ x \in Tasks
    BY <1>1, TaskViews
  <1>4. Sound(u, {} \ {x}) /\ OnlyLine(v, u)
    <2>1. Sound(v, {} \union {x})
      BY <1>1
    <2> QED BY <1>1, <1>3, <2>1, JoinsFor DEF InLine, Holding
  <1> HIDE DEF u
  <1> QED BY <1>1, <1>2, <1>4 DEF GoesOn, OnlyLine

\* A job that has not been admitted anew keeps what it told.
LEMMA JobMoves ==
    ASSUME NEW t, NEW X, NEW j \in Jobs, Sound(t, X), NEW r \in JobStates,
           r.ph # "new", r.ph # "end" => r.b # None, r.b = t.job[j].b,
           r.done = t.job[j].done, r.done => r.command = t.job[j].command,
           r.rev <= t.ctl.gen, r.ph = "send" => t.ctl.published <= r.rev,
           r.ph = "send" => Fresh(t, r.b) \/ t.clear.ph # "idle"
    PROVE  LET u == [t EXCEPT !.job[j] = r]
           IN /\ Sound(u, X \union {<<"job", j>>})
              /\ u.ctl = t.ctl /\ u.run = t.run /\ u.clear = t.clear /\ u.io = t.io
              /\ u.results = t.results /\ u.feed = t.feed /\ u.undo = t.undo
              /\ u.store = t.store /\ u.bind = t.bind /\ u.left = t.left
              /\ u.job = [t.job EXCEPT ![j] = r]
  <1> DEFINE u == [t EXCEPT !.job[j] = r]
             q == t.results[j]
  <1>1. t \in States /\ q \in Seq(Replies) /\ r.done \in BOOLEAN /\ t.job[j].done \in BOOLEAN
    BY StateTypes DEF Sound, States, JobStates
  <1>2. [t EXCEPT !.job[j] = r, !.results[j] = q] = u
    BY <1>1 DEF States
  <1>3. r.ph \in Writing => r.ph = "send"
    BY DEF JobStates, Writing
  <1>4. Honest(j, r, q, t.feed[j], t.undo[j].ph)
    <2>1. Honest(j, t.job[j], q, t.feed[j], t.undo[j].ph)
      BY DEF Sound, Told
    <2>2. CASE ~r.done
      BY <2>1, <2>2 DEF Honest
    <2>3. CASE r.done
      BY <2>1, <2>3 DEF Honest
    <2> QED BY <2>2, <2>3
  <1>5. Sound(u, X \union {<<"job", j>>})
    <2> HIDE DEF u, q
    <2> QED BY ZenonT(60), <1>1, <1>2, <1>3, <1>4, JobChanges
  <1>6. /\ u.ctl = t.ctl /\ u.run = t.run /\ u.clear = t.clear /\ u.io = t.io
        /\ u.results = t.results /\ u.feed = t.feed /\ u.undo = t.undo
        /\ u.store = t.store /\ u.bind = t.bind /\ u.left = t.left
        /\ u.job = [t.job EXCEPT ![j] = r]
    BY <1>1 DEF States
  <1> QED BY <1>5, <1>6

\* What the steps of a job leave alone.
Worked(t, u) ==
    /\ u.ctl = t.ctl /\ u.run = t.run /\ u.clear = t.clear /\ u.store = t.store
    /\ u.bind = t.bind /\ u.left = t.left

\* A job that stops leaves the line.
LEMMA EndKeeps ==
    ASSUME NEW t, NEW j \in Jobs, Sound(t, {<<"job", j>>})
    PROVE  LET u == End(t, j) IN Sound(u, {}) /\ Worked(t, u)
  <1> DEFINE x == <<"job", j>>
             r == [t.job[j] EXCEPT !.ph = "end"]
             v == [t EXCEPT !.job[j] = r]
             u == Leave(v, x)
  <1>1. t \in States /\ t.job[j] \in JobStates
    BY StateTypes DEF Sound
  <1>2. End(t, j) = u
    <2>1. [t EXCEPT !.job[j].ph = "end"] = v
      OBVIOUS
    <2> QED BY <2>1 DEF End
  <1>3. /\ r \in JobStates /\ r.ph = "end" /\ r.done = t.job[j].done
        /\ r.command = t.job[j].command /\ r.rev = t.job[j].rev /\ r.b = t.job[j].b
    BY <1>1 DEF JobStates
  <1>4. r.rev <= t.ctl.gen
    <2> HIDE DEF r
    <2> QED BY <1>3, TaskViews DEF Sound, Ordered
  <1> HIDE DEF r
  <1>5. /\ Sound(v, {x} \union {x}) /\ Worked(t, v) /\ v.job = [t.job EXCEPT ![j] = r]
    <2>1. r.ph # "new" /\ r.ph # "send"
      BY <1>3
    <2>2. /\ Sound(v, {x} \union {x})
          /\ v.ctl = t.ctl /\ v.run = t.run /\ v.clear = t.clear /\ v.store = t.store
          /\ v.bind = t.bind /\ v.left = t.left
          /\ v.job = [t.job EXCEPT ![j] = r]
      BY <1>3, <1>4, <2>1, JobMoves
    <2> HIDE DEF v
    <2> QED BY <2>2 DEF Worked
  <1> HIDE DEF v
  <1>6. Stage(v, x) = "end" /\ x \in Tasks
    <2>1. v.job[j] = r
      BY <1>1, <1>5 DEF States
    <2> QED BY <1>3, <2>1, TaskViews
  <1>7. Sound(u, {} \ {x}) /\ OnlyLine(v, u)
    <2>1. Sound(v, {} \union {x})
      BY <1>5
    <2> QED BY <1>6, <2>1, LeavesFor DEF InLine
  <1> HIDE DEF u
  <1> QED BY <1>2, <1>5, <1>7 DEF Worked, OnlyLine

\* A job that works and is not in line enters it.
LEMMA ReadyKeeps ==
    ASSUME NEW t, NEW j \in Jobs, Sound(t, {<<"job", j>>}), <<"job", j>> \notin ToSet(t.io),
           t.job[j].ph \notin {"new", "end"}
    PROVE  LET u == Ready(t, j) IN Sound(u, {}) /\ Worked(t, u)
  <1> DEFINE x == <<"job", j>>
             r == [t.job[j] EXCEPT !.ph = "queue", !.ready = TRUE]
             v == [t EXCEPT !.job[j] = r]
             w == StopFeed(v, j)
             u == Join(w, x)
  <1>1. t \in States /\ t.job[j] \in JobStates
    BY StateTypes DEF Sound
  <1>2. Ready(t, j) = u
    <2>1. [t EXCEPT !.job[j].ph = "queue", !.job[j].ready = TRUE] = v
      BY <1>1 DEF States
    <2> QED BY <2>1 DEF Ready
  <1>3. /\ r \in JobStates /\ r.ph = "queue" /\ r.done = t.job[j].done
        /\ r.command = t.job[j].command /\ r.rev = t.job[j].rev /\ r.b = t.job[j].b
    BY <1>1 DEF JobStates
  <1>4. r.rev <= t.ctl.gen /\ r.b # None
    <2> HIDE DEF r
    <2> QED BY <1>3, TaskViews DEF Sound, Ordered, Told, Honest
  <1> HIDE DEF r
  <1>5. Sound(v, {x} \union {x}) /\ Worked(t, v) /\ v.job = [t.job EXCEPT ![j] = r]
        /\ v.io = t.io
    <2>1. r.ph # "new" /\ r.ph # "send"
      BY <1>3
    <2>2. /\ Sound(v, {x} \union {x})
          /\ v.ctl = t.ctl /\ v.run = t.run /\ v.clear = t.clear /\ v.store = t.store
          /\ v.bind = t.bind /\ v.left = t.left /\ v.io = t.io
          /\ v.job = [t.job EXCEPT ![j] = r]
      BY <1>3, <1>4, <2>1, JobMoves
    <2> HIDE DEF v
    <2> QED BY <2>2 DEF Worked
  <1> HIDE DEF v
  <1>6. v.job[j] = r
    BY <1>1, <1>5 DEF States
  <1>7. /\ Sound(w, {x}) /\ SameLine(v, w, <<"feed", j>>) /\ Worked(v, w) /\ w.job = v.job
    <2>1. Sound(v, {x}) /\ <<"feed", j>> \notin {x}
      BY <1>5
    <2>2. /\ Sound(w, {x}) /\ SameLine(v, w, <<"feed", j>>)
          /\ w.ctl = v.ctl /\ w.run = v.run /\ w.clear = v.clear /\ w.job = v.job
          /\ w.store = v.store /\ w.bind = v.bind /\ w.left = v.left
      BY <2>1, StopFeedKeeps
    <2> HIDE DEF w
    <2> QED BY <2>2 DEF Worked
  <1> HIDE DEF w
  <1>8. Stage(w, x) = "queue" /\ x \in Tasks
    BY <1>3, <1>6, <1>7, TaskViews
  <1>9. x \notin ToSet(w.io)
    <2>1. x # <<"feed", j>>
      OBVIOUS
    <2> QED BY <1>5, <1>7, <1>8, <2>1 DEF SameLine
  <1>10. Sound(u, {} \ {x}) /\ OnlyLine(w, u)
    <2>1. Sound(w, {} \union {x})
      BY <1>7
    <2> QED BY <1>8, <1>9, <2>1, JoinsFor DEF InLine, Holding
  <1> HIDE DEF u
  <1> QED BY <1>2, <1>5, <1>7, <1>10 DEF Worked, OnlyLine

\* A job that composes its frame, again or at first, keeps Sound.
LEMMA ComposeKeeps ==
    ASSUME NEW t, NEW j \in Jobs, Sound(t, {<<"job", j>>}), <<"job", j>> \notin ToSet(t.io),
           t.job[j].ph \notin {"new", "end"}
    PROVE  LET u == Compose(t, j) IN Sound(u, {}) /\ Worked(t, u)
  <1> DEFINE x == <<"job", j>>
             ov == t.store[t.job[j].b].ov
             r == [t.job[j] EXCEPT !.rev = t.ctl.gen, !.ov = ov, !.ph = "compose"]
             u == [t EXCEPT !.job[j] = r]
  <1>1. t \in States /\ t.job[j] \in JobStates /\ t.ctl.gen \in Nat
    BY StateTypes DEF Sound
  <1>2. t.job[j].b # None /\ t.job[j].b \in Bindings
    <2>1. t.job[j].b # None /\ t.job[j].b \in Owners
      BY <1>1, StateTypes DEF Sound, Told, Honest
    <2> QED BY <2>1, DispatcherAssumption DEF Owners, Bindings, None
  <1>3. ov \in Int
    BY <1>1, <1>2, StateTypes
  <1>4. Compose(t, j) = IF ov = None /\ j \in ClearJobs \union DirectJobs THEN Ready(u, j) ELSE u
    <2>1. [t EXCEPT !.job[j].rev = t.ctl.gen, !.job[j].ov = ov, !.job[j].ph = "compose"] = u
      <3> HIDE DEF ov
      <3> QED BY ZenonT(60), <1>1 DEF States
    <2> QED BY <2>1 DEF Compose
  <1> HIDE DEF ov
  <1>5. /\ r \in JobStates /\ r.ph = "compose" /\ r.done = t.job[j].done
        /\ r.command = t.job[j].command /\ r.rev = t.ctl.gen /\ r.b = t.job[j].b
    BY <1>1, <1>3 DEF JobStates
  <1> HIDE DEF r
  <1>6. Sound(u, {x} \union {x}) /\ Worked(t, u) /\ u.job = [t.job EXCEPT ![j] = r]
        /\ u.io = t.io
    <2>1. r.ph # "new" /\ r.ph # "send" /\ r.b # None /\ r.rev <= t.ctl.gen
      BY <1>1, <1>2, <1>5
    <2>2. /\ Sound(u, {x} \union {x})
          /\ u.ctl = t.ctl /\ u.run = t.run /\ u.clear = t.clear /\ u.store = t.store
          /\ u.bind = t.bind /\ u.left = t.left /\ u.io = t.io
          /\ u.job = [t.job EXCEPT ![j] = r]
      BY <1>5, <2>1, JobMoves
    <2> HIDE DEF u
    <2> QED BY <2>2 DEF Worked
  <1> HIDE DEF u
  <1>7. u.job[j] = r /\ u.job[j].ph = "compose"
    BY <1>1, <1>5, <1>6 DEF States
  <1>8. CASE ov = None /\ j \in ClearJobs \union DirectJobs
    <2>1. Sound(Ready(u, j), {}) /\ Worked(u, Ready(u, j))
      <3>1. Sound(u, {x}) /\ u.job[j].ph \notin {"new", "end"}
        BY <1>6, <1>7
      <3> QED BY <1>6, <3>1, ReadyKeeps
    <2> QED BY <1>4, <1>6, <1>8, <2>1 DEF Worked
  <1>9. CASE ~(ov = None /\ j \in ClearJobs \union DirectJobs)
    <2>1. Stage(u, x) = "compose" /\ x \in Tasks
      BY <1>7, TaskViews
    <2>2. Sound(u, {} \ {x})
      <3>1. Sound(u, {} \union {x})
        BY <1>6
      <3> QED BY <1>6, <2>1, <3>1, Arrives DEF InLine, Holding
    <2>3. Sound(u, {})
      BY <2>2
    <2> QED BY <1>4, <1>6, <1>9, <2>3
  <1> QED BY <1>8, <1>9

\* What is published next is nobody's past.
LEMMA PublishKeeps ==
    ASSUME NEW t, NEW X, Sound(t, X), NEW gen \in Nat, gen <= t.ctl.gen,
           \A x \in Tasks : Stage(t, x) \in Writing => gen <= Gen(t, x)
    PROVE  LET u == [t EXCEPT !.ctl.published = gen]
           IN /\ Sound(u, X) /\ u.ctl = [t.ctl EXCEPT !.published = gen]
              /\ u.run = t.run /\ u.clear = t.clear /\ u.io = t.io /\ u.job = t.job
              /\ u.results = t.results /\ u.feed = t.feed /\ u.undo = t.undo
              /\ u.store = t.store /\ u.bind = t.bind /\ u.left = t.left
  <1> DEFINE c == [t.ctl EXCEPT !.published = gen]
             u == [t EXCEPT !.ctl = c]
  <1>1. t \in States /\ t.ctl \in Controls /\ t.ctl.gen \in Nat
    BY StateTypes DEF Sound
  <1>2. [t EXCEPT !.ctl.published = gen] = u
    OBVIOUS
  <1>3. /\ c \in Controls /\ c.own = t.ctl.own /\ c.gen = t.ctl.gen /\ c.published = gen
        /\ c.pending = t.ctl.pending /\ c.accepted = t.ctl.accepted
    BY <1>1 DEF Controls
  <1>4. /\ u.ctl = c /\ u.run = t.run /\ u.clear = t.clear /\ u.io = t.io /\ u.job = t.job
        /\ u.results = t.results /\ u.feed = t.feed /\ u.undo = t.undo
        /\ u.store = t.store /\ u.bind = t.bind /\ u.left = t.left
    <2> HIDE DEF c
    <2> QED BY <1>1 DEF States
  <1>5. Sound(u, X)
    <2> HIDE DEF c
    <2>1. Fresh(t, c.own) /\ Fresh(t, c.accepted.own)
      BY <1>3 DEF Sound, Belongs
    <2>2. c.published <= c.gen /\ t.ctl.gen <= c.gen
      BY <1>1, <1>3
    <2> QED BY <1>3, <2>1, <2>2, CtlChanges
  <1> HIDE DEF u
  <1> QED BY <1>2, <1>4, <1>5

----------------------------------------------------------------------------
(* The session *)

\* Nobody is an owner, and is of every page.
LEMMA SmallOwners == None \in Owners /\ 0 \in Nat /\ 1 \in Nat /\ \A t : Fresh(t, None)
  BY DispatcherAssumption DEF Owners, None, Fresh

\* What is installed or active is a binding.
LEMMA BindingIsOwner ==
    ASSUME NEW t \in States
    PROVE  /\ t.bind.act # None => t.bind.act \in Bindings
           /\ t.bind.cur # None => t.bind.cur \in Bindings
           /\ \A j \in Jobs : t.job[j].b # None => t.job[j].b \in Bindings
  <1>1. ASSUME NEW b \in Owners, b # None PROVE b \in Bindings
    BY <1>1, DispatcherAssumption DEF Owners, Bindings, None
  <1> QED BY <1>1, StateTypes

\* The frame of a job is its binding's.
LEMMA JobFrameIsFrame ==
    ASSUME NEW j \in Jobs, NEW r \in JobStates
    PROVE  JobFrame(r, j) \in Frames /\ FrameOf(JobFrame(r, j), r.b)
  <1>1. r.b \in Owners /\ r.ov \in Int
    BY DEF JobStates
  <1>2. Base(j) \in Bases
    BY DEF Base, Bases, None
  <1> QED BY <1>1, <1>2, FrameIsFrame DEF JobFrame

\* The acceptance of a base keeps Sound and publishes nothing.
LEMMA AcceptKeeps ==
    ASSUME NEW t, Sound(t, {}), NEW j \in Jobs, t.job[j].ph \notin {"new", "end"}
    PROVE  LET u == Accept(t, j)
           IN /\ Sound(u, {}) /\ u.ctl.published = t.ctl.published /\ u.job = t.job
              /\ u.bind = t.bind /\ u.left = t.left
  <1> DEFINE b == t.job[j].b
             f == JobFrame(t.job[j], j)
             gen2 == t.ctl.gen + 1
             c == [t.ctl EXCEPT !.accepted = f, !.provisional = FALSE, !.gen = gen2,
                                !.pending = NoRequest]
             z == [t.store EXCEPT ![b].base = Base(j)]
             t1 == [t EXCEPT !.ctl = c]
             u == [t1 EXCEPT !.store = z]
  <1>1. t \in States /\ t.ctl \in Controls /\ t.ctl.gen \in Nat /\ t.job[j] \in JobStates
        /\ t.store \in [Bindings -> [base : Bases, ov : Int]]
    BY StateTypes DEF Sound, States
  <1>2. CASE ~BaseIsCurrent(t, j)
    BY <1>2 DEF Accept
  <1>3. CASE BaseIsCurrent(t, j)
    <2>1. b \in Bindings /\ b \in Owners /\ t.ctl.own = b /\ Fresh(t, b)
      <3>1. b # None
        BY DEF Sound, Told, Honest
      <3>2. t.ctl.own = b
        BY <1>3 DEF BaseIsCurrent
      <3>3. b \in Bindings /\ b \in Owners
        BY <1>1, <3>1, BindingIsOwner, StateTypes
      <3> QED BY <3>2, <3>3 DEF Sound, Belongs
    <2>2. f \in Frames /\ Fresh(t, f.own)
      <3>1. f \in Frames /\ FrameOf(f, b)
        BY <1>1, JobFrameIsFrame
      <3> HIDE DEF f
      <3> QED BY <2>1, <3>1 DEF FrameOf, Fresh
    <2>3. z \in [Bindings -> [base : Bases, ov : Int]]
      <3>1. Base(j) \in Bases
        BY DEF Base, Bases, None
      <3> HIDE DEF b
      <3> QED BY <1>1, <3>1, <2>1
    <2>4. u = [t EXCEPT !.ctl = [t.ctl EXCEPT
                            !.accepted = f, !.provisional = FALSE, !.gen = @ + 1,
                            !.pending = NoRequest],
                       !.store[b].base = Base(j)]
      <3>1. c = [t.ctl EXCEPT !.accepted = f, !.provisional = FALSE, !.gen = @ + 1,
                              !.pending = NoRequest]
        <4> HIDE DEF f
        <4> QED BY <1>1 DEF Controls
      <3> HIDE DEF c, f, b
      <3> QED BY <1>1, <3>1 DEF States
    <2>5. Accept(t, j) = IF t.ctl.gen # t.job[j].rev THEN Render(u, b, FALSE) ELSE u
      <3> HIDE DEF u, z
      <3> QED BY <1>3, <2>4 DEF Accept
    <2>6. gen2 \in Nat /\ t.ctl.gen < gen2 /\ t.ctl.gen # gen2
      BY <1>1
    <2> HIDE DEF f, z, gen2
    <2>7. /\ c \in Controls /\ c.own = t.ctl.own /\ c.gen = gen2 /\ c.accepted = f
          /\ c.published = t.ctl.published /\ c.pending = NoRequest
      BY <1>1, <2>2, <2>6, NoRequestIsRequest DEF Controls
    <2> HIDE DEF c
    <2>8. Sound(t1, {})
      <3>1. Fresh(t, c.own) /\ Fresh(t, c.accepted.own)
        BY <2>1, <2>2, <2>7
      <3>2. c.published <= c.gen /\ t.ctl.gen <= c.gen
            /\ \A x \in Tasks : Stage(t, x) \in Writing => c.published <= Gen(t, x)
        BY <1>1, <2>6, <2>7, StateTypes DEF Sound, Ordered
      <3> QED BY <2>6, <2>7, <3>1, <3>2, CtlChanges
    <2>9. /\ u.ctl = c /\ u.job = t.job /\ u.bind = t.bind /\ u.left = t.left
      BY <1>1 DEF States
    <2>10. Sound(u, {})
      <3> HIDE DEF t1
      <3> QED BY <2>3, <2>8, StoreChanges
    <2> HIDE DEF u, b
    <2>11. CASE t.ctl.gen = t.job[j].rev
      BY <2>5, <2>7, <2>9, <2>10, <2>11
    <2>12. CASE t.ctl.gen # t.job[j].rev
      <3>1. Fresh(u, b)
        BY <2>1, <2>9 DEF Fresh
      <3>2. Sound(Render(u, b, FALSE), {}) /\ Requested(u, Render(u, b, FALSE))
        <4>1. FALSE \in BOOLEAN
          OBVIOUS
        <4> QED BY <2>1, <2>10, <3>1, <4>1, RenderKeeps, Zenon
      <3> QED BY <2>5, <2>7, <2>9, <2>12, <3>2 DEF Requested
    <2> QED BY <2>11, <2>12
  <1> QED BY <1>2, <1>3

\* A card is nobody's.
LEMMA CardKeeps ==
    ASSUME NEW t, Sound(t, {})
    PROVE  LET u == Card(t) IN Sound(u, {}) /\ Requested(t, u) /\ u.clear = t.clear
  <1>1. Status \in Frames /\ FrameOf(Status, None)
    <2>1. None \in Bases /\ -2 \in Int
      BY DEF Bases, None
    <2> QED BY <2>1, SmallOwners, FrameIsFrame DEF Status
  <1> QED BY <1>1, SmallOwners, SubmitKeeps DEF Card

\* What a revocation leaves alone.
LEMMA RevokeKeeps ==
    ASSUME NEW t, Sound(t, {}), NEW clearOutput \in BOOLEAN
    PROVE  LET u == Revoke(t, clearOutput)
           IN /\ Sound(u, {}) /\ u.ctl.published = t.ctl.published /\ u.left = t.left
              /\ u.bind.cur = None /\ u.bind.act = None /\ u.bind.last = t.bind.last
              /\ u.bind.wiped = t.bind.wiped
  <1> DEFINE b == t.bind.cur
             js == {j \in Jobs : t.job[j].ph # "new" /\ t.job[j].b = b}
             v == FinishAll(t, js, "superseded")
             e == [v.bind EXCEPT !.cur = None, !.act = None]
             z == [v.store EXCEPT ![b] = [base |-> None, ov |-> None]]
             w == [v EXCEPT !.bind = e, !.left = v.left]
             w2 == [w EXCEPT !.store = z]
             u == ClearControl(w2, None, clearOutput, 1)
  <1>1. CASE b = None
    <2>1. Revoke(t, clearOutput) = t
      BY <1>1 DEF Revoke
    <2> QED BY <1>1, <2>1 DEF Sound, Belongs
  <1>2. CASE b # None
    <2>1. Sound(v, {}) /\ Ended(t, v)
      <3>1. js \in SUBSET Jobs /\ (\A j \in js : t.job[j].ph # "new") /\ "superseded" \in Ends
        BY DEF Ends
      <3> HIDE DEF js
      <3> QED BY <3>1, FinishAllKeeps
    <2> HIDE DEF v
    <2>2. /\ v \in States
          /\ v.bind \in [last : Owners, cur : Owners, act : Owners, wiped : Owners,
                         agreed : BOOLEAN]
          /\ v.left \in Budget /\ v.store \in [Bindings -> [base : Bases, ov : Int]]
      BY <2>1 DEF Sound, States
    <2>3. Revoke(t, clearOutput) = u
      <3>1. [v EXCEPT !.bind.cur = None, !.bind.act = None,
                      !.store[b] = [base |-> None, ov |-> None]] = w2
        <4> HIDE DEF b
        <4> QED BY <2>2 DEF States
      <3>2. Revoke(t, clearOutput) =
              ClearControl([v EXCEPT !.bind.cur = None, !.bind.act = None,
                                     !.store[b] = [base |-> None, ov |-> None]],
                           None, clearOutput, 1)
        BY <1>2 DEF Revoke, v
      <3> HIDE DEF w2
      <3> QED BY <3>1, <3>2
    <2>4. /\ e \in [last : Owners, cur : Owners, act : Owners, wiped : Owners, agreed : BOOLEAN]
          /\ e.cur = None /\ e.act = None /\ e.last = v.bind.last /\ e.wiped = v.bind.wiped
      BY <2>2, SmallOwners
    <2>5. z \in [Bindings -> [base : Bases, ov : Int]]
      <3>1. None \in Bases /\ None \in Int
        BY DEF Bases, None
      <3> HIDE DEF b
      <3> QED BY <2>2, <3>1
    <2> HIDE DEF e, z
    <2>6. Sound(w, {})
      <3>1. /\ e.act \in {None, e.cur} /\ e.wiped <= e.last /\ e.cur <= e.last
            /\ e.last + v.left.bindings <= MaxBindings
            /\ e.wiped = v.bind.wiped
        BY <2>1, <2>2, <2>4, StateTypes DEF Sound, Belongs, Owners, None
      <3>2. \A o \in {e.cur, v.ctl.own, v.ctl.accepted.own} : o = None \/ o > e.wiped
        BY <2>1, <2>4 DEF Sound, Belongs, Fresh
      <3> QED BY ZenonT(60), <2>1, <2>2, <2>4, <3>1, <3>2, BindingsChange
    <2>7. w2.bind = e /\ w2.left = v.left /\ w2.ctl = v.ctl
      BY <2>2 DEF States
    <2>8. Sound(w2, {})
      <3> HIDE DEF w
      <3> QED BY <2>5, <2>6, StoreChanges
    <2> HIDE DEF w2
    <2>9. Sound(u, {}) /\ Requested(w2, u)
      BY <2>8, SmallOwners, ClearControlKeeps
    <2> HIDE DEF u
    <2> QED BY <2>1, <2>3, <2>4, <2>7, <2>9 DEF Requested, Ended
  <1> QED BY <1>1, <1>2


\* One of the transitions of the session is over.
LEMMA TurnKeeps ==
    ASSUME NEW t, Sound(t, {}), t.left.turns > 0
    PROVE  LET u == [t EXCEPT !.left.turns = @ - 1]
           IN Sound(u, {}) /\ u.ctl = t.ctl /\ u.bind = t.bind
  <1> DEFINE turns2 == t.left.turns - 1
             l == [t.left EXCEPT !.turns = turns2]
             u == [t EXCEPT !.bind = t.bind, !.left = l]
  <1>1. /\ t \in States /\ t.left \in Budget /\ t.ctl.gen \in Nat
        /\ t.bind \in [last : Owners, cur : Owners, act : Owners, wiped : Owners,
                       agreed : BOOLEAN]
    BY DEF Sound, States, Controls
  <1>2. turns2 \in Nat
    BY <1>1 DEF Budget
  <1>3. [t EXCEPT !.left.turns = @ - 1] = u
    BY <1>1 DEF States
  <1> HIDE DEF turns2
  <1>4. l \in Budget /\ l.bindings = t.left.bindings
    BY <1>1, <1>2 DEF Budget
  <1> HIDE DEF l
  <1>5. Sound(u, {})
    <2>1. /\ t.bind.act \in {None, t.bind.cur} /\ t.bind.wiped <= t.bind.last
          /\ t.bind.cur <= t.bind.last /\ t.bind.last + l.bindings <= MaxBindings
      BY <1>4 DEF Sound, Belongs
    <2>2. \A o \in {t.bind.cur, t.ctl.own, t.ctl.accepted.own} : o = None \/ o > t.bind.wiped
      BY DEF Sound, Belongs, Fresh
    <2> QED BY ZenonT(60), <1>1, <1>4, <2>1, <2>2, BindingsChange
  <1>6. u.ctl = t.ctl /\ u.bind = t.bind
    BY <1>1 DEF States
  <1> HIDE DEF u
  <1> QED BY <1>3, <1>5, <1>6

\* A new binding is behind a card, on a control that nobody has.
LEMMA InstallKeeps ==
    ASSUME NEW t, Sound(t, {}), t.bind.act = None, t.left.bindings > 0
    PROVE  LET u == Install(t)
           IN /\ Sound(u, {}) /\ u.ctl.published = t.ctl.published
              /\ u.left.turns = t.left.turns
  <1> DEFINE n == t.bind.last + 1
             rest == t.left.bindings - 1
             e == [t.bind EXCEPT !.last = n, !.cur = n, !.agreed = TRUE]
             l == [t.left EXCEPT !.bindings = rest]
             v == [t EXCEPT !.bind = e, !.left = l]
  <1>1. /\ t \in States /\ t.left \in Budget /\ t.ctl.gen \in Nat
        /\ t.bind \in [last : Owners, cur : Owners, act : Owners, wiped : Owners,
                       agreed : BOOLEAN]
    BY DEF Sound, States, Controls
  <1>2. /\ n \in Owners /\ rest \in 0..MaxBindings
        /\ t.bind.wiped < n /\ n + rest <= MaxBindings /\ t.bind.wiped <= n
    <2>1. t.bind.last + t.left.bindings <= MaxBindings /\ t.bind.wiped <= t.bind.last
      BY DEF Sound, Belongs
    <2>2. t.left.bindings \in 0..MaxBindings /\ t.bind.last \in 0..MaxBindings
          /\ t.bind.wiped \in 0..MaxBindings /\ MaxBindings \in Nat
      BY <1>1, DispatcherAssumption DEF Owners, Budget
    <2> QED BY <2>1, <2>2 DEF Owners
  <1>3. Install(t) = Card(v)
    BY <1>1 DEF Install, States
  <1> HIDE DEF n, rest
  <1>4. /\ e \in [last : Owners, cur : Owners, act : Owners, wiped : Owners, agreed : BOOLEAN]
        /\ e.last = n /\ e.cur = n /\ e.act = None /\ e.wiped = t.bind.wiped
    BY <1>1, <1>2
  <1>5. l \in Budget /\ l.bindings = rest /\ l.turns = t.left.turns
    BY <1>1, <1>2 DEF Budget
  <1>6. v.ctl = t.ctl /\ v.left = l
    BY <1>1 DEF States
  <1> HIDE DEF e, l
  <1>7. Sound(v, {})
    <2>1. \A o \in {e.cur, t.ctl.own, t.ctl.accepted.own} : o = None \/ o > e.wiped
      BY <1>2, <1>4, StateTypes DEF Sound, Belongs, Fresh, Owners
    <2>2. e.act \in {None, e.cur} /\ e.wiped <= e.last /\ e.cur <= e.last
      BY <1>2, <1>4 DEF Owners
    <2> QED BY ZenonT(60), <1>2, <1>4, <1>5, <2>1, <2>2, BindingsChange
  <1> HIDE DEF v
  <1>8. Sound(Card(v), {}) /\ Requested(v, Card(v))
    BY <1>7, CardKeeps
  <1> QED BY <1>3, <1>5, <1>6, <1>8 DEF Requested

----------------------------------------------------------------------------
(* Admission *)

\* A message that is not a job yet is not in line, and nobody was told about it.
LEMMA NewIsUntold ==
    ASSUME NEW t, Sound(t, {}), NEW j \in Jobs, t.job[j].ph = "new"
    PROVE  /\ <<"job", j>> \notin ToSet(t.io) /\ <<"feed", j>> \notin ToSet(t.io)
           /\ t.results[j] = <<>> /\ t.undo[j].ph = "off" /\ t.feed[j].ph = "off"
           /\ t.job[j].command = "none"
  <1>1. Honest(j, t.job[j], t.results[j], t.feed[j], t.undo[j].ph)
    BY DEF Sound, Told
  <1>2. /\ t.results[j] = <<>> /\ t.undo[j].ph = "off" /\ t.feed[j].ph = "off"
        /\ t.job[j].command = "none"
    BY <1>1 DEF Honest
  <1>3. Stage(t, <<"job", j>>) = "new" /\ Stage(t, <<"feed", j>>) = "off"
        /\ <<"job", j>> \in Tasks /\ <<"feed", j>> \in Tasks
    BY <1>2, TaskViews
  <1> QED BY <1>2, <1>3 DEF Sound, Line, InLine

\* A message that is refused is told so, and has no job.
LEMMA RefuseKeeps ==
    ASSUME NEW t, Sound(t, {}), NEW j \in Jobs, t.job[j].ph = "new"
    PROVE  LET u == Refuse(t, j) IN Sound(u, {}) /\ u.ctl = t.ctl
  <1> DEFINE x == <<"job", j>>
             r == [t.job[j] EXCEPT !.ph = "end", !.done = TRUE]
             q == IF j \in DirectJobs THEN t.results[j] ELSE <<"rejected">>
             u == [t EXCEPT !.job[j] = r, !.results[j] = q]
  <1>1. /\ t \in States /\ t.job[j] \in JobStates /\ t.results \in [Jobs -> Seq(Replies)]
    BY StateTypes DEF Sound, States
  <1>2. Refuse(t, j) = u
    BY ZenonT(60), <1>1 DEF Refuse, States
  <1>3. /\ r \in JobStates /\ r.ph = "end" /\ r.done = TRUE /\ r.rev = t.job[j].rev
        /\ r.command = "none"
    BY <1>1, NewIsUntold DEF JobStates
  <1>4. /\ q \in Seq(Replies)
        /\ j \in DirectJobs => q = <<>>
        /\ j \notin DirectJobs => q = <<"rejected">>
    <2>1. "rejected" \in Replies
      BY DEF Replies
    <2>2. <<"rejected">> \in Seq(Replies) /\ t.results[j] \in Seq(Replies)
      BY <1>1, <2>1
    <2>3. t.results[j] = <<>>
      BY NewIsUntold
    <2> QED BY <2>2, <2>3
  <1> HIDE DEF r, q
  <1>5. Honest(j, r, q, t.feed[j], t.undo[j].ph)
    BY <1>3, <1>4, NewIsUntold DEF Honest
  <1>6. r.rev <= t.ctl.gen /\ r.ph \notin Writing
    BY <1>3, SoundTasks DEF Writing
  <1>7. Sound(u, {} \union {x})
    BY ZenonT(60), <1>3, <1>4, <1>5, <1>6, JobChanges
  <1>8. u.ctl = t.ctl /\ u.io = t.io /\ u.job[j].ph = "end"
    BY <1>1, <1>3 DEF States
  <1> HIDE DEF u
  <1>9. Stage(u, x) = "end"
    BY <1>8, TaskViews
  <1>10. Sound(u, {} \ {x})
    BY <1>7, <1>8, <1>9, NewIsUntold, Arrives DEF InLine, Holding
  <1> QED BY <1>2, <1>8, <1>10

\* A message that is admitted gets its job, and the jobs it supersedes end.
LEMMA AdmitKeeps ==
    ASSUME Sound(State, {}), NEW j \in Jobs, job[j].ph = "new", bind.act # None
    PROVE  LET u == Admit(State, j) IN Sound(u, {}) /\ u.ctl.published = ctl.published
  <1> DEFINE t == State
             b == bind.act
             v == Claim(t, b, 1)
             js == Running(t)
             w == FinishAll(v, js, "superseded")
             r == [NewJob EXCEPT !.ph = "content", !.b = b, !.ticket = v.ctl.base]
             f == [ph |-> "timer", gen |-> 0, own |-> b]
             q == w.results[j]
             x == <<"job", j>>
             y == <<"feed", j>>
             w2 == [w EXCEPT !.job[j] = r, !.results[j] = q]
             w3 == [w2 EXCEPT !.feed[j] = f]
  <1>1. /\ t.ctl = ctl /\ t.job = job /\ t.bind = bind
    BY DEF State
  <1>2. CASE Cardinality(Running(t)) >= MaxActive
    <2>1. Admit(t, j) = Refuse(t, j)
      BY <1>2 DEF Admit
    <2> HIDE DEF t
    <2> QED BY <1>1, <2>1, RefuseKeeps DEF t
  <1>3. CASE ~(Cardinality(Running(t)) >= MaxActive)
    <2>1. Admit(t, j) = [w EXCEPT !.job[j] = r,
                                  !.feed[j] = IF j \in DirectJobs \union ClearJobs \/ j \notin left.slow
                                              THEN @ ELSE f]
      BY <1>3 DEF Admit
    <2>2. js \in SUBSET Jobs /\ \A i \in js : t.job[i].ph # "new"
      BY DEF Running
    <2> HIDE DEF t, js
    <2>3. /\ b \in Bindings /\ b \in Owners /\ Fresh(t, b)
      <3>1. t \in States /\ b \in Bindings /\ b \in Owners
        BY <1>1, BindingIsOwner, StateTypes DEF Sound, t
      <3>2. Fresh(t, b)
        BY <1>1 DEF Sound, Belongs, t
      <3> QED BY <3>1, <3>2
    <2> HIDE DEF b
    <2>4. Sound(v, {}) /\ Requested(t, v) /\ v.ctl.base \in Nat
      <3>1. Sound(v, {}) /\ Requested(t, v)
        BY <2>3, SmallOwners, ClaimKeeps DEF t
      <3> HIDE DEF v
      <3> QED BY <3>1, StateTypes DEF Sound, Controls
    <2> HIDE DEF v
    <2>5. Sound(w, {}) /\ Ended(v, w)
      <3>1. "superseded" \in Ends /\ \A i \in js : v.job[i].ph # "new"
        BY <2>2, <2>4 DEF Ends, Requested
      <3> QED BY <2>2, <2>4, <3>1, FinishAllKeeps
    <2> HIDE DEF w
    <2>6. /\ w \in States /\ w.job[j].ph = "new" /\ w.ctl = v.ctl
          /\ w.ctl.gen \in Nat /\ w.ctl.gen # 0 /\ w.ctl.published = ctl.published
      <3>1. t.ctl.gen \in Nat
        BY StateTypes DEF Sound, t
      <3>2. w.ctl.gen = t.ctl.gen + 1 /\ w.ctl.published = t.ctl.published
        BY <2>4, <2>5 DEF Requested, Ended
      <3>3. t.job[j].ph = "new"
        BY <1>1
      <3> QED BY <1>1, <2>4, <2>5, <3>1, <3>2, <3>3 DEF Requested, Ended, Sound
    <2>7. q = <<>> /\ q \in Seq(Replies) /\ w.undo[j].ph = "off" /\ w.feed[j].ph = "off"
          /\ x \notin ToSet(w.io) /\ y \notin ToSet(w.io)
      <3>1. q \in Seq(Replies)
        BY <2>6 DEF States
      <3> QED BY <2>5, <2>6, <3>1, NewIsUntold
    <2>8. /\ r \in JobStates /\ r.ph = "content" /\ r.b = b /\ r.rev = 0 /\ r.done = FALSE
          /\ r.command = "none"
      <3>1. NewJob \in JobStates
        BY SmallOwners DEF NewJob, JobStates, None
      <3> QED BY <2>3, <2>4, <3>1 DEF NewJob, JobStates
    <2>9. r.b # None
      BY <2>8 DEF b
    <2>10. w.results = [w.results EXCEPT ![j] = q]
      BY <2>6 DEF States
    <2> HIDE DEF r, q
    <2>11. Sound(w2, {} \union {x})
      <3>1. Honest(j, r, q, w.feed[j], w.undo[j].ph)
        BY <2>7, <2>8, <2>9 DEF Honest
      <3>2. r.rev <= w.ctl.gen /\ r.ph \notin Writing
        BY <2>6, <2>8 DEF Writing
      <3> QED BY ZenonT(60), <2>5, <2>7, <2>8, <3>1, <3>2, JobChanges
    <2>12. /\ w2 = [w EXCEPT !.job[j] = r]
           /\ w2.ctl = w.ctl /\ w2.io = w.io /\ w2.job[j] = r /\ w2.feed = w.feed
      BY ZenonT(60), <2>6, <2>10 DEF States
    <2> HIDE DEF w2
    <2>13. Sound(w2, {})
      <3>1. Stage(w2, x) = "content"
        <4>1. w2.job[j].ph = "content"
          BY <2>8, <2>12
        <4> QED BY <4>1, TaskViews
      <3>2. Sound(w2, {} \ {x})
        BY <2>7, <2>11, <2>12, <3>1, Arrives DEF InLine, Holding
      <3> QED BY <3>2
    <2>14. /\ f \in FeedStates /\ f.ph = "timer" /\ f.gen = 0 /\ f.own = b
      BY <2>3 DEF FeedStates
    <2> HIDE DEF f
    <2>15. CASE j \in DirectJobs \union ClearJobs \/ j \notin left.slow
      <3>1. Admit(t, j) = w2
        <4>1. Admit(t, j) = [w EXCEPT !.job[j] = r, !.feed[j] = @]
          BY <2>1, <2>15 DEF t
        <4>2. [w EXCEPT !.job[j] = r, !.feed[j] = @] = [w EXCEPT !.job[j] = r]
          BY <2>6 DEF States
        <4> QED BY <4>1, <4>2, <2>12
      <3> QED BY <2>6, <2>12, <2>13, <3>1 DEF t
    <2>16. CASE ~(j \in DirectJobs \union ClearJobs \/ j \notin left.slow)
      <3>1. Admit(t, j) = w3
        <4>1. Admit(t, j) = [w EXCEPT !.job[j] = r, !.feed[j] = f]
          BY <2>1, <2>16 DEF t
        <4>2. [w EXCEPT !.job[j] = r, !.feed[j] = f] = w3
          BY <2>6, <2>12 DEF States
        <4> QED BY <4>1, <4>2
      <3>2. Sound(w3, {} \union {y})
        <4>1. f.gen <= w2.ctl.gen /\ OfOwner(w2, f.gen, f.own)
          BY <2>6, <2>12, <2>14 DEF OfOwner
        <4>2. w2.job[j].ph # "new" /\ f.own = w2.job[j].b /\ j \in Feeds
          BY <2>8, <2>12, <2>14
        <4> QED BY <2>13, <2>14, <4>1, <4>2, FeedChanges
      <3>3. w3.ctl = w.ctl /\ w3.io = w.io /\ w3.feed[j] = f
        BY <2>12, <2>13 DEF Sound, States
      <3> HIDE DEF w3
      <3>4. Stage(w3, y) = "timer"
        BY <2>14, <3>3, TaskViews
      <3>5. Sound(w3, {} \ {y})
        BY <2>7, <3>2, <3>3, <3>4, Arrives DEF InLine, Holding
      <3> QED BY <2>6, <3>1, <3>3, <3>5 DEF t
    <2> QED BY <2>15, <2>16
  <1> QED BY <1>2, <1>3

----------------------------------------------------------------------------
(* The actions *)

\* What every step keeps, and what it may do to the output.
Keeps ==
    /\ Inv'
    /\ ctl'.published >= ctl.published
    /\ shown' # shown /\ shown'.own # None =>
          shown'.own > bind'.wiped \/ clear.ph # "idle"

\* The fields of the state are the variables.
LEMMA StateFields ==
    /\ State.ctl = ctl /\ State.io = io /\ State.run = run /\ State.clear = clear
    /\ State.job = job /\ State.results = results /\ State.feed = feed /\ State.undo = undo
    /\ State.store = store /\ State.bind = bind /\ State.left = left
  BY DEF State

\* A step to a sound state that publishes in order and shows no old pixels keeps the
\* invariant.
LEMMA BecomesKeeps ==
    ASSUME NEW STATE u, Sound(u, {}), Becomes(u), lost' \subseteq Mishaps,
           u.ctl.published >= ctl.published,
           \/ shown' = shown
           \/ shown'.own = None \/ shown'.own > u.bind.wiped
           \/ clear.ph # "idle"
    PROVE  Keeps
  <1>1. u \in States
    BY DEF Sound
  <1>2. State' = u
    BY <1>1 DEF State, Becomes, States
  <1>3. Sound(State', {})
    BY <1>2
  <1>4. Inv'
    BY <1>3 DEF Inv
  <1> QED BY <1>4 DEF Keeps, Becomes

\* A step that leaves the hardware alone.
LEMMA QuietKeeps ==
    ASSUME Inv, NEW STATE u, Sound(u, {}), Becomes(u), Untouched,
           u.ctl.published = ctl.published
    PROVE  Keeps
  <1>1. lost' \subseteq Mishaps /\ shown' = shown
    BY DEF Inv, Untouched
  <1>2. ctl.published \in Nat
    BY StateFields, StateTypes DEF Inv, Sound
  <1> QED BY <1>1, <1>2, BecomesKeeps

\* What the session knows of the control.
LEMMA SessionFacts ==
    ASSUME Inv
    PROVE  /\ Sound(State, {}) /\ State \in States /\ ctl.gen \in Nat /\ ctl.published \in Nat
           /\ bind.act # None => bind.act \in Bindings /\ bind.act \in Owners /\ Fresh(State, bind.act)
           /\ bind.cur # None => bind.cur \in Bindings
           /\ bind.cur \in Owners /\ Fresh(State, bind.cur) /\ bind.act \in {None, bind.cur}
  <1>1. Sound(State, {}) /\ State \in States /\ ctl.gen \in Nat /\ ctl.published \in Nat
    BY StateFields, StateTypes DEF Inv, Sound
  <1>2. bind.act \in Owners /\ bind.cur \in Owners
    BY <1>1, StateFields, StateTypes
  <1>3. Fresh(State, bind.cur) /\ bind.act \in {None, bind.cur}
    BY <1>1, StateFields DEF Sound, Belongs
  <1>4. /\ bind.act # None => bind.act \in Bindings
        /\ bind.cur # None => bind.cur \in Bindings
    BY <1>1, StateFields, BindingIsOwner
  <1> QED BY <1>1, <1>2, <1>3, <1>4

\* A turn of the session that leaves the hardware alone keeps the invariant.
LEMMA TurnedKeeps ==
    ASSUME Inv, NEW STATE t, Sound(t, {}), t.ctl.published = ctl.published,
           t.left.turns = left.turns, Turned(t), Untouched
    PROVE  Keeps
  <1> DEFINE u == [t EXCEPT !.left.turns = @ - 1]
  <1>1. left.turns > 0 /\ Becomes(u)
    BY DEF Turned
  <1>2. Sound(u, {}) /\ u.ctl = t.ctl
    BY <1>1, TurnKeeps
  <1> HIDE DEF u
  <1> QED BY <1>1, <1>2, QuietKeeps

\* A page that turns retires its binding and gives the control to nobody, with a clear.
LEMMA PageTurnsKeeps == ASSUME Inv, PageTurns PROVE Keeps
  <1> DEFINE t == State
             v == Revoke(t, TRUE)
             empty == ClearControl(v, None, TRUE, 1)
             cleared == [empty EXCEPT !.bind.wiped = bind.last]
             e == [empty.bind EXCEPT !.wiped = bind.last]
             w == [empty EXCEPT !.bind = e, !.left = empty.left]
  <1>1. Sound(t, {}) /\ t.bind = bind /\ t.left = left /\ t.ctl = ctl
    BY SessionFacts, StateFields
  <1>2. TRUE \in BOOLEAN
    OBVIOUS
  <1>3. /\ Untouched
        /\ \/ Turned(cleared)
           \/ Turned(Card(cleared))
           \/ left.bindings > 0 /\ Turned(Install(cleared))
    BY DEF PageTurns
  <1> HIDE DEF t
  <1>4. /\ Sound(v, {}) /\ v.ctl.published = t.ctl.published /\ v.left = t.left
        /\ v.bind.cur = None /\ v.bind.act = None /\ v.bind.last = t.bind.last
        /\ v.bind.wiped = t.bind.wiped
    BY <1>1, <1>2, RevokeKeeps, Zenon
  <1> HIDE DEF v
  <1>5. /\ Sound(empty, {}) /\ Requested(v, empty) /\ empty.ctl.own = None
        /\ empty.ctl.accepted = Blank /\ empty.clear.ph # "idle"
    <2>1. Fresh(v, None) /\ None \in Owners /\ 1 \in Nat
      BY SmallOwners
    <2> QED BY <1>2, <1>4, <2>1, ClearControlKeeps, Zenon
  <1> HIDE DEF empty
  <1>6. /\ empty.bind = v.bind /\ empty.left = left /\ empty.ctl.published = ctl.published
        /\ empty.bind.cur = None /\ empty.bind.act = None /\ empty.bind.last = bind.last
    BY <1>1, <1>4, <1>5 DEF Requested
  <1>7. /\ empty \in States /\ empty.left \in Budget
        /\ empty.bind \in [last : Owners, cur : Owners, act : Owners, wiped : Owners,
                           agreed : BOOLEAN]
    BY <1>5 DEF Sound, States
  <1>8. cleared = w
    BY <1>7 DEF States
  <1>9. /\ e \in [last : Owners, cur : Owners, act : Owners, wiped : Owners, agreed : BOOLEAN]
        /\ e.cur = None /\ e.act = None /\ e.last = bind.last /\ e.wiped = bind.last
    BY <1>6, <1>7
  <1>10. w.bind = e /\ w.left = left /\ w.ctl = empty.ctl
    BY <1>6, <1>7 DEF States
  <1> HIDE DEF e
  <1>11. Sound(w, {})
    <2>1. bind.last \in Nat /\ e.last + empty.left.bindings <= MaxBindings
      BY <1>5, <1>6, <1>7, <1>9 DEF Sound, Belongs, Owners
    <2>2. e.act \in {None, e.cur} /\ e.wiped <= e.last /\ e.cur <= e.last
      BY <1>9, <2>1 DEF None
    <2>3. \A o \in {e.cur, empty.ctl.own, empty.ctl.accepted.own} : o = None \/ o > e.wiped
      BY <1>5, <1>9, BlankIsFrame
    <2> QED BY ZenonT(60), <1>5, <1>7, <1>9, <2>1, <2>2, <2>3, BindingsChange
  <1> HIDE DEF w
  <1>12. CASE Turned(w)
    BY <1>3, <1>6, <1>10, <1>11, <1>12, TurnedKeeps
  <1>13. CASE Turned(Card(w))
    <2>1. Sound(Card(w), {}) /\ Requested(w, Card(w))
      BY <1>11, CardKeeps
    <2> QED BY <1>3, <1>6, <1>10, <1>13, <2>1, TurnedKeeps DEF Requested
  <1>14. CASE left.bindings > 0 /\ Turned(Install(w))
    <2>1. /\ Sound(Install(w), {}) /\ Install(w).ctl.published = w.ctl.published
          /\ Install(w).left.turns = w.left.turns
      BY <1>9, <1>10, <1>11, <1>14, InstallKeeps
    <2> QED BY <1>3, <1>6, <1>10, <1>14, <2>1, TurnedKeeps
  <1> QED BY <1>3, <1>8, <1>12, <1>13, <1>14

\* A binding replaced by another of its page gives the control on, with no clear.
LEMMA ReplacedKeeps == ASSUME Inv, Replaced PROVE Keeps
  <1> DEFINE t == State
             v == Revoke(t, FALSE)
  <1>1. Sound(t, {}) /\ t.left = left /\ t.ctl = ctl
    BY SessionFacts, StateFields
  <1>2. FALSE \in BOOLEAN
    OBVIOUS
  <1>3. /\ Untouched
        /\ \/ Turned(Card(v))
           \/ left.bindings > 0 /\ Turned(Install(v))
    BY DEF Replaced
  <1> HIDE DEF t
  <1>4. /\ Sound(v, {}) /\ v.ctl.published = ctl.published /\ v.left = left
        /\ v.bind.act = None
    BY <1>1, <1>2, RevokeKeeps, Zenon
  <1> HIDE DEF v
  <1>5. CASE Turned(Card(v))
    <2>1. Sound(Card(v), {}) /\ Requested(v, Card(v))
      BY <1>4, CardKeeps
    <2> QED BY <1>3, <1>4, <1>5, <2>1, TurnedKeeps DEF Requested
  <1>6. CASE left.bindings > 0 /\ Turned(Install(v))
    <2>1. /\ Sound(Install(v), {}) /\ Install(v).ctl.published = v.ctl.published
          /\ Install(v).left.turns = v.left.turns
      BY <1>4, <1>6, InstallKeeps
    <2> QED BY <1>3, <1>4, <1>6, <2>1, TurnedKeeps
  <1> QED BY <1>3, <1>5, <1>6

\* A binding that attaches gets authority over its own control.
LEMMA AttachKeeps == ASSUME Inv, Attach PROVE Keeps
  <1> DEFINE t == State
             e == [bind EXCEPT !.act = bind.cur]
             v == [t EXCEPT !.bind = e, !.left = left]
             u == Claim(v, bind.cur, 1)
  <1>1. /\ Sound(t, {}) /\ t \in States /\ t.bind = bind /\ t.left = left /\ t.ctl = ctl
    BY SessionFacts, StateFields
  <1>2. Untouched /\ Becomes(u)
    <2>1. [State EXCEPT !.bind.act = bind.cur] = v
      BY StateFields, <1>1 DEF States
    <2> QED BY <2>1 DEF Attach
  <1> HIDE DEF t
  <1>3. /\ bind \in [last : Owners, cur : Owners, act : Owners, wiped : Owners, agreed : BOOLEAN]
        /\ left \in Budget
    BY <1>1 DEF States
  <1>4. /\ e \in [last : Owners, cur : Owners, act : Owners, wiped : Owners, agreed : BOOLEAN]
        /\ e.cur = bind.cur /\ e.act = bind.cur /\ e.last = bind.last /\ e.wiped = bind.wiped
    BY <1>3
  <1>5. v.bind = e /\ v.ctl = ctl
    BY <1>1 DEF States
  <1> HIDE DEF e
  <1>6. Sound(v, {})
    <2>1. /\ e.act \in {None, e.cur} /\ e.wiped <= e.last /\ e.cur <= e.last
          /\ e.last + left.bindings <= MaxBindings
      BY <1>1, <1>4 DEF Sound, Belongs
    <2>2. \A o \in {e.cur, t.ctl.own, t.ctl.accepted.own} : o = None \/ o > e.wiped
      BY <1>1, <1>4 DEF Sound, Belongs, Fresh
    <2> QED BY ZenonT(60), <1>1, <1>3, <1>4, <2>1, <2>2, BindingsChange
  <1> HIDE DEF v
  <1>7. Sound(u, {}) /\ Requested(v, u)
    <2>1. bind.cur \in Owners /\ Fresh(v, bind.cur)
      BY <1>4, <1>5, <1>6, SessionFacts DEF Sound, Belongs
    <2> QED BY <1>6, <2>1, SmallOwners, ClaimKeeps
  <1> HIDE DEF u
  <1> QED BY <1>2, <1>5, <1>7, QuietKeeps DEF Requested

\* A refresh renders the active binding.
LEMMA RefreshKeeps == ASSUME Inv, Refresh PROVE Keeps
  <1> DEFINE u == Render(State, bind.act, FALSE)
  <1>1. bind.act # None /\ Untouched /\ Turned(u)
    BY DEF Refresh
  <1>2. Sound(u, {}) /\ Requested(State, u)
    <2>1. FALSE \in BOOLEAN
      OBVIOUS
    <2> QED BY <1>1, <2>1, SessionFacts, RenderKeeps, Zenon
  <1> HIDE DEF u
  <1> QED BY <1>1, <1>2, StateFields, TurnedKeeps DEF Requested

\* A reactivation claims and renders for the active binding.
LEMMA ReactivateKeeps == ASSUME Inv, Reactivate PROVE Keeps
  <1> DEFINE v == Claim(State, bind.act, 1)
             w == Render(v, bind.act, FALSE)
             u == [w EXCEPT !.left.turns = @ - 1]
  <1>1. /\ bind.act # None /\ left.turns > 0 /\ Becomes(u)
        /\ Shows(shown, lost \union {m \in {"superseded"} : Running(State) # {}})
    BY DEF Reactivate, Turned
  <1>2. Sound(v, {}) /\ Requested(State, v)
    BY <1>1, SessionFacts, SmallOwners, ClaimKeeps
  <1> HIDE DEF v
  <1>3. Sound(w, {}) /\ Requested(v, w)
    <2>1. FALSE \in BOOLEAN /\ Fresh(v, bind.act)
      BY <1>1, <1>2, SessionFacts DEF Requested, Fresh
    <2> QED BY <1>1, <1>2, <2>1, SessionFacts, RenderKeeps, Zenon
  <1> HIDE DEF w
  <1>4. w.ctl.published = ctl.published /\ w.left = left
    BY <1>2, <1>3, StateFields DEF Requested
  <1>5. Sound(u, {}) /\ u.ctl = w.ctl
    BY <1>1, <1>3, <1>4, TurnKeeps
  <1> HIDE DEF u
  <1>6. shown' = shown /\ lost' \subseteq Mishaps /\ ctl.published \in Nat
    BY <1>1, SessionFacts DEF Shows, Inv, Mishaps
  <1> QED BY <1>1, <1>4, <1>5, <1>6, BecomesKeeps

\* An overlay renders for the active binding.
LEMMA ShowOverlayKeeps == ASSUME Inv, ShowOverlay PROVE Keeps
  <1> DEFINE t == State
             rest == left.overlays - 1
             l == [left EXCEPT !.overlays = rest]
             v == [t EXCEPT !.bind = bind, !.left = l]
             z == [store EXCEPT ![bind.act].ov = left.overlays]
             w == [v EXCEPT !.store = z]
             u == Render(w, bind.act, FALSE)
  <1>1. /\ Sound(t, {}) /\ t \in States /\ t.bind = bind /\ t.left = left /\ t.ctl = ctl
        /\ t.store = store
    BY SessionFacts, StateFields
  <1>2. /\ bind \in [last : Owners, cur : Owners, act : Owners, wiped : Owners, agreed : BOOLEAN]
        /\ left \in Budget /\ store \in [Bindings -> [base : Bases, ov : Int]]
    BY <1>1 DEF States
  <1>3. bind.act # None /\ left.overlays > 0 /\ Untouched /\ Becomes(u)
    <2>1. OverlayShown([State EXCEPT !.left.overlays = @ - 1], bind.act, left.overlays) = u
      BY ZenonT(60), <1>1, <1>2 DEF OverlayShown, States
    <2> QED BY <2>1 DEF ShowOverlay
  <1>4. rest \in Nat /\ left.overlays \in Int
    BY <1>2, <1>3 DEF Budget
  <1> HIDE DEF rest, t
  <1>5. l \in Budget /\ l.bindings = left.bindings
    BY <1>2, <1>4 DEF Budget
  <1> HIDE DEF l
  <1>6. Sound(v, {})
    <2>1. /\ bind.act \in {None, bind.cur} /\ bind.wiped <= bind.last /\ bind.cur <= bind.last
          /\ bind.last + l.bindings <= MaxBindings
      BY <1>1, <1>5 DEF Sound, Belongs
    <2>2. \A o \in {bind.cur, t.ctl.own, t.ctl.accepted.own} : o = None \/ o > bind.wiped
      BY <1>1 DEF Sound, Belongs, Fresh
    <2> QED BY ZenonT(60), <1>1, <1>2, <1>5, <2>1, <2>2, BindingsChange
  <1>7. z \in [Bindings -> [base : Bases, ov : Int]]
    BY <1>2, <1>3, <1>4, SessionFacts
  <1>8. w.ctl = ctl /\ w.bind = bind
    BY <1>1 DEF States
  <1> HIDE DEF z, v
  <1>9. Sound(w, {})
    BY <1>6, <1>7, StoreChanges
  <1> HIDE DEF w
  <1>10. Sound(u, {}) /\ Requested(w, u)
    <2>1. FALSE \in BOOLEAN /\ Fresh(w, bind.act)
      BY <1>3, <1>8, SessionFacts, StateFields DEF Fresh
    <2> QED BY <1>3, <1>9, <2>1, SessionFacts, RenderKeeps, Zenon
  <1> HIDE DEF u
  <1> QED BY <1>3, <1>8, <1>10, QuietKeeps DEF Requested

\* A builtin content replaces the base of the active binding.
LEMMA SetContentKeeps == ASSUME Inv, SetContent PROVE Keeps
  <1> DEFINE t == State
             b == bind.act
             rest == left.contents - 1
             l == [left EXCEPT !.contents = rest]
             v == [t EXCEPT !.bind = bind, !.left = l]
             z == [store EXCEPT ![b] = [base |-> left.contents, ov |-> None]]
             w == [v EXCEPT !.store = z]
             u == Submit(w, b, Composed(w, b), 1)
  <1>1. /\ Sound(t, {}) /\ t \in States /\ t.bind = bind /\ t.left = left /\ t.ctl = ctl
        /\ t.store = store
    BY SessionFacts, StateFields
  <1>2. /\ bind \in [last : Owners, cur : Owners, act : Owners, wiped : Owners, agreed : BOOLEAN]
        /\ left \in Budget /\ store \in [Bindings -> [base : Bases, ov : Int]]
    BY <1>1 DEF States
  <1>3. b # None /\ left.contents > 0 /\ Untouched /\ Becomes(u)
    <2>1. [State EXCEPT !.left.contents = @ - 1,
                        !.store[b] = [base |-> left.contents, ov |-> None]] = w
      BY <1>1, <1>2 DEF States
    <2> QED BY <2>1 DEF SetContent
  <1>4. rest \in Nat /\ left.contents \in Bases /\ None \in Int
    BY <1>2, <1>3 DEF Budget, Bases, None
  <1>5. b \in Bindings /\ b \in Owners /\ Fresh(t, b)
    BY <1>3, SessionFacts
  <1> HIDE DEF rest, t, b
  <1>6. l \in Budget /\ l.bindings = left.bindings
    BY <1>2, <1>4 DEF Budget
  <1> HIDE DEF l
  <1>7. Sound(v, {})
    <2>1. /\ bind.act \in {None, bind.cur} /\ bind.wiped <= bind.last /\ bind.cur <= bind.last
          /\ bind.last + l.bindings <= MaxBindings
      BY <1>1, <1>6 DEF Sound, Belongs
    <2>2. \A o \in {bind.cur, t.ctl.own, t.ctl.accepted.own} : o = None \/ o > bind.wiped
      BY <1>1 DEF Sound, Belongs, Fresh
    <2> QED BY ZenonT(60), <1>1, <1>2, <1>6, <2>1, <2>2, BindingsChange
  <1>8. z \in [Bindings -> [base : Bases, ov : Int]]
    BY <1>2, <1>4, <1>5
  <1>9. w.ctl = ctl /\ w.bind = bind
    BY <1>1 DEF States
  <1> HIDE DEF z, v
  <1>10. Sound(w, {})
    BY <1>7, <1>8, StoreChanges
  <1> HIDE DEF w
  <1>11. Composed(w, b) \in Frames /\ FrameOf(Composed(w, b), b)
    <2>1. w.store[b].base \in Bases /\ w.store[b].ov \in Int
      BY <1>5, <1>10, StateTypes DEF Sound
    <2> QED BY <1>5, <2>1, FrameIsFrame DEF Composed
  <1>12. Sound(u, {}) /\ Requested(w, u)
    <2>1. Fresh(w, b)
      BY <1>1, <1>5, <1>9 DEF Fresh
    <2> QED BY <1>5, <1>10, <1>11, <2>1, SmallOwners, SubmitKeeps
  <1> HIDE DEF u
  <1> QED BY <1>3, <1>9, <1>12, QuietKeeps DEF Requested

\* The end of an overlay renders what is under it, for the installed binding.
LEMMA EndOverlayKeeps == ASSUME Inv, EndOverlay PROVE Keeps
  <1> DEFINE t == State
             b == bind.cur
             z == [store EXCEPT ![b].ov = None]
             w == [t EXCEPT !.store = z]
             u == Render(w, b, TRUE)
  <1>1. /\ Sound(t, {}) /\ t \in States /\ t.bind = bind /\ t.ctl = ctl /\ t.store = store
    BY SessionFacts, StateFields
  <1>2. store \in [Bindings -> [base : Bases, ov : Int]]
    BY <1>1 DEF States
  <1>3. b # None /\ Untouched /\ Becomes(u)
    <2>1. OverlayEnded(State, bind.cur) = u
      BY <1>1 DEF OverlayEnded, States
    <2> QED BY <2>1 DEF EndOverlay
  <1>4. b \in Bindings /\ Fresh(t, b) /\ None \in Int
    BY <1>3, SessionFacts DEF None
  <1> HIDE DEF t, b
  <1>5. z \in [Bindings -> [base : Bases, ov : Int]]
    BY <1>2, <1>4
  <1>6. w.ctl = ctl /\ w.bind = bind
    BY <1>1 DEF States
  <1> HIDE DEF z
  <1>7. Sound(w, {})
    BY <1>1, <1>5, StoreChanges
  <1> HIDE DEF w
  <1>8. Sound(u, {}) /\ Requested(w, u)
    <2>1. TRUE \in BOOLEAN /\ Fresh(w, b)
      BY <1>1, <1>4, <1>6 DEF Fresh
    <2> QED BY <1>4, <1>7, <2>1, RenderKeeps, Zenon
  <1> HIDE DEF u
  <1> QED BY <1>3, <1>6, <1>8, QuietKeeps DEF Requested

\* An agreement that lapses takes the authority from who writes next, and no more.
LEMMA LapseKeeps == ASSUME Inv, Lapse PROVE Keeps
  <1> DEFINE t == State
             e == [bind EXCEPT !.agreed = FALSE]
             u == [t EXCEPT !.bind = e, !.left = left]
  <1>1. Sound(t, {}) /\ t \in States /\ t.bind = bind /\ t.left = left /\ t.ctl = ctl
    BY SessionFacts, StateFields
  <1>2. Untouched /\ Becomes(u)
    <2>1. [State EXCEPT !.bind.agreed = FALSE] = u
      BY <1>1 DEF States
    <2> QED BY <2>1 DEF Lapse
  <1> HIDE DEF t
  <1>3. /\ bind \in [last : Owners, cur : Owners, act : Owners, wiped : Owners, agreed : BOOLEAN]
        /\ left \in Budget
    BY <1>1 DEF States
  <1>4. /\ e \in [last : Owners, cur : Owners, act : Owners, wiped : Owners, agreed : BOOLEAN]
        /\ e.cur = bind.cur /\ e.act = bind.act /\ e.last = bind.last /\ e.wiped = bind.wiped
    BY <1>3
  <1>5. u.ctl = ctl
    BY <1>1 DEF States
  <1> HIDE DEF e
  <1>6. Sound(u, {})
    <2>1. /\ e.act \in {None, e.cur} /\ e.wiped <= e.last /\ e.cur <= e.last
          /\ e.last + left.bindings <= MaxBindings
      BY <1>1, <1>4 DEF Sound, Belongs
    <2>2. \A o \in {e.cur, t.ctl.own, t.ctl.accepted.own} : o = None \/ o > e.wiped
      BY <1>1, <1>4 DEF Sound, Belongs, Fresh
    <2> QED BY ZenonT(60), <1>1, <1>3, <1>4, <2>1, <2>2, BindingsChange
  <1> HIDE DEF u
  <1> QED BY <1>2, <1>5, <1>6, QuietKeeps

\* A task that holds the output is first in line, and nobody else writes.
LEMMA HolderIsAlone ==
    ASSUME NEW t, Sound(t, {}), NEW x \in Tasks, First(t, x) \/ Stage(t, x) \in Holding
    PROVE  /\ First(t, x) /\ x \in ToSet(t.io)
           /\ \A y \in Tasks \ {x} : Stage(t, y) \notin Holding /\ Stage(t, y) \notin Writing
  <1>1. First(t, x)
    BY DEF Sound, Line
  <1>2. x \in ToSet(t.io)
    <2>1. t.io \in Seq(Tasks) /\ t.io # <<>>
      BY <1>1 DEF Sound, States, First
    <2>2. 1 \in DOMAIN t.io /\ Head(t.io) = t.io[1]
      BY <2>1
    <2> QED BY <1>1, <2>2 DEF ToSet, First
  <1>3. \A y \in Tasks \ {x} : Stage(t, y) \notin Holding
    BY <1>1, FirstExcludes
  <1> QED BY <1>1, <1>2, <1>3 DEF Holding, Writing

\* A task that waits before it is in line is not in it.
LEMMA NotInLine ==
    ASSUME NEW t, Sound(t, {}), NEW x \in Tasks, Stage(t, x) \notin InLine
    PROVE  x \notin ToSet(t.io)
  BY DEF Sound, Line

\* Who writes publishes what it brought, and is the only one.
LEMMA WriterPublishes ==
    ASSUME Inv, NEW x \in Tasks, Stage(State, x) \in Writing
    PROVE  LET gen == Gen(State, x)
               u == [State EXCEPT !.ctl.published = gen]
           IN /\ gen \in Nat /\ gen <= ctl.gen /\ ctl.published <= gen
              /\ Fresh(State, Owner(State, x)) \/ clear.ph # "idle"
              /\ Sound(u, {}) /\ u.ctl = [ctl EXCEPT !.published = gen]
              /\ u.run = run /\ u.clear = clear /\ u.io = io /\ u.job = job
              /\ u.results = results /\ u.feed = feed /\ u.undo = undo
              /\ u.store = store /\ u.bind = bind /\ u.left = left
  <1> DEFINE gen == Gen(State, x)
             u == [State EXCEPT !.ctl.published = gen]
  <1>1. Sound(State, {}) /\ gen \in Nat /\ Stage(State, x) \in Holding
    BY SessionFacts, StateTypes DEF Writing, Holding
  <1>2. gen <= ctl.gen /\ ctl.published <= gen
    BY <1>1, StateFields DEF Sound, Ordered
  <1>3. Fresh(State, Owner(State, x)) \/ clear.ph # "idle"
    BY <1>1, StateFields DEF Sound, Belongs
  <1>4. \A y \in Tasks : Stage(State, y) \in Writing => gen <= Gen(State, y)
    <2>1. \A y \in Tasks \ {x} : Stage(State, y) \notin Writing
      BY <1>1, HolderIsAlone
    <2> QED BY <1>1, <2>1
  <1> HIDE DEF gen
  <1>5. /\ Sound(u, {}) /\ u.ctl = [ctl EXCEPT !.published = gen]
        /\ u.run = run /\ u.clear = clear /\ u.io = io /\ u.job = job
        /\ u.results = results /\ u.feed = feed /\ u.undo = undo
        /\ u.store = store /\ u.bind = bind /\ u.left = left
    BY <1>1, <1>2, <1>4, PublishKeeps, StateFields
  <1> QED BY <1>1, <1>2, <1>3, <1>5 DEF gen

\* What the control accepted is not of an earlier page.
LEMMA AcceptedIsFresh ==
    ASSUME Inv PROVE ctl.accepted.own = None \/ ctl.accepted.own > bind.wiped
  BY SessionFacts, StateFields DEF Sound, Belongs, Fresh

----------------------------------------------------------------------------
(* Clears *)

\* A clear that found a later one waiting starts again.
LEMMA ClearAgainKeeps ==
    ASSUME NEW t, Sound(t, {}), First(t, <<"clear", 0>>), t.clear.ph # "idle"
    PROVE  LET u == ClearAgain(t) IN Sound(u, {}) /\ u.ctl = t.ctl /\ u.bind = t.bind
  <1> DEFINE x == <<"clear", 0>>
             d == [t.clear EXCEPT !.ph = IF t.clear.pending = None THEN "idle" ELSE "start"]
             v == [t EXCEPT !.clear = d]
             u == Leave(v, x)
  <1>1. /\ t \in States
        /\ t.clear \in [ph : {"idle", "start", "queue", "write"}, gen : Nat, pending : Nat]
    BY DEF Sound, States
  <1>2. ClearAgain(t) = u
    BY DEF ClearAgain
  <1>3. /\ d \in [ph : {"idle", "start", "queue", "write"}, gen : Nat, pending : Nat]
        /\ d.gen = t.clear.gen /\ d.pending = t.clear.pending
        /\ d.ph = IF t.clear.pending = None THEN "idle" ELSE "start"
    BY <1>1
  <1>4. v.ctl = t.ctl /\ v.bind = t.bind /\ v.clear = d
    BY <1>1 DEF States
  <1> HIDE DEF d
  <1>5. Sound(v, {} \union {x})
    <2>1. d.gen <= t.ctl.gen /\ d.pending <= t.ctl.gen
      BY <1>3, TaskViews DEF Sound, Ordered
    <2>2. d.ph # "write" /\ (d.pending # None => d.ph # "idle")
      BY <1>3
    <2>3. \A y \in Tasks : Stage(t, y) \notin Writing \/ y = x
      BY TaskViews, HolderIsAlone
    <2> QED BY <1>3, <2>1, <2>2, <2>3, ClearChanges
  <1> HIDE DEF v
  <1>6. x \in Tasks /\ Stage(v, x) \notin InLine
    <2>1. v.clear.ph \in {"idle", "start"}
      BY <1>3, <1>4
    <2> QED BY <2>1, TaskViews DEF InLine
  <1>7. Sound(u, {} \ {x}) /\ OnlyLine(v, u)
    BY <1>5, <1>6, LeavesFor
  <1> HIDE DEF u
  <1> QED BY <1>2, <1>4, <1>7 DEF OnlyLine

\* A clear takes the generation that waits and stands in line.
LEMMA ClearPopsKeeps == ASSUME Inv, ClearPops PROVE Keeps
  <1> DEFINE t == State
             x == <<"clear", 0>>
             d == [ph |-> "queue", gen |-> clear.pending, pending |-> None]
             v == [t EXCEPT !.clear = d]
             u == Join(v, x)
  <1>1. /\ Sound(t, {}) /\ t \in States /\ t.clear = clear /\ t.ctl = ctl /\ t.io = io
    BY SessionFacts, StateFields
  <1>2. clear.ph = "start" /\ Becomes(u) /\ Untouched
    BY DEF ClearPops
  <1> HIDE DEF t
  <1>3. /\ d \in [ph : {"idle", "start", "queue", "write"}, gen : Nat, pending : Nat]
        /\ d.ph = "queue" /\ d.gen = clear.pending /\ d.pending = None
    BY <1>1 DEF States, None
  <1>4. v.ctl = ctl /\ v.io = io /\ v.clear = d
    BY <1>1 DEF States
  <1> HIDE DEF d
  <1>5. Sound(v, {} \union {x})
    <2>1. d.gen <= t.ctl.gen /\ d.pending <= t.ctl.gen
      BY <1>1, <1>3, SessionFacts DEF Sound, Ordered, None
    <2> QED BY <1>1, <1>3, <2>1, ClearChanges
  <1>6. x \in Tasks /\ x \notin ToSet(v.io)
    <2>1. x \in Tasks /\ Stage(t, x) = "start"
      BY <1>1, <1>2, TaskViews
    <2> QED BY <1>1, <1>4, <2>1, NotInLine DEF InLine
  <1> HIDE DEF v
  <1>7. Stage(v, x) = "queue"
    BY <1>3, <1>4, TaskViews
  <1>8. Sound(u, {} \ {x}) /\ OnlyLine(v, u)
    BY <1>5, <1>6, <1>7, JoinsFor DEF InLine, Holding
  <1> HIDE DEF u
  <1> QED BY <1>2, <1>4, <1>8, QuietKeeps DEF OnlyLine

\* A clear older than what is published is dropped at the head of the line, so one
\* that writes is not older.
LEMMA ClearEntersKeeps == ASSUME Inv, ClearEnters PROVE Keeps
  <1> DEFINE t == State
             x == <<"clear", 0>>
             d == [clear EXCEPT !.ph = "write"]
             u == [t EXCEPT !.clear = d]
  <1>1. /\ Sound(t, {}) /\ t \in States /\ t.clear = clear /\ t.ctl = ctl /\ t.io = io
    BY SessionFacts, StateFields
  <1>2. /\ clear.ph = "queue" /\ First(t, x) /\ Untouched
        /\ \/ Becomes(ClearAgain(t))
           \/ ~(ctl.published > clear.gen) /\ Becomes(u)
    <2>1. [State EXCEPT !.clear.ph = "write"] = u
      BY <1>1
    <2> QED BY <1>1, <2>1 DEF ClearEnters, Inside, First
  <1> HIDE DEF t
  <1>3. CASE Becomes(ClearAgain(t))
    <2>1. Sound(ClearAgain(t), {}) /\ ClearAgain(t).ctl = ctl
      BY <1>1, <1>2, ClearAgainKeeps
    <2> QED BY <1>2, <1>3, <2>1, QuietKeeps DEF t
  <1>4. CASE ~(ctl.published > clear.gen) /\ Becomes(u)
    <2>1. /\ clear \in [ph : {"idle", "start", "queue", "write"}, gen : Nat, pending : Nat]
          /\ ctl.published \in Nat
      BY <1>1, SessionFacts DEF States
    <2>2. /\ d \in [ph : {"idle", "start", "queue", "write"}, gen : Nat, pending : Nat]
          /\ d.ph = "write" /\ d.gen = clear.gen /\ d.pending = clear.pending
      BY <2>1
    <2>3. u.ctl = ctl /\ u.io = io /\ u.clear = d
      BY <1>1 DEF States
    <2> HIDE DEF d
    <2>4. Sound(u, {} \union {x})
      <3>1. d.gen <= t.ctl.gen /\ d.pending <= t.ctl.gen
        BY <1>1, <2>2, TaskViews DEF Sound, Ordered
      <3>2. t.ctl.published <= d.gen
        BY <1>1, <1>4, <2>1, <2>2
      <3> QED BY <1>1, <2>2, <3>1, <3>2, ClearChanges
    <2> HIDE DEF u
    <2>5. Sound(u, {} \ {x})
      <3>1. x \in Tasks /\ Stage(u, x) = "write"
        BY <2>2, <2>3, TaskViews
      <3>2. x \in ToSet(u.io) /\ First(u, x)
        BY <1>1, <1>2, <2>3, <3>1, HolderIsAlone DEF First
      <3> QED BY <2>4, <3>1, <3>2, Arrives DEF InLine
    <2>6. Sound(u, {})
      BY <2>5
    <2> QED BY <1>2, <1>4, <2>3, <2>6, QuietKeeps
  <1> QED BY <1>2, <1>3, <1>4

\* A clear publishes its generation and leaves the line.
LEMMA ClearWrittenKeeps == ASSUME Inv, ClearWritten PROVE Keeps
  <1> DEFINE x == <<"clear", 0>>
             v == [State EXCEPT !.ctl.published = clear.gen]
  <1>1. /\ clear.ph = "write"
        /\ \/ Becomes(ClearAgain(v)) /\ Shows(Blank, MendedIf(ctl.gen = clear.gen))
           \/ Becomes(ClearAgain(State)) /\ FailedWrite(Blank)
    BY DEF ClearWritten
  <1>2. x \in Tasks /\ Stage(State, x) = "write" /\ Gen(State, x) = clear.gen
    BY <1>1, StateFields, TaskViews
  <1>3. First(State, x) /\ Sound(State, {})
    BY <1>2, SessionFacts, HolderIsAlone DEF Holding
  <1>4. /\ Sound(v, {}) /\ v.clear = clear /\ v.io = io /\ v.ctl.published >= ctl.published
    <2>1. /\ clear.gen \in Nat /\ ctl.published <= clear.gen
          /\ Sound(v, {}) /\ v.clear = clear /\ v.io = io
          /\ v.ctl = [ctl EXCEPT !.published = clear.gen]
      BY <1>2, WriterPublishes DEF Writing
    <2> HIDE DEF v
    <2>2. v.ctl.published = clear.gen
      BY <2>1, SessionFacts, StateFields DEF Sound, States, Controls
    <2> QED BY <2>1, <2>2, SessionFacts
  <1> HIDE DEF v
  <1>5. lost \subseteq Mishaps /\ Blank.own = None
    BY BlankIsFrame DEF Inv
  <1>6. CASE Becomes(ClearAgain(v)) /\ Shows(Blank, MendedIf(ctl.gen = clear.gen))
    <2>1. Sound(ClearAgain(v), {}) /\ ClearAgain(v).ctl = v.ctl
      BY <1>1, <1>3, <1>4, StateFields, ClearAgainKeeps DEF First
    <2>2. shown'.own = None /\ lost' \subseteq Mishaps
      BY <1>5, <1>6, MishapsAreTyped DEF Shows
    <2> QED BY <1>4, <1>6, <2>1, <2>2, BecomesKeeps
  <1>7. CASE Becomes(ClearAgain(State)) /\ FailedWrite(Blank)
    <2>1. Sound(ClearAgain(State), {}) /\ ClearAgain(State).ctl = ctl
      BY <1>1, <1>3, StateFields, ClearAgainKeeps
    <2>2. (shown' = shown \/ shown'.own = None) /\ lost' \subseteq Mishaps /\ ctl.published \in Nat
      BY <1>5, <1>7, MishapsAreTyped, SessionFacts DEF FailedWrite, Shows
    <2> QED BY <1>7, <2>1, <2>2, BecomesKeeps
  <1> QED BY <1>1, <1>6, <1>7

----------------------------------------------------------------------------
(* Ordinary renders *)

\* A rendered frame stands in line, a cancelled one makes place for the next request,
\* and one that failed settles.
LEMMA RunRendersKeeps == ASSUME Inv, NEW k \in Runs, RunRenders(k) PROVE Keeps
  <1> DEFINE x == <<"run", k>>
             w == StopFeed(State, k)
             t == StopFeed(w, Second(k))
             v == Staged(t, k, "apply")
  <1>1. /\ run[k].ph = "render"
        /\ \/ Becomes(NextRequest(t, k)) /\ Untouched
           \/ Becomes(Join(v, x)) /\ Untouched
           \/ Becomes(Settle(t, k)) /\ Shows(shown, FailedIf(run[k].req.gen = ctl.gen))
    BY StateFields DEF RunRenders, Scopes, Staged
  <1>2. Sound(t, {}) /\ t.ctl = ctl /\ t.run = run
    <2>1. k \in Feeds /\ Second(k) \in Feeds /\ Sound(State, {})
      BY SessionFacts, RunsHaveFeeds
    <2>2. ASSUME NEW X, Sound(State, X), <<"feed", k>> \notin X
          PROVE  Sound(w, X) /\ w.ctl = State.ctl /\ w.run = State.run
      BY <2>1, <2>2, StopFeedKeeps
    <2>3. Sound(w, {}) /\ w.ctl = ctl /\ w.run = run
      <3> HIDE DEF w
      <3> QED BY <2>1, <2>2, StateFields
    <2> HIDE DEF w
    <2>4. ASSUME NEW X, Sound(w, X), <<"feed", Second(k)>> \notin X
          PROVE  Sound(t, X) /\ t.ctl = w.ctl /\ t.run = w.run
      BY <2>1, <2>4, StopFeedKeeps
    <2> HIDE DEF t
    <2> QED BY <2>3, <2>4
  <1> HIDE DEF t
  <1>3. x \in Tasks /\ x \notin ToSet(t.io) /\ Sound(t, {x})
    <2>1. x \in Tasks /\ Stage(t, x) = "render"
      BY <1>1, <1>2, TaskViews
    <2> QED BY <1>2, <2>1, NotInLine, LooserSound DEF InLine
  <1>4. CASE Becomes(NextRequest(t, k)) /\ Untouched
    <2>1. Sound(NextRequest(t, k), {}) /\ GoesOn(t, NextRequest(t, k))
      BY <1>3, NextRequestKeeps
    <2> QED BY <1>2, <1>4, <2>1, QuietKeeps DEF GoesOn
  <1>5. CASE Becomes(Join(v, x)) /\ Untouched
    <2>1. /\ Sound(v, {} \union {x}) /\ v.io = t.io /\ v.ctl = t.ctl
          /\ v.run[k] = [ph |-> "apply", req |-> t.run[k].req]
      <3>1. "apply" \in {"render", "apply", "write", "settle", "restore"} /\ "apply" # "write"
        OBVIOUS
      <3> QED BY ZenonT(60), <1>2, <3>1, RunMoves
    <2> HIDE DEF v
    <2>2. Stage(v, x) = "apply"
      <3>1. v.run[k].ph = "apply"
        BY <2>1
      <3> QED BY <3>1, TaskViews
    <2>3. Sound(Join(v, x), {} \ {x}) /\ OnlyLine(v, Join(v, x))
      BY <1>3, <2>1, <2>2, JoinsFor DEF InLine, Holding
    <2>4. Sound(Join(v, x), {}) /\ Join(v, x).ctl = ctl
      BY <1>2, <2>1, <2>3 DEF OnlyLine
    <2> QED BY <1>5, <2>4, QuietKeeps
  <1>6. CASE Becomes(Settle(t, k)) /\ Shows(shown, FailedIf(run[k].req.gen = ctl.gen))
    <2>1. Sound(Settle(t, k), {}) /\ Settle(t, k).ctl = ctl
      BY <1>2, <1>3, SettleKeeps
    <2>2. shown' = shown /\ lost' \subseteq Mishaps /\ ctl.published \in Nat
      BY <1>6, MishapsAreTyped, SessionFacts DEF Shows, Inv
    <2> QED BY <1>6, <2>1, <2>2, BecomesKeeps
  <1> QED BY <1>1, <1>4, <1>5, <1>6

\* A frame at the head of the line is written if its generation is that of now and its
\* agreement allows it; else its task settles.
LEMMA RunAppliesKeeps == ASSUME Inv, NEW k \in Runs, RunApplies(k) PROVE Keeps
  <1> DEFINE x == <<"run", k>>
             gone == Leave(State, x)
             v == Staged(State, k, "write")
  <1>1. /\ run[k].ph = "apply" /\ First(State, x) /\ Untouched
        /\ \/ ctl.gen = run[k].req.gen /\ Becomes(v)
           \/ Becomes(Settle(gone, k))
    BY StateFields DEF RunApplies, Inside, First, Staged
  <1>2. Sound(State, {}) /\ x \in Tasks
    BY SessionFacts, TaskViews
  <1>3. CASE ctl.gen = run[k].req.gen /\ Becomes(v)
    <2>1. /\ Sound(v, {} \union {x}) /\ v.io = io /\ v.ctl = ctl
          /\ v.run[k] = [ph |-> "write", req |-> run[k].req]
      <3>1. /\ "write" \in {"render", "apply", "write", "settle", "restore"}
            /\ State.run[k].req.gen = State.ctl.gen
        BY <1>3, StateFields
      <3> QED BY ZenonT(60), <1>2, <3>1, RunMoves, StateFields
    <2> HIDE DEF v
    <2>2. Stage(v, x) = "write"
      <3>1. v.run[k].ph = "write"
        BY <2>1
      <3> QED BY <3>1, TaskViews
    <2>3. x \in ToSet(v.io) /\ First(v, x)
      BY <1>1, <1>2, <2>1, HolderIsAlone, StateFields DEF First
    <2>4. Sound(v, {} \ {x})
      BY <2>1, <2>2, <2>3, Arrives DEF InLine
    <2>5. Sound(v, {})
      BY <2>4
    <2> QED BY <1>1, <1>3, <2>1, <2>5, QuietKeeps
  <1>4. CASE Becomes(Settle(gone, k))
    <2>1. Sound(gone, {x}) /\ x \notin ToSet(gone.io) /\ gone.ctl = ctl
      <3>1. Sound(gone, {} \union {x}) /\ x \notin ToSet(gone.io) /\ OnlyLine(State, gone)
        BY <1>2, LeaveKeeps
      <3> HIDE DEF gone
      <3> QED BY <3>1, StateFields DEF OnlyLine
    <2> HIDE DEF gone
    <2>2. Sound(Settle(gone, k), {}) /\ Settle(gone, k).ctl = ctl
      BY <2>1, SettleKeeps
    <2> QED BY <1>1, <1>4, <2>2, QuietKeeps
  <1> QED BY <1>1, <1>3, <1>4

\* What a run shows is accepted only of the generation of now, whose owner it has.
LEMMA RunWrittenKeeps == ASSUME Inv, NEW k \in Runs, RunWritten(k) PROVE Keeps
  <1> DEFINE x == <<"run", k>>
             req == run[k].req
             accept == IF ctl.gen = req.gen
                       THEN [ctl EXCEPT !.accepted = req.frame, !.provisional = FALSE] ELSE ctl
             c == [accept EXCEPT !.published = req.gen]
             w == [State EXCEPT !.ctl = c]
             gone(t) == Settle(Leave(t, x), k)
  <1>1. /\ run[k].ph = "write"
        /\ \/ /\ Becomes([gone(State) EXCEPT !.ctl = c])
              /\ Shows(req.frame, MendedIf(ctl.gen = req.gen))
           \/ Becomes(gone(State)) /\ FailedWrite(req.frame)
    <2>1. gone(State).ctl = ctl
      BY StateFields DEF Settle, Leave, Join
    <2> QED BY <2>1 DEF RunWritten
  <1>2. /\ Sound(State, {}) /\ x \in Tasks /\ Stage(State, x) = "write"
        /\ Gen(State, x) = req.gen /\ Owner(State, x) = req.frame.own
    BY <1>1, SessionFacts, StateFields, TaskViews
  <1>3. /\ req.gen \in Nat /\ req.gen <= ctl.gen /\ ctl.published <= req.gen
        /\ Fresh(State, req.frame.own) \/ clear.ph # "idle"
    BY <1>2, WriterPublishes DEF Writing
  <1>4. \A y \in Tasks : Stage(State, y) \in Writing => req.gen <= Gen(State, y)
    <2>1. \A y \in Tasks \ {x} : Stage(State, y) \notin Writing
      BY <1>2, HolderIsAlone DEF Holding
    <2> QED BY <1>2, <1>3, <2>1
  <1>5. req.frame \in Frames /\ (ctl.gen = req.gen => Fresh(State, req.frame.own))
    <2>1. /\ FrameOf(req.frame, req.own) /\ OfOwner(State, req.gen, req.own)
          /\ Fresh(State, ctl.own)
      BY <1>2, StateFields DEF Sound, Belongs
    <2>2. req.frame \in Frames
      BY SessionFacts, StateFields, StateTypes
    <2> QED BY <2>1, <2>2, StateFields DEF FrameOf, OfOwner, Fresh
  <1>6. ctl \in Controls /\ Fresh(State, ctl.accepted.own) /\ Fresh(State, ctl.own)
    BY <1>2, StateFields DEF Sound, States, Belongs
  <1> HIDE DEF req
  <1>7. /\ accept \in Controls /\ accept.gen = ctl.gen /\ accept.own = ctl.own
        /\ accept.pending = ctl.pending /\ Fresh(State, accept.accepted.own)
    <2>1. CASE ctl.gen = req.gen
      BY <1>5, <1>6, <2>1 DEF Controls
    <2>2. CASE ctl.gen # req.gen
      BY <1>6, <2>2
    <2> QED BY <2>1, <2>2
  <1> HIDE DEF accept
  <1>8. /\ c \in Controls /\ c.gen = ctl.gen /\ c.own = ctl.own /\ c.published = req.gen
        /\ c.pending = ctl.pending /\ c.accepted = accept.accepted
    BY <1>3, <1>7 DEF Controls
  <1> HIDE DEF c
  <1>9. Sound(w, {}) /\ w.ctl = c /\ w.bind = bind
    <2>1. Sound(w, {})
      <3>1. /\ State.ctl = ctl /\ ctl.gen \in Nat /\ c.published <= c.gen /\ ctl.gen <= c.gen
            /\ Fresh(State, c.own) /\ Fresh(State, c.accepted.own)
        BY <1>3, <1>6, <1>7, <1>8, StateFields, SessionFacts
      <3> QED BY <1>2, <1>4, <1>8, <3>1, CtlChanges
    <2>2. w.ctl = c /\ w.bind = bind
      BY StateFields, SessionFacts DEF States
    <2> QED BY <2>1, <2>2
  <1>10. [gone(State) EXCEPT !.ctl = c] = gone(w)
    <2>1. State \in States
      BY SessionFacts
    <2> QED BY <2>1 DEF Settle, Leave, Join, States
  <1> HIDE DEF w
  <1>11. ASSUME NEW t, Sound(t, {}) PROVE Sound(gone(t), {}) /\ gone(t).ctl = t.ctl /\ gone(t).bind = t.bind
    <2> DEFINE v == Leave(t, x)
    <2>1. Sound(v, {} \union {x}) /\ x \notin ToSet(v.io) /\ OnlyLine(t, v)
      BY <1>2, <1>11, LeaveKeeps
    <2> HIDE DEF v
    <2>2. Sound(Settle(v, k), {}) /\ GoesOn(v, Settle(v, k)) /\ Settle(v, k).ctl = v.ctl
      <3>1. Sound(v, {x})
        BY <2>1
      <3> QED BY <2>1, <3>1, SettleKeeps
    <2> QED BY <2>1, <2>2 DEF GoesOn, OnlyLine, v
  <1>12. CASE Becomes(gone(w)) /\ Shows(req.frame, MendedIf(ctl.gen = req.gen))
    <2>1. Sound(gone(w), {}) /\ gone(w).ctl = c /\ gone(w).bind = bind
      BY <1>9, <1>11
    <2> HIDE DEF gone
    <2>2. lost' \subseteq Mishaps /\ shown' = req.frame
      BY <1>12, MishapsAreTyped DEF Shows, Inv
    <2> QED BY <1>3, <1>8, <1>12, <2>1, <2>2, SessionFacts, StateFields, BecomesKeeps DEF Fresh
  <1>13. CASE Becomes(gone(State)) /\ FailedWrite(req.frame)
    <2>1. Sound(gone(State), {}) /\ gone(State).ctl = ctl /\ gone(State).bind = bind
      BY <1>2, <1>11, StateFields
    <2> HIDE DEF gone
    <2>2. lost' \subseteq Mishaps /\ shown' \in {shown, req.frame} /\ ctl.published \in Nat
      BY <1>13, MishapsAreTyped, SessionFacts DEF FailedWrite, Shows, Inv
    <2> QED BY <1>3, <1>13, <2>1, <2>2, StateFields, BecomesKeeps DEF Fresh
  <1> QED BY <1>1, <1>10, <1>12, <1>13

\* Where a task takes the next request it has left the line.
LEMMA LeavesForNext ==
    ASSUME NEW t, Sound(t, {}), NEW k \in Runs
    PROVE  LET u == NextRequest(Leave(t, <<"run", k>>), k)
           IN /\ Sound(u, {}) /\ u.ctl.published = t.ctl.published /\ u.bind = t.bind
  <1> DEFINE x == <<"run", k>>
             v == Leave(t, x)
             u == NextRequest(v, k)
  <1>1. Sound(v, {} \union {x}) /\ x \notin ToSet(v.io) /\ OnlyLine(t, v)
    BY TaskViews, LeaveKeeps
  <1> HIDE DEF v
  <1>2. Sound(u, {}) /\ GoesOn(v, u)
    <2>1. Sound(v, {x})
      BY <1>1
    <2> QED BY <1>1, <2>1, NextRequestKeeps
  <1> HIDE DEF u
  <1>3. Sound(u, {}) /\ u.ctl.published = t.ctl.published /\ u.bind = t.bind
    BY <1>1, <1>2 DEF OnlyLine, GoesOn
  <1> QED BY <1>3 DEF u, v

\* A late frame at the head of the line restores what was accepted, if it must.
LEMMA RunSettlesKeeps == ASSUME Inv, NEW k \in Runs, RunSettles(k) PROVE Keeps
  <1> DEFINE x == <<"run", k>>
             v == Staged(State, k, "restore")
             gone == NextRequest(Leave(State, x), k)
  <1>1. First(State, x) /\ Untouched /\ (Becomes(v) \/ Becomes(gone))
    BY StateFields DEF RunSettles, Inside, First, Staged
  <1>2. Sound(State, {}) /\ x \in Tasks
    BY SessionFacts, TaskViews
  <1>3. CASE Becomes(v)
    <2>1. /\ Sound(v, {} \union {x}) /\ v.io = io /\ v.ctl = ctl
          /\ v.run[k] = [ph |-> "restore", req |-> run[k].req]
      <3>1. /\ "restore" \in {"render", "apply", "write", "settle", "restore"}
            /\ "restore" # "write"
        OBVIOUS
      <3> QED BY ZenonT(60), <1>2, <3>1, RunMoves, StateFields
    <2> HIDE DEF v
    <2>2. Stage(v, x) = "restore"
      <3>1. v.run[k].ph = "restore"
        BY <2>1
      <3> QED BY <3>1, TaskViews
    <2>3. x \in ToSet(v.io) /\ First(v, x)
      BY <1>1, <1>2, <2>1, HolderIsAlone, StateFields DEF First
    <2>4. Sound(v, {} \ {x})
      BY <2>1, <2>2, <2>3, Arrives DEF InLine
    <2>5. Sound(v, {})
      BY <2>4
    <2> QED BY <1>1, <1>3, <2>1, <2>5, QuietKeeps
  <1>4. CASE Becomes(gone)
    <2>1. Sound(gone, {}) /\ gone.ctl.published = ctl.published
      BY <1>2, LeavesForNext, StateFields
    <2> HIDE DEF gone
    <2> QED BY <1>1, <1>4, <2>1, QuietKeeps
  <1> QED BY <1>1, <1>3, <1>4

\* A control that was restored has nothing provisional left.
LEMMA RestoredKeeps ==
    ASSUME NEW t, Sound(t, {}), NEW gen
    PROVE  LET u == Restored(t, gen)
           IN /\ Sound(u, {}) /\ u.ctl.published = t.ctl.published /\ u.bind = t.bind
              /\ u.undo = t.undo /\ u.io = t.io
  <1> DEFINE p == t.ctl.provisional /\ t.ctl.gen # gen
             c == [t.ctl EXCEPT !.provisional = p]
             u == [t EXCEPT !.ctl = c]
  <1>1. t \in States /\ t.ctl \in Controls /\ t.ctl.gen \in Nat
    BY StateTypes DEF Sound
  <1>2. Restored(t, gen) = u
    BY <1>1 DEF Restored, Controls
  <1>3. p \in BOOLEAN
    OBVIOUS
  <1> HIDE DEF p
  <1>4. /\ c \in Controls /\ c.gen = t.ctl.gen /\ c.own = t.ctl.own
        /\ c.published = t.ctl.published /\ c.pending = t.ctl.pending
        /\ c.accepted = t.ctl.accepted
    BY <1>1, <1>3 DEF Controls
  <1> HIDE DEF c
  <1>5. Sound(u, {})
    <2>1. /\ Fresh(t, c.own) /\ Fresh(t, c.accepted.own)
          /\ c.published <= c.gen /\ t.ctl.gen <= c.gen
          /\ \A y \in Tasks : Stage(t, y) \in Writing => c.published <= Gen(t, y)
      BY <1>1, <1>4 DEF Sound, Belongs, Ordered
    <2> QED BY <1>4, <2>1, CtlChanges
  <1>6. u.ctl = c /\ u.bind = t.bind /\ u.undo = t.undo /\ u.io = t.io
    BY <1>1 DEF States
  <1> HIDE DEF u
  <1> QED BY <1>2, <1>4, <1>5, <1>6

\* A restoration by a render task publishes nothing older than what is published.
LEMMA RunRestoredKeeps == ASSUME Inv, NEW k \in Runs, RunRestored(k) PROVE Keeps
  <1> DEFINE w == Restored(State, run[k].req.gen)
             gone(t) == NextRequest(Leave(t, <<"run", k>>), k)
  <1>1. \/ Becomes(gone(w)) /\ Shows(ctl.accepted, lost)
        \/ Becomes(gone(State)) /\ FailedWrite(ctl.accepted)
    BY DEF RunRestored
  <1>2. Sound(State, {}) /\ Sound(w, {}) /\ w.ctl.published = ctl.published /\ w.bind = bind
    BY SessionFacts, RestoredKeeps, StateFields
  <1> HIDE DEF w
  <1>3. /\ Sound(gone(w), {}) /\ gone(w).ctl.published = ctl.published /\ gone(w).bind = bind
        /\ Sound(gone(State), {}) /\ gone(State).ctl.published = ctl.published
        /\ gone(State).bind = bind
    BY <1>2, LeavesForNext, StateFields
  <1> HIDE DEF gone
  <1>4. /\ shown' \in {shown, ctl.accepted} /\ lost' \subseteq Mishaps /\ ctl.published \in Nat
    BY <1>1, MishapsAreTyped, SessionFacts DEF FailedWrite, Shows, Inv
  <1> QED BY <1>1, <1>3, <1>4, AcceptedIsFresh, BecomesKeeps

----------------------------------------------------------------------------
(* Loading indicators *)

\* A timer that fires stands in line, unless the result was quicker.
LEMMA FeedFiresKeeps == ASSUME Inv, NEW z \in Feeds, FeedFires(z) PROVE Keeps
  <1> DEFINE x == <<"feed", z>>
             f == [feed[z] EXCEPT !.ph = "queue", !.gen = IF IsJob(z) THEN ctl.gen ELSE @]
             v == [State EXCEPT !.feed[z] = f]
             off == [State EXCEPT !.feed[z] = IdleFeed]
  <1>1. /\ feed[z].ph = "timer" /\ Untouched
        /\ \/ Awaited(z) /\ Becomes(Join(v, x))
           \/ Becomes(off)
    BY DEF FeedFires
  <1>2. /\ Sound(State, {}) /\ State \in States /\ x \in Tasks /\ x \notin ToSet(io)
        /\ feed[z] \in FeedStates /\ ctl.gen \in Nat
    <2>1. Sound(State, {}) /\ State \in States /\ ctl.gen \in Nat
      BY SessionFacts
    <2>2. feed[z] \in FeedStates
      BY <2>1, StateTypes, StateFields
    <2>3. x \in Tasks /\ Stage(State, x) = "timer"
      BY <1>1, StateFields, TaskViews
    <2> QED BY <2>1, <2>2, <2>3, StateFields, NotInLine DEF InLine
  <1>3. /\ feed[z].gen \in Nat /\ feed[z].gen <= ctl.gen
        /\ OfOwner(State, feed[z].gen, feed[z].own)
        /\ z \in Jobs => job[z].ph # "new" /\ feed[z].own = job[z].b
    <2>1. feed[z].gen \in Nat /\ feed[z].gen <= ctl.gen
      BY <1>2, StateFields, TaskViews DEF Sound, Ordered, FeedStates
    <2>2. OfOwner(State, feed[z].gen, feed[z].own)
      BY <1>2, StateFields DEF Sound, Belongs
    <2>3. z \in Jobs => job[z].ph # "new" /\ feed[z].own = job[z].b
      BY <1>1, <1>2, StateFields DEF Sound, Told, Honest
    <2> QED BY <2>1, <2>2, <2>3
  <1>4. CASE Awaited(z) /\ Becomes(Join(v, x))
    <2>1. /\ f \in FeedStates /\ f.ph = "queue" /\ f.own = feed[z].own
          /\ f.gen = IF z \in Jobs THEN ctl.gen ELSE feed[z].gen
      BY <1>2 DEF FeedStates, IsJob
    <2> HIDE DEF f
    <2>2. f.gen <= State.ctl.gen /\ OfOwner(State, f.gen, f.own)
      <3>1. CASE z \in Jobs
        <4>1. ctl.own = job[z].b
          BY <1>4, <3>1, StateFields DEF Awaited, BaseIsCurrent, IsJob
        <4> QED BY <1>2, <1>3, <2>1, <3>1, <4>1, StateFields DEF OfOwner
      <3>2. CASE z \notin Jobs
        BY <1>3, <2>1, <3>2, StateFields
      <3> QED BY <3>1, <3>2
    <2>3. Sound(v, {} \union {x})
      <3>1. f.ph # "write" /\ (z \in Jobs => State.job[z].ph # "new" /\ f.own = State.job[z].b)
        BY <1>3, <2>1, StateFields
      <3> QED BY <1>2, <2>1, <2>2, <3>1, FeedChanges
    <2>4. v.io = io /\ v.ctl = ctl /\ v.feed[z] = f
      BY <1>2, StateFields DEF States
    <2> HIDE DEF v
    <2>5. Stage(v, x) = "queue"
      <3>1. v.feed[z].ph = "queue"
        BY <2>1, <2>4
      <3> QED BY <3>1, TaskViews
    <2>6. Sound(Join(v, x), {} \ {x}) /\ OnlyLine(v, Join(v, x))
      BY <1>2, <2>3, <2>4, <2>5, JoinsFor DEF InLine, Holding
    <2>7. Sound(Join(v, x), {}) /\ Join(v, x).ctl = ctl
      BY <2>4, <2>6 DEF OnlyLine
    <2> QED BY <1>1, <1>4, <2>7, QuietKeeps
  <1>5. CASE Becomes(off)
    <2>1. IdleFeed \in FeedStates /\ IdleFeed.gen = 0 /\ IdleFeed.own = None
          /\ IdleFeed.ph = "off"
      BY SmallOwners DEF IdleFeed, FeedStates
    <2>2. IdleFeed.gen <= State.ctl.gen /\ OfOwner(State, IdleFeed.gen, IdleFeed.own)
      BY <1>2, <2>1, StateFields DEF Sound, Belongs, OfOwner
    <2>3. Sound(off, {} \union {x})
      <3>1. IdleFeed.ph # "write"
        BY <2>1
      <3> QED BY <1>2, <2>1, <2>2, <3>1, FeedChanges
    <2>4. off.io = io /\ off.ctl = ctl /\ off.feed[z] = IdleFeed
      BY <1>2, StateFields DEF States
    <2> HIDE DEF off
    <2>5. Stage(off, x) = "off"
      <3>1. off.feed[z].ph = "off"
        BY <2>1, <2>4
      <3> QED BY <3>1, TaskViews
    <2>6. Sound(off, {} \ {x})
      BY <1>2, <2>3, <2>4, <2>5, Arrives DEF InLine, Holding
    <2>7. Sound(off, {})
      BY <2>6
    <2> QED BY <1>1, <1>5, <2>4, <2>7, QuietKeeps
  <1> QED BY <1>1, <1>4, <1>5

\* An indicator at the head of the line is written if it is still awaited.
LEMMA FeedEntersKeeps == ASSUME Inv, NEW z \in Feeds, FeedEnters(z) PROVE Keeps
  <1> DEFINE x == <<"feed", z>>
             f == [feed[z] EXCEPT !.ph = "write"]
             c == [ctl EXCEPT !.provisional = TRUE]
             w == [State EXCEPT !.ctl = c]
             v == [w EXCEPT !.feed[z] = f]
             gone == Leave([State EXCEPT !.feed[z] = IdleFeed], x)
  <1>1. /\ feed[z].ph = "queue" /\ First(State, x) /\ Untouched
        /\ \/ ctl.gen = feed[z].gen /\ Becomes(v)
           \/ Becomes(gone)
    <2>1. [State EXCEPT !.feed[z].ph = "write", !.ctl.provisional = TRUE] = v
      BY SessionFacts, StateFields DEF States
    <2> QED BY <2>1, StateFields DEF FeedEnters, Inside, First
  <1>2. /\ Sound(State, {}) /\ State \in States /\ x \in Tasks
        /\ feed[z] \in FeedStates /\ ctl.gen \in Nat /\ ctl \in Controls
    BY SessionFacts, StateTypes, StateFields, TaskViews
  <1>3. CASE ctl.gen = feed[z].gen /\ Becomes(v)
    <2>1. /\ c \in Controls /\ c.gen = ctl.gen /\ c.own = ctl.own
          /\ c.published = ctl.published /\ c.pending = ctl.pending
          /\ c.accepted = ctl.accepted
      BY <1>2 DEF Controls
    <2>2. /\ f \in FeedStates /\ f.ph = "write" /\ f.gen = ctl.gen /\ f.own = feed[z].own
      BY <1>2, <1>3 DEF FeedStates
    <2> HIDE DEF c, f
    <2>3. Sound(w, {})
      <3>1. /\ Fresh(State, c.own) /\ Fresh(State, c.accepted.own)
            /\ c.published <= c.gen /\ State.ctl.gen <= c.gen
            /\ \A y \in Tasks : Stage(State, y) \in Writing => c.published <= Gen(State, y)
        BY <1>2, <2>1, StateFields DEF Sound, Belongs, Ordered
      <3> QED BY <1>2, <2>1, <3>1, StateFields, CtlChanges
    <2>4. /\ w.ctl = c /\ w.io = io /\ w.bind = bind /\ w.feed = feed /\ w.job = job
      BY <1>2, StateFields DEF States
    <2>5. v.ctl = c /\ v.io = io /\ v.feed[z] = f
      BY <1>2, <2>4, StateFields DEF States
    <2> HIDE DEF w
    <2>6. Sound(v, {} \union {x})
      <3>1. f.gen <= w.ctl.gen /\ w.ctl.published <= f.gen
        BY <1>2, <2>1, <2>2, <2>3, <2>4 DEF Sound, Ordered
      <3>2. OfOwner(w, f.gen, f.own) /\ Fresh(w, f.own)
        <4>1. OfOwner(w, feed[z].gen, feed[z].own) /\ Fresh(w, w.ctl.own)
          BY <2>3, <2>4 DEF Sound, Belongs
        <4> QED BY <1>3, <2>1, <2>2, <2>4, <4>1 DEF OfOwner
      <3>3. z \in Jobs => w.job[z].ph # "new" /\ f.own = w.job[z].b
        BY <1>1, <2>2, <2>3, <2>4 DEF Sound, Told, Honest
      <3> QED BY <2>2, <2>3, <3>1, <3>2, <3>3, FeedChanges
    <2> HIDE DEF v
    <2>7. Stage(v, x) = "write"
      <3>1. v.feed[z].ph = "write"
        BY <2>2, <2>5
      <3> QED BY <3>1, TaskViews
    <2>8. x \in ToSet(v.io) /\ First(v, x)
      BY <1>1, <1>2, <2>5, HolderIsAlone, StateFields DEF First
    <2>9. Sound(v, {} \ {x})
      BY <2>6, <2>7, <2>8, Arrives DEF InLine
    <2>10. Sound(v, {})
      BY <2>9
    <2> QED BY <1>1, <1>3, <2>1, <2>5, <2>10, QuietKeeps
  <1>4. CASE Becomes(gone)
    <2>1. Sound(gone, {}) /\ gone.ctl = ctl
      BY <1>2, FeedLeaves, StateFields
    <2> HIDE DEF gone
    <2> QED BY <1>1, <1>4, <2>1, QuietKeeps
  <1> QED BY <1>1, <1>3, <1>4

\* An indicator publishes the generation it was started for.
LEMMA FeedWrittenKeeps == ASSUME Inv, NEW z \in Feeds, FeedWritten(z) PROVE Keeps
  <1> DEFINE x == <<"feed", z>>
             w == [State EXCEPT !.ctl.published = feed[z].gen]
             gone(t) == Leave([t EXCEPT !.feed[z] = IdleFeed], x)
  <1>1. /\ feed[z].ph = "write"
        /\ \/ Becomes(gone(w)) /\ Shows(Loading(feed[z].own), lost)
           \/ Becomes(gone(State)) /\ \E f \in {shown, Loading(feed[z].own)} : Shows(f, lost)
    <2>1. [gone(State) EXCEPT !.ctl.published = feed[z].gen] = gone(w)
      BY SessionFacts DEF Leave, States
    <2> QED BY <2>1 DEF FeedWritten
  <1>2. /\ Sound(State, {}) /\ x \in Tasks /\ Stage(State, x) = "write"
        /\ Gen(State, x) = feed[z].gen /\ Owner(State, x) = feed[z].own
    BY <1>1, SessionFacts, StateFields, TaskViews
  <1>3. /\ Fresh(State, feed[z].own) \/ clear.ph # "idle"
        /\ Sound(w, {}) /\ w.ctl.published >= ctl.published /\ w.bind = bind
    <2>1. /\ feed[z].gen \in Nat /\ ctl.published <= feed[z].gen
          /\ Fresh(State, feed[z].own) \/ clear.ph # "idle"
          /\ Sound(w, {}) /\ w.ctl = [ctl EXCEPT !.published = feed[z].gen] /\ w.bind = bind
      BY <1>2, WriterPublishes DEF Writing
    <2> HIDE DEF w
    <2>2. w.ctl.published = feed[z].gen
      BY <2>1, SessionFacts, StateFields DEF Sound, States, Controls
    <2> QED BY <2>1, <2>2, SessionFacts
  <1> HIDE DEF w
  <1>4. Loading(feed[z].own).own = feed[z].own
    BY DEF Loading, Frame, None
  <1>5. lost' \subseteq Mishaps /\ shown' \in {shown, Loading(feed[z].own)} /\ ctl.published \in Nat
    BY <1>1, SessionFacts DEF Shows, Inv
  <1>6. /\ Sound(gone(w), {}) /\ gone(w).ctl = w.ctl /\ gone(w).bind = bind
        /\ Sound(gone(State), {}) /\ gone(State).ctl = ctl /\ gone(State).bind = bind
    BY <1>2, <1>3, FeedLeaves, StateFields
  <1> HIDE DEF gone
  <1> QED BY <1>1, <1>3, <1>4, <1>5, <1>6, StateFields, BecomesKeeps DEF Fresh

----------------------------------------------------------------------------
(* Restorations after a job *)

\* No restoration is a restoration of nothing.
LEMMA IdleUndoIsUndo == IdleUndo \in UndoStates /\ IdleUndo.gen = 0 /\ IdleUndo.ph = "off"
  BY DEF IdleUndo, UndoStates

\* A restoration that ends leaves the line.
LEMMA UndoLeaves ==
    ASSUME NEW t, Sound(t, {}), NEW j \in Jobs
    PROVE  LET u == Leave([t EXCEPT !.undo[j] = IdleUndo], <<"undo", j>>)
           IN Sound(u, {}) /\ u.ctl = t.ctl /\ u.bind = t.bind
  <1> DEFINE x == <<"undo", j>>
             v == [t EXCEPT !.undo[j] = IdleUndo]
             u == Leave(v, x)
  <1>1. t \in States /\ t.ctl.gen \in Nat
    BY StateTypes DEF Sound
  <1>2. Sound(v, {} \union {x})
    BY <1>1, IdleUndoIsUndo, UndoChanges
  <1>3. v.ctl = t.ctl /\ v.bind = t.bind /\ v.undo[j] = IdleUndo
    BY <1>1 DEF States
  <1> HIDE DEF v
  <1>4. x \in Tasks /\ Stage(v, x) = "off"
    BY <1>3, IdleUndoIsUndo, TaskViews
  <1>5. Sound(u, {} \ {x}) /\ OnlyLine(v, u)
    BY <1>2, <1>4, LeavesFor DEF InLine
  <1> HIDE DEF u
  <1>6. Sound(u, {}) /\ u.ctl = t.ctl /\ u.bind = t.bind
    BY <1>3, <1>5 DEF OnlyLine
  <1> QED BY <1>6 DEF u, v

\* A restoration stands in line with the generation of now, or is not needed.
LEMMA UndoBeginsKeeps == ASSUME Inv, NEW j \in Jobs, UndoBegins(j) PROVE Keeps
  <1> DEFINE x == <<"undo", j>>
             n == [ph |-> "queue", gen |-> ctl.gen]
             v == [State EXCEPT !.undo[j] = n]
             off == [State EXCEPT !.undo[j] = IdleUndo]
  <1>1. undo[j].ph = "start" /\ Untouched /\ (Becomes(Join(v, x)) \/ Becomes(off))
    BY DEF UndoBegins
  <1>2. /\ Sound(State, {}) /\ State \in States /\ x \in Tasks /\ x \notin ToSet(io)
        /\ ctl.gen \in Nat /\ job[j].done
    <2>1. Sound(State, {}) /\ State \in States /\ ctl.gen \in Nat
      BY SessionFacts
    <2>2. x \in Tasks /\ Stage(State, x) = "start"
      BY <1>1, StateFields, TaskViews
    <2>3. job[j].done
      BY <1>1, <2>1, StateFields DEF Sound, Told, Honest
    <2> QED BY <2>1, <2>2, <2>3, StateFields, NotInLine DEF InLine
  <1>3. CASE Becomes(Join(v, x))
    <2>1. n \in UndoStates /\ n.ph = "queue" /\ n.gen = ctl.gen
      BY <1>2 DEF UndoStates
    <2> HIDE DEF n
    <2>2. Sound(v, {} \union {x})
      <3>1. n.gen <= State.ctl.gen /\ n.ph # "write"
        BY <1>2, <2>1, StateFields
      <3> QED BY <1>2, <2>1, <3>1, StateFields, UndoChanges
    <2>3. v.io = io /\ v.ctl = ctl /\ v.undo[j] = n
      BY <1>2, StateFields DEF States
    <2> HIDE DEF v
    <2>4. Stage(v, x) = "queue"
      <3>1. v.undo[j].ph = "queue"
        BY <2>1, <2>3
      <3> QED BY <3>1, TaskViews
    <2>5. Sound(Join(v, x), {} \ {x}) /\ OnlyLine(v, Join(v, x))
      BY <1>2, <2>2, <2>3, <2>4, JoinsFor DEF InLine, Holding
    <2>6. Sound(Join(v, x), {}) /\ Join(v, x).ctl = ctl
      BY <2>3, <2>5 DEF OnlyLine
    <2> QED BY <1>1, <1>3, <2>6, QuietKeeps
  <1>4. CASE Becomes(off)
    <2>1. Sound(off, {} \union {x})
      <3>1. IdleUndo.gen <= State.ctl.gen /\ IdleUndo.ph # "write"
        BY <1>2, IdleUndoIsUndo, StateFields
      <3> QED BY <1>2, <3>1, IdleUndoIsUndo, UndoChanges
    <2>2. off.io = io /\ off.ctl = ctl /\ off.undo[j] = IdleUndo
      BY <1>2, StateFields DEF States
    <2> HIDE DEF off
    <2>3. Stage(off, x) = "off"
      BY <2>2, IdleUndoIsUndo, TaskViews
    <2>4. Sound(off, {} \ {x})
      BY <1>2, <2>1, <2>2, <2>3, Arrives DEF InLine, Holding
    <2>5. Sound(off, {})
      BY <2>4
    <2> QED BY <1>1, <1>4, <2>2, <2>5, QuietKeeps
  <1> QED BY <1>1, <1>3, <1>4

\* A restoration at the head of the line is written if its generation is that of now.
LEMMA UndoEntersKeeps == ASSUME Inv, NEW j \in Jobs, UndoEnters(j) PROVE Keeps
  <1> DEFINE x == <<"undo", j>>
             n == [undo[j] EXCEPT !.ph = "write"]
             v == [State EXCEPT !.undo[j] = n]
             gone == Leave([State EXCEPT !.undo[j] = IdleUndo], x)
  <1>1. /\ undo[j].ph = "queue" /\ First(State, x) /\ Untouched
        /\ \/ ctl.gen = undo[j].gen /\ Becomes(v)
           \/ Becomes(gone)
    <2>1. [State EXCEPT !.undo[j].ph = "write"] = v
      BY SessionFacts, StateFields DEF States
    <2> QED BY <2>1, StateFields DEF UndoEnters, Inside, First, Restorable
  <1>2. /\ Sound(State, {}) /\ State \in States /\ x \in Tasks
        /\ undo[j] \in UndoStates /\ ctl.gen \in Nat
    BY SessionFacts, StateTypes, StateFields, TaskViews
  <1>3. CASE ctl.gen = undo[j].gen /\ Becomes(v)
    <2>1. n \in UndoStates /\ n.ph = "write" /\ n.gen = ctl.gen
      BY <1>2, <1>3 DEF UndoStates
    <2> HIDE DEF n
    <2>2. Sound(v, {} \union {x})
      <3>1. n.gen <= State.ctl.gen /\ State.ctl.published <= n.gen
        BY <1>2, <2>1, StateFields DEF Sound, Ordered
      <3>2. State.job[j].done
        BY <1>1, <1>2, StateFields DEF Sound, Told, Honest
      <3> QED BY <1>2, <2>1, <3>1, <3>2, UndoChanges
    <2>3. v.io = io /\ v.ctl = ctl /\ v.undo[j] = n
      BY <1>2, StateFields DEF States
    <2> HIDE DEF v
    <2>4. Stage(v, x) = "write"
      <3>1. v.undo[j].ph = "write"
        BY <2>1, <2>3
      <3> QED BY <3>1, TaskViews
    <2>5. x \in ToSet(v.io) /\ First(v, x)
      BY <1>1, <1>2, <2>3, HolderIsAlone, StateFields DEF First
    <2>6. Sound(v, {} \ {x})
      BY <2>2, <2>4, <2>5, Arrives DEF InLine
    <2>7. Sound(v, {})
      BY <2>6
    <2> QED BY <1>1, <1>3, <2>3, <2>7, QuietKeeps
  <1>4. CASE Becomes(gone)
    <2>1. Sound(gone, {}) /\ gone.ctl = ctl
      BY <1>2, UndoLeaves, StateFields
    <2> HIDE DEF gone
    <2> QED BY <1>1, <1>4, <2>1, QuietKeeps
  <1> QED BY <1>1, <1>3, <1>4

\* A restoration writes what the control accepted, which is of its page.
LEMMA UndoWrittenKeeps == ASSUME Inv, NEW j \in Jobs, UndoWritten(j) PROVE Keeps
  <1> DEFINE w == Restored(State, undo[j].gen)
             gone(t) == Leave([t EXCEPT !.undo[j] = IdleUndo], <<"undo", j>>)
  <1>1. \/ Becomes(gone(w)) /\ Shows(ctl.accepted, lost)
        \/ Becomes(gone(State)) /\ FailedWrite(ctl.accepted)
    BY DEF UndoWritten
  <1>2. Sound(State, {}) /\ Sound(w, {}) /\ w.ctl.published = ctl.published /\ w.bind = bind
    BY SessionFacts, RestoredKeeps, StateFields
  <1> HIDE DEF w
  <1>3. /\ Sound(gone(w), {}) /\ gone(w).ctl.published = ctl.published /\ gone(w).bind = bind
        /\ Sound(gone(State), {}) /\ gone(State).ctl.published = ctl.published
        /\ gone(State).bind = bind
    BY <1>2, UndoLeaves, StateFields
  <1> HIDE DEF gone
  <1>4. /\ shown' \in {shown, ctl.accepted} /\ lost' \subseteq Mishaps /\ ctl.published \in Nat
    BY <1>1, MishapsAreTyped, SessionFacts DEF FailedWrite, Shows, Inv
  <1> QED BY <1>1, <1>3, <1>4, AcceptedIsFresh, BecomesKeeps

----------------------------------------------------------------------------
(* The jobs of the provider *)

\* A message of a provider, or a direct output, is admitted or refused.
LEMMA AdmissionKeeps ==
    ASSUME Inv, NEW j \in Jobs, HandleRender(j) \/ DirectOutput(j)
    PROVE  Keeps
  <1>1. /\ job[j].ph = "new" /\ bind.act # None /\ Untouched
        /\ Becomes(Admit(State, j)) \/ Becomes(Refuse(State, j))
    BY DEF HandleRender, DirectOutput, AdmitDirect, Coming
  <1>2. Sound(State, {})
    BY SessionFacts
  <1>3. Sound(Admit(State, j), {}) /\ Admit(State, j).ctl.published = ctl.published
    BY <1>1, <1>2, AdmitKeeps
  <1>4. Sound(Refuse(State, j), {}) /\ Refuse(State, j).ctl.published = ctl.published
    BY <1>1, <1>2, RefuseKeeps, StateFields
  <1> QED BY <1>1, <1>3, <1>4, QuietKeeps

\* A job ends by itself, in line or not.
LEMMA FinishedKeeps ==
    ASSUME NEW t, NEW j \in Jobs, Sound(t, {<<"job", j>>}), t.job[j].ph # "new",
           NEW result \in Ends
    PROVE  LET u == End(Finish(t, j, result), j)
           IN Sound(u, {}) /\ u.ctl = t.ctl /\ u.bind = t.bind
  <1> DEFINE v == Finish(t, j, result)
  <1>1. Sound(v, {<<"job", j>>}) /\ Ended(t, v)
    <2>1. {<<"job", j>>} \in SUBSET {<<"job", j>>}
      OBVIOUS
    <2> QED BY <2>1, FinishKeeps
  <1> HIDE DEF v
  <1>2. Sound(End(v, j), {}) /\ Worked(v, End(v, j))
    BY <1>1, EndKeeps
  <1>3. Sound(End(v, j), {}) /\ End(v, j).ctl = t.ctl /\ End(v, j).bind = t.bind
    BY <1>1, <1>2 DEF Ended, Worked
  <1> QED BY <1>3 DEF v

\* A job that ends and is out of the line keeps the invariant.
LEMMA EndsWithKeeps ==
    ASSUME Inv, NEW STATE t, NEW j \in Jobs, Sound(t, {<<"job", j>>}), t.ctl = ctl,
           t.job[j].ph # "new", NEW result \in Ends, EndsWith(t, j, result)
    PROVE  Keeps
  <1> DEFINE u == End(Finish(t, j, result), j)
  <1>1. Sound(u, {}) /\ u.ctl = ctl
    BY FinishedKeeps
  <1>2. Becomes(u) /\ shown' = shown /\ lost' \subseteq Mishaps
    BY MishapsAreTyped DEF EndsWith, Shows, Inv, BaseIsCurrent
  <1> HIDE DEF u
  <1> QED BY <1>1, <1>2, SessionFacts, BecomesKeeps

\* A job that goes on keeps the invariant.
LEMMA LoopKeeps ==
    ASSUME Inv, NEW STATE t, NEW j \in Jobs, Sound(t, {<<"job", j>>}), t.ctl = ctl,
           t.job[j].ph \notin {"new", "end"}, <<"job", j>> \notin ToSet(t.io), Turn(t, j)
    PROVE  Keeps
  <1>1. CASE EndsWith(t, j, "superseded")
    <2>1. "superseded" \in Ends
      BY DEF Ends
    <2> QED BY <1>1, <2>1, EndsWithKeeps
  <1>2. CASE Becomes(Compose(t, j)) /\ Untouched
    <2>1. Sound(Compose(t, j), {}) /\ Compose(t, j).ctl = ctl
      BY ComposeKeeps DEF Worked
    <2> QED BY <1>2, <2>1, QuietKeeps
  <1> QED BY <1>1, <1>2 DEF Turn

\* A job in a stage before the line.
LEMMA JobNotInLine ==
    ASSUME Inv, NEW j \in Jobs, job[j].ph \in {"content", "compose"}
    PROVE  /\ Sound(State, {}) /\ Sound(State, {<<"job", j>>})
           /\ <<"job", j>> \notin ToSet(State.io)
           /\ State.ctl = ctl /\ State.job[j].ph \notin {"new", "end"}
           /\ State.job[j].ph # "new" /\ "failed" \in Ends /\ "superseded" \in Ends
           /\ "dispatched" \in Ends
  <1>1. Sound(State, {}) /\ Sound(State, {<<"job", j>>})
    BY SessionFacts, LooserSound
  <1>2. <<"job", j>> \in Tasks /\ Stage(State, <<"job", j>>) = job[j].ph
    BY StateFields, TaskViews
  <1>3. <<"job", j>> \notin ToSet(State.io)
    BY <1>1, <1>2, NotInLine DEF InLine
  <1> QED BY <1>1, <1>3, StateFields DEF Ends

\* A job whose content is ready goes on to compose; one whose content failed ends.
LEMMA JobComputesKeeps == ASSUME Inv, NEW j \in Jobs, JobComputes(j) PROVE Keeps
  <1>1. job[j].ph \in {"content", "compose"} /\ (Turn(State, j) \/ EndsWith(State, j, "failed"))
    BY DEF JobComputes
  <1> QED BY <1>1, JobNotInLine, LoopKeeps, EndsWithKeeps

\* A composed frame stands in line.
LEMMA JobComposedKeeps == ASSUME Inv, NEW j \in Jobs, JobComposed(j) PROVE Keeps
  <1>1. /\ job[j].ph \in {"content", "compose"}
        /\ \/ Becomes(Ready(State, j)) /\ Untouched
           \/ EndsWith(State, j, "superseded")
           \/ EndsWith(State, j, "failed")
    BY DEF JobComposed
  <1>2. CASE Becomes(Ready(State, j)) /\ Untouched
    <2>1. Sound(Ready(State, j), {}) /\ Ready(State, j).ctl = ctl
      BY <1>1, JobNotInLine, ReadyKeeps DEF Worked
    <2> QED BY <1>2, <2>1, QuietKeeps
  <1> QED BY <1>1, <1>2, JobNotInLine, EndsWithKeeps

\* A job at the head of the line sends if it may still; else it composes again or ends.
LEMMA JobHandsOffKeeps == ASSUME Inv, NEW j \in Jobs, JobHandsOff(j) PROVE Keeps
  <1> DEFINE x == <<"job", j>>
             r == [job[j] EXCEPT !.ph = "send", !.command = IF @ = "none" THEN "sent" ELSE @]
             u == [State EXCEPT !.job[j] = r]
             gone == Leave(State, x)
  <1>1. /\ job[j].ph = "queue" /\ ~job[j].done /\ First(State, x)
        /\ \/ /\ Allowed(j) /\ BaseIsCurrent(State, j) /\ job[j].rev = ctl.gen
              /\ Becomes(u) /\ Untouched
           \/ Turn(gone, j)
    <2>1. [State EXCEPT !.job[j].ph = "send",
                        !.job[j].command = IF @ = "none" THEN "sent" ELSE @] = u
      BY ZenonT(60), SessionFacts, StateFields DEF States
    <2> QED BY <2>1, StateFields DEF JobHandsOff, Inside, First
  <1>2. /\ Sound(State, {}) /\ State \in States /\ x \in Tasks
        /\ job[j] \in JobStates /\ ctl.gen \in Nat
    BY SessionFacts, StateTypes, StateFields, TaskViews
  <1>3. CASE /\ Allowed(j) /\ BaseIsCurrent(State, j) /\ job[j].rev = ctl.gen
             /\ Becomes(u) /\ Untouched
    <2>1. /\ r \in JobStates /\ r.ph = "send" /\ r.b = job[j].b /\ r.rev = ctl.gen
          /\ r.done = job[j].done /\ ~r.done
      BY <1>1, <1>2, <1>3 DEF JobStates
    <2>2. r.b # None /\ Fresh(State, r.b)
      <3>1. job[j].b # None
        BY <1>1, <1>2, StateFields DEF Sound, Told, Honest
      <3>2. ctl.own = job[j].b
        BY <1>3, StateFields DEF BaseIsCurrent
      <3>3. Fresh(State, ctl.own)
        BY <1>2, StateFields DEF Sound, Belongs
      <3> QED BY <2>1, <3>1, <3>2, <3>3
    <2> HIDE DEF r
    <2>3. Sound(u, {} \union {x}) /\ u.ctl = ctl /\ u.io = io /\ u.job = [job EXCEPT ![j] = r]
      <3>1. /\ r.ph # "new" /\ r.done = State.job[j].done /\ r.b = State.job[j].b
            /\ r.rev <= State.ctl.gen /\ State.ctl.published <= r.rev
        BY <1>2, <2>1, StateFields DEF Sound, Ordered
      <3> QED BY <1>2, <2>1, <2>2, <3>1, StateFields, JobMoves
    <2> HIDE DEF u
    <2>4. Stage(u, x) = "send"
      <3>1. u.job[j].ph = "send"
        BY <1>2, <2>1, <2>3, StateFields DEF States
      <3> QED BY <3>1, TaskViews
    <2>5. x \in ToSet(u.io) /\ First(u, x)
      BY <1>1, <1>2, <2>3, HolderIsAlone, StateFields DEF First
    <2>6. Sound(u, {} \ {x})
      BY <2>3, <2>4, <2>5, Arrives DEF InLine
    <2>7. Sound(u, {})
      BY <2>6
    <2> QED BY <1>3, <2>3, <2>7, QuietKeeps
  <1>4. CASE Turn(gone, j)
    <2>1. /\ Sound(gone, {} \union {x}) /\ x \notin ToSet(gone.io)
          /\ gone.ctl = ctl /\ gone.job = job
      BY <1>2, LeaveKeeps, StateFields DEF OnlyLine
    <2> HIDE DEF gone
    <2>2. Sound(gone, {x}) /\ gone.job[j].ph \notin {"new", "end"}
      BY <1>1, <2>1
    <2> QED BY <1>4, <2>1, <2>2, LoopKeeps
  <1> QED BY <1>1, <1>3, <1>4

\* A job that sends shows the frame of its binding.
LEMMA SentFrame ==
    ASSUME Inv, NEW j \in Jobs, job[j].ph = "send"
    PROVE  LET w == [State EXCEPT !.ctl.published = job[j].rev]
           IN /\ \/ JobFrame(job[j], j).own = None \/ JobFrame(job[j], j).own > bind.wiped
                 \/ clear.ph # "idle"
              /\ Sound(w, {}) /\ w.ctl.published >= ctl.published
              /\ w.job = job /\ w.bind = bind
  <1> DEFINE x == <<"job", j>>
             w == [State EXCEPT !.ctl.published = job[j].rev]
  <1>1. /\ Sound(State, {}) /\ x \in Tasks /\ Stage(State, x) = "send"
        /\ Gen(State, x) = job[j].rev /\ Owner(State, x) = job[j].b
    BY SessionFacts, StateFields, TaskViews
  <1>2. /\ job[j].rev \in Nat /\ ctl.published <= job[j].rev
        /\ Fresh(State, job[j].b) \/ clear.ph # "idle"
        /\ Sound(w, {}) /\ w.ctl = [ctl EXCEPT !.published = job[j].rev]
        /\ w.job = job /\ w.bind = bind
    BY <1>1, WriterPublishes DEF Writing
  <1> HIDE DEF w
  <1>3. w.ctl.published = job[j].rev
    BY <1>2, SessionFacts, StateFields DEF Sound, States, Controls
  <1>4. JobFrame(job[j], j).own \in {None, job[j].b}
    BY SessionFacts, StateFields, StateTypes, JobFrameIsFrame DEF FrameOf
  <1>5. \/ JobFrame(job[j], j).own = None \/ JobFrame(job[j], j).own > bind.wiped
        \/ clear.ph # "idle"
    BY <1>2, <1>4, StateFields DEF Fresh
  <1> QED BY <1>2, <1>3, <1>5, SessionFacts DEF w

\* A job publishes the revision it sent, and its base is accepted; one that could not
\* be sent publishes nothing.
LEMMA JobSentKeeps == ASSUME Inv, NEW j \in Jobs, JobSent(j) PROVE Keeps
  <1> DEFINE x == <<"job", j>>
             w == [State EXCEPT !.ctl.published = job[j].rev]
             v == Accept(w, j)
             u == End(Finish(v, j, "dispatched"), j)
             failed == IF BaseIsCurrent(State, j) THEN "failed" ELSE "superseded"
             mishaps == MendedIf(BaseIsCurrent(State, j) /\ ctl.gen = job[j].rev)
                            \union {m \in {"undercut"} : Undercut(j)}
                            \union {m \in {"stranded"} : Stranded(State, j)}
  <1>1. /\ job[j].ph = "send"
        /\ \/ /\ Becomes(u)
              /\ Shows(JobFrame(job[j], j), mishaps)
           \/ /\ Becomes(End(Finish(State, j, failed), j))
              /\ Shows(shown, FailedIf(BaseIsCurrent(State, j)))
    BY DEF JobSent
  <1>2. /\ \/ JobFrame(job[j], j).own = None \/ JobFrame(job[j], j).own > bind.wiped
           \/ clear.ph # "idle"
        /\ Sound(w, {}) /\ w.ctl.published >= ctl.published /\ w.job = job /\ w.bind = bind
    BY <1>1, SentFrame
  <1> HIDE DEF w
  <1>3. /\ Sound(v, {}) /\ v.ctl.published = w.ctl.published /\ v.job = job /\ v.bind = bind
    <2>1. w.job[j].ph \notin {"new", "end"}
      BY <1>1, <1>2
    <2> QED BY <1>2, <2>1, AcceptKeeps
  <1> HIDE DEF v
  <1>4. "dispatched" \in Ends /\ failed \in Ends
    BY DEF Ends
  <1> HIDE DEF failed
  <1>5. Sound(u, {}) /\ u.ctl = v.ctl /\ u.bind = bind
    <2>1. Sound(v, {x}) /\ v.job[j].ph # "new"
      BY <1>1, <1>3, LooserSound
    <2> QED BY <1>3, <1>4, <2>1, FinishedKeeps
  <1> HIDE DEF u
  <1>6. CASE /\ Becomes(u)
             /\ Shows(JobFrame(job[j], j), mishaps)
    <2>1. shown' = JobFrame(job[j], j) /\ lost' \subseteq Mishaps
      BY <1>6, MishapsAreTyped DEF Shows, Inv, Mishaps
    <2> QED BY <1>2, <1>3, <1>5, <1>6, <2>1, BecomesKeeps
  <1>7. CASE /\ Becomes(End(Finish(State, j, failed), j))
             /\ Shows(shown, FailedIf(BaseIsCurrent(State, j)))
    <2> DEFINE q == End(Finish(State, j, failed), j)
    <2>1. Sound(q, {}) /\ q.ctl = ctl
      <3>1. Sound(State, {x}) /\ State.job[j].ph # "new"
        BY <1>1, SessionFacts, StateFields, LooserSound
      <3> QED BY <1>4, <3>1, FinishedKeeps, StateFields
    <2>2. Becomes(q) /\ shown' = shown /\ lost' \subseteq Mishaps
      BY <1>7, MishapsAreTyped DEF Shows, Inv
    <2> HIDE DEF q
    <2> QED BY <2>1, <2>2, SessionFacts, BecomesKeeps
  <1> QED BY <1>1, <1>6, <1>7

\* A job that was told meanwhile stops; what it was sending may be published, and is
\* not older than what is.
LEMMA JobUnwindsKeeps == ASSUME Inv, NEW j \in Jobs, JobUnwinds(j) PROVE Keeps
  <1> DEFINE w(gen) == [State EXCEPT !.ctl.published = gen]
  <1>1. \/ Becomes(End(State, j)) /\ Untouched
        \/ /\ job[j].ph = "send" /\ Shows(JobFrame(job[j], j), lost)
           /\ \E gen \in {ctl.published, job[j].rev} : Becomes(End(w(gen), j))
    BY DEF JobUnwinds
  <1>2. ASSUME NEW t, Sound(t, {})
        PROVE  Sound(End(t, j), {}) /\ End(t, j).ctl = t.ctl /\ End(t, j).bind = t.bind
    <2>1. Sound(t, {<<"job", j>>})
      BY <1>2, LooserSound
    <2> QED BY <2>1, EndKeeps DEF Worked
  <1>3. Sound(State, {})
    BY SessionFacts
  <1>4. CASE Becomes(End(State, j)) /\ Untouched
    BY <1>2, <1>3, <1>4, StateFields, QuietKeeps
  <1>5. CASE /\ job[j].ph = "send" /\ Shows(JobFrame(job[j], j), lost)
             /\ \E gen \in {ctl.published, job[j].rev} : Becomes(End(w(gen), j))
    <2>1. PICK gen \in {ctl.published, job[j].rev} : Becomes(End(w(gen), j))
      BY <1>5
    <2>2. /\ \/ JobFrame(job[j], j).own = None \/ JobFrame(job[j], j).own > bind.wiped
             \/ clear.ph # "idle"
          /\ Sound(w(job[j].rev), {}) /\ w(job[j].rev).ctl.published >= ctl.published
          /\ w(job[j].rev).bind = bind
      BY <1>5, SentFrame
    <2>3. w(ctl.published) = State
      BY SessionFacts, StateFields DEF States, Controls
    <2>4. Sound(w(gen), {}) /\ w(gen).ctl.published >= ctl.published /\ w(gen).bind = bind
      BY <1>3, <2>1, <2>2, <2>3, StateFields, SessionFacts
    <2> HIDE DEF w
    <2>5. Sound(End(w(gen), j), {}) /\ End(w(gen), j).ctl = w(gen).ctl /\ End(w(gen), j).bind = bind
      BY <1>2, <2>4
    <2>6. shown' = JobFrame(job[j], j) /\ lost' \subseteq Mishaps
      BY <1>5 DEF Shows, Inv
    <2> QED BY <2>1, <2>2, <2>4, <2>5, <2>6, BecomesKeeps
  <1> QED BY <1>1, <1>4, <1>5

\* A job whose message expired is told so, wherever it is.
LEMMA ExpireKeeps == ASSUME Inv, NEW j \in Jobs, Expire(j) PROVE Keeps
  <1> DEFINE u == Finish(State, j, "failed")
  <1>1. job[j].ph # "new" /\ Becomes(u) /\ shown' = shown /\ lost' \subseteq Mishaps
    BY MishapsAreTyped DEF Expire, Working, Shows, Inv
  <1>2. Sound(u, {}) /\ u.ctl = ctl
    <2>1. /\ {} \in SUBSET {<<"job", j>>} /\ "failed" \in Ends
          /\ Sound(State, {}) /\ State.job[j].ph # "new"
      BY <1>1, SessionFacts, StateFields DEF Ends
    <2> QED BY <2>1, FinishKeeps, StateFields DEF Ended
  <1> HIDE DEF u
  <1> QED BY <1>1, <1>2, SessionFacts, BecomesKeeps

\* A rejection of the hardware follows what the provider was told, or waits for it.
LEMMA HardwareRejectsKeeps == ASSUME Inv, NEW j \in Jobs, HardwareRejects(j) PROVE Keeps
  <1> DEFINE x == <<"job", j>>
             r == [job[j] EXCEPT !.command = "rejected"]
             q == IF job[j].done THEN Append(results[j], "hardware") ELSE results[j]
             u == [State EXCEPT !.job[j] = r, !.results[j] = q]
  <1>1. /\ job[j].command = "sent" /\ j \notin DirectJobs /\ Becomes(u) /\ Untouched
    <2>1. [State EXCEPT !.job[j].command = "rejected",
                        !.results[j] = IF job[j].done THEN Append(@, "hardware") ELSE @] = u
      BY SessionFacts, StateFields DEF States
    <2> QED BY <2>1 DEF HardwareRejects, Rejectable
  <1>2. /\ Sound(State, {}) /\ State \in States /\ x \in Tasks
        /\ job[j] \in JobStates /\ results[j] \in Seq(Replies)
    BY SessionFacts, StateTypes, StateFields, TaskViews DEF States
  <1>3. Honest(j, job[j], results[j], feed[j], undo[j].ph)
    BY <1>2, StateFields DEF Sound, Told
  <1>4. /\ r \in JobStates /\ r.ph = job[j].ph /\ r.b = job[j].b /\ r.rev = job[j].rev
        /\ r.done = job[j].done /\ r.command = "rejected"
    BY <1>2 DEF JobStates
  <1>5. q \in Seq(Replies)
    <2>1. "hardware" \in Replies
      BY DEF Replies
    <2> QED BY <1>2, <2>1
  <1>6. Honest(j, r, q, feed[j], undo[j].ph)
    <2>1. r.ph # "new"
      BY <1>1, <1>3, <1>4 DEF Honest
    <2>2. CASE ~job[j].done
      BY <1>3, <1>4, <2>1, <2>2 DEF Honest
    <2>3. CASE job[j].done
      <3>1. PICK e \in Ends : results[j] = <<e>>
        BY <1>1, <1>3, <2>3 DEF Honest
      <3>2. q = <<e, "hardware">>
        <4>1. e \in Replies /\ "hardware" \in Replies
          BY DEF Ends, Replies
        <4>2. Append(<<e>>, "hardware") = <<e, "hardware">>
          BY <4>1, AppendToOne
        <4> QED BY <2>3, <3>1, <4>2
      <3> HIDE DEF q, r
      <3> QED BY <1>3, <1>4, <2>1, <2>3, <3>2 DEF Honest
    <2> QED BY <2>2, <2>3
  <1> HIDE DEF r, q
  <1>7. Sound(u, {} \union {x})
    <2>1. r.rev <= State.ctl.gen
      BY <1>2, <1>4, StateFields, TaskViews DEF Sound, Ordered
    <2>2. r.ph \in Writing => /\ State.ctl.published <= r.rev
                              /\ Fresh(State, r.b) \/ State.clear.ph # "idle"
      BY <1>2, <1>4, StateFields, TaskViews DEF Sound, Ordered, Belongs
    <2> QED BY ZenonT(60), <1>2, <1>4, <1>5, <1>6, <2>1, <2>2, StateFields, JobChanges
  <1>8. u.ctl = ctl /\ u.io = io /\ u.job[j] = r
    BY <1>2, StateFields DEF States
  <1> HIDE DEF u
  <1>9. Sound(u, {})
    <2>1. Stage(u, x) = Stage(State, x)
      BY <1>4, <1>8, StateFields, TaskViews
    <2> QED BY <1>2, <1>7, <1>8, <2>1, StateFields, StageKept
  <1> QED BY <1>1, <1>8, <1>9, QuietKeeps

----------------------------------------------------------------------------
(* The theorems *)

\* Every step keeps the invariant, publishes in order and shows no old pixels.
LEMMA StepKeeps == ASSUME Inv, Next PROVE Keeps
  <1>1. CASE Session
    BY <1>1, PageTurnsKeeps, ReplacedKeeps, AttachKeeps, RefreshKeeps, ReactivateKeeps,
       ShowOverlayKeeps, SetContentKeeps, EndOverlayKeeps, LapseKeeps DEF Session
  <1>2. CASE ClearStep
    BY <1>2, ClearPopsKeeps, ClearEntersKeeps, ClearWrittenKeeps DEF ClearStep
  <1>3. ASSUME NEW k \in Runs, RunStep(k) PROVE Keeps
    BY <1>3, RunRendersKeeps, RunAppliesKeeps, RunWrittenKeeps, RunSettlesKeeps,
       RunRestoredKeeps DEF RunStep
  <1>4. ASSUME NEW j \in Jobs, HandleRender(j) \/ DirectOutput(j) PROVE Keeps
    BY <1>4, AdmissionKeeps
  <1>5. ASSUME NEW j \in Jobs, JobStep(j) PROVE Keeps
    BY <1>5, JobComputesKeeps, JobComposedKeeps, JobHandsOffKeeps, JobSentKeeps,
       JobUnwindsKeeps DEF JobStep
  <1>6. ASSUME NEW j \in Jobs, UndoStep(j) PROVE Keeps
    BY <1>6, UndoBeginsKeeps, UndoEntersKeeps, UndoWrittenKeeps DEF UndoStep
  <1>7. ASSUME NEW j \in Jobs, Expire(j) \/ HardwareRejects(j) PROVE Keeps
    BY <1>7, ExpireKeeps, HardwareRejectsKeeps
  <1>8. ASSUME NEW z \in Feeds, FeedStep(z) PROVE Keeps
    BY <1>8, FeedFiresKeeps, FeedEntersKeeps, FeedWrittenKeeps DEF FeedStep
  <1> QED BY <1>1, <1>2, <1>3, <1>4, <1>5, <1>6, <1>7, <1>8 DEF Next

\* A step that changes nothing does too.
LEMMA StutterKeeps == ASSUME Inv, UNCHANGED vars PROVE Keeps
  <1>1. Becomes(State) /\ Untouched
    BY StateFields DEF Becomes, Untouched, vars
  <1> QED BY <1>1, SessionFacts, StateFields, QuietKeeps

\* The invariant holds at first.
LEMMA InitInv == Init => Inv
  <1> SUFFICES ASSUME Init PROVE Inv
    OBVIOUS
  <1> DEFINE t == State
  <1>1. /\ t.ctl = [gen |-> 0, published |-> 0, base |-> 0, own |-> None,
                    pending |-> NoRequest, accepted |-> Blank, provisional |-> FALSE,
                    cancelled |-> {}]
        /\ t.io = <<>> /\ t.run = [k \in Runs |-> IdleRun]
        /\ t.clear = [ph |-> "idle", gen |-> 0, pending |-> 0]
        /\ t.job = [j \in Jobs |-> NewJob] /\ t.results = [j \in Jobs |-> <<>>]
        /\ t.feed = [x \in Feeds |-> IdleFeed]
        /\ t.undo = [j \in Jobs |-> IdleUndo]
        /\ t.store = [b \in Bindings |-> [base |-> None, ov |-> None]]
        /\ t.bind = [last |-> None, cur |-> None, act |-> None, wiped |-> None, agreed |-> TRUE]
        /\ t.left \in Budget
    BY StateFields, DispatcherAssumption DEF Init
  <1>2. /\ NewJob \in JobStates /\ NewJob.ph = "new" /\ NewJob.rev = 0 /\ NewJob.b = None
        /\ NewJob.done = FALSE /\ NewJob.command = "none"
    BY SmallOwners DEF NewJob, JobStates, None
  <1>3. /\ IdleFeed \in FeedStates /\ IdleFeed.ph = "off" /\ IdleFeed.gen = 0
        /\ IdleFeed.own = None
    BY SmallOwners DEF IdleFeed, FeedStates
  <1>4. /\ IdleRun \in RunStates /\ IdleRun.ph = "idle" /\ IdleRun.req = NoRequest
    BY NoRequestIsRequest DEF IdleRun, RunStates
  <1>5. t.ctl \in Controls
    BY <1>1, SmallOwners, NoRequestIsRequest, BlankIsFrame DEF Controls
  <1>6. t \in States
    <2>1. /\ t.ctl \in Controls /\ t.io \in Seq(Tasks) /\ t.run \in [Runs -> RunStates]
          /\ t.clear \in [ph : {"idle", "start", "queue", "write"}, gen : Nat, pending : Nat]
          /\ t.job \in [Jobs -> JobStates] /\ t.results \in [Jobs -> Seq(Replies)]
          /\ t.feed \in [Feeds -> FeedStates] /\ t.undo \in [Jobs -> UndoStates]
          /\ t.store \in [Bindings -> [base : Bases, ov : Int]]
          /\ t.bind \in [last : Owners, cur : Owners, act : Owners, wiped : Owners,
                         agreed : BOOLEAN]
      BY <1>1, <1>2, <1>3, <1>4, <1>5, IdleUndoIsUndo, SmallOwners DEF Bases, None
    <2>2. State = [ctl |-> t.ctl, io |-> t.io, run |-> t.run, clear |-> t.clear, job |-> t.job,
                   results |-> t.results, feed |-> t.feed, undo |-> t.undo, store |-> t.store,
                   bind |-> t.bind, left |-> t.left]
      BY StateFields DEF State
    <2> HIDE DEF t
    <2>3. t \in States
      BY <1>1, <2>1, <2>2 DEF States, t
    <2> QED BY <2>3 DEF t
  <1> HIDE DEF t
  <1>7. ASSUME NEW x \in Tasks
        PROVE  Stage(t, x) \in {"idle", "new", "off"} /\ Gen(t, x) = 0
    <2>1. ASSUME NEW k \in Runs PROVE t.run[k].ph = "idle" /\ t.run[k].req.gen = 0
      BY <1>1, <1>4, NoRequestIsRequest
    <2>2. ASSUME NEW j \in Jobs
          PROVE  t.job[j] = NewJob /\ t.undo[j] = IdleUndo
      BY <1>1
    <2>3. ASSUME NEW z \in Feeds PROVE t.feed[z] = IdleFeed
      BY <1>1
    <2>4. t.clear.ph = "idle" /\ t.clear.gen = 0
      BY <1>1
    <2>5. CASE \E k \in Runs : x = <<"run", k>>
      BY <2>5, <2>1, TaskViews
    <2>6. CASE x = <<"clear", 0>>
      BY <2>6, <2>4, TaskViews
    <2>7. CASE \E j \in Jobs : x = <<"job", j>>
      BY <2>7, <1>2, <2>2, TaskViews
    <2>8. CASE \E z \in Feeds : x = <<"feed", z>>
      BY <2>8, <1>3, <2>3, TaskViews
    <2>9. CASE \E j \in Jobs : x = <<"undo", j>>
      BY <2>9, <2>2, IdleUndoIsUndo, TaskViews
    <2> QED BY <2>5, <2>6, <2>7, <2>8, <2>9, TaskKinds
  <1>8. Line(t, {})
    BY <1>1, <1>7 DEF Line, InLine, Holding, ToSet, IsInjective
  <1>9. Ordered(t)
    BY <1>1, <1>7 DEF Ordered, Writing
  <1>10. Belongs(t)
    <2>1. /\ t.bind.act = None /\ t.bind.cur = None /\ t.bind.wiped = 0 /\ t.bind.last = 0
          /\ t.ctl.own = None /\ t.ctl.accepted = Blank /\ t.ctl.gen = 0
      BY <1>1 DEF None
    <2>2. t.bind.last + t.left.bindings <= MaxBindings
      <3>1. t.left.bindings \in 0..MaxBindings
        BY <1>1 DEF Budget
      <3> QED BY <2>1, <3>1, DispatcherAssumption
    <2>3. \A k \in Runs : /\ FrameOf(t.run[k].req.frame, t.run[k].req.own)
                          /\ OfOwner(t, t.run[k].req.gen, t.run[k].req.own)
      <3>1. \A k \in Runs : t.run[k].req = NoRequest
        BY <1>1, <1>4
      <3>2. NoRequest.frame = Blank /\ NoRequest.own = None /\ NoRequest.gen = 0
        BY DEF NoRequest
      <3> QED BY <2>1, <3>1, <3>2, BlankIsFrame DEF FrameOf, OfOwner
    <2>4. \A z \in Feeds : OfOwner(t, t.feed[z].gen, t.feed[z].own)
      BY <1>1, <1>3, <2>1 DEF OfOwner
    <2>5. \A x \in Tasks : Stage(t, x) \notin Writing
      BY <1>7 DEF Writing
    <2> QED BY <2>1, <2>2, <2>3, <2>4, <2>5, BlankIsFrame DEF Belongs, Fresh, None
  <1>11. Expected(t)
    BY <1>1 DEF Expected, None
  <1>12. Told(t)
    <2> SUFFICES ASSUME NEW j \in Jobs
                 PROVE  Honest(j, t.job[j], t.results[j], t.feed[j], t.undo[j].ph)
      BY DEF Told
    <2>1. t.job[j] = NewJob /\ t.results[j] = <<>> /\ t.feed[j] = IdleFeed /\ t.undo[j] = IdleUndo
      BY <1>1
    <2> QED BY <1>2, <1>3, <2>1, IdleUndoIsUndo DEF Honest
  <1>13. lost \subseteq Mishaps
    BY DEF Init
  <1> QED BY <1>6, <1>8, <1>9, <1>10, <1>11, <1>12, <1>13 DEF Inv, Sound, t

\* The dispatcher keeps its line, its order and its account of the results, whatever
\* messages, bindings, pages and failures come.
THEOREM DispatcherInvariant == Spec => []Inv
  <1>1. Inv /\ [Next]_vars => Inv'
    BY StepKeeps, StutterKeeps DEF Keeps
  <1> QED BY <1>1, InitInv, PTL DEF Spec

\* Each message gets at most one result of the controller (_finish is once only, and an
\* admission that was refused never becomes a job), and what the hardware says follows.
THEOREM OneResultEach == Spec => []OneResult
  <1>1. Inv => OneResult
    <2> SUFFICES ASSUME Inv, NEW j \in Jobs
                 PROVE  results[j] \in {<<>>}
                            \union {<<r>> : r \in {"rejected", "dispatched", "superseded", "failed"}}
                            \union {<<r, "hardware">> : r \in {"dispatched", "superseded", "failed"}}
      BY DEF OneResult
    <2>1. Honest(j, job[j], results[j], feed[j], undo[j].ph)
      BY SessionFacts, StateFields DEF Sound, Told
    <2> QED BY <2>1 DEF Honest, Ends
  <1> QED BY <1>1, DispatcherInvariant, PTL

\* Output is published in the order it was requested: whoever holds the output brings
\* nothing older than what is on the control.
THEOREM OutputInOrder == Spec => PublishedInOrder
  <1>1. Inv /\ [Next]_vars => [ctl'.published >= ctl.published]_vars
    BY StepKeeps, StutterKeeps DEF Keeps
  <1> QED BY <1>1, DispatcherInvariant, PTL DEF Spec, PublishedInOrder

\* Pixels of an earlier page reach the control only ahead of the clear that page ended
\* with: a render, a job or an indicator that is late is written before the clear.
THEOREM PagesEndWithTheirClear == Spec => NoOldPixels
  <1>1. Inv /\ [Next]_vars => [(shown' # shown /\ shown'.own # None) =>
                                  \/ shown'.own > bind'.wiped
                                  \/ clear.ph # "idle"]_vars
    BY StepKeeps, StutterKeeps DEF Keeps
  <1> QED BY <1>1, DispatcherInvariant, PTL DEF Spec, NoOldPixels

\* A request that waits has a render task that will take it, and a clear that waits has
\* the task that performs it; an authority is that of the installed binding.
THEOREM NobodyIsForgotten == Spec => [](TypeOK /\ NobodyForgotten)
  <1>1. Inv => TypeOK /\ NobodyForgotten
    <2> SUFFICES ASSUME Inv PROVE TypeOK /\ NobodyForgotten
      OBVIOUS
    <2>1. NobodyForgotten
      BY SessionFacts, StateFields DEF Sound, Expected, NobodyForgotten
    <2>2. /\ ctl.gen \in Nat /\ ctl.published \in 0..ctl.gen /\ ctl.own \in 0..MaxBindings
          /\ bind.act \in {None, bind.cur} /\ lost \subseteq Mishaps
      <3>1. ctl.published <= ctl.gen /\ ctl.own \in Owners
        BY SessionFacts, StateFields DEF Sound, Ordered, States, Controls
      <3> QED BY <3>1, SessionFacts DEF Owners, Inv
    <2>3. \A k \in Runs : run[k].ph \in {"idle", "render", "apply", "write", "settle", "restore"}
      BY SessionFacts, StateFields, StateTypes DEF RunStates
    <2>4. clear.ph \in {"idle", "start", "queue", "write"}
      BY SessionFacts, StateFields DEF States
    <2>5. \A j \in Jobs :
            /\ job[j].ph \in {"new", "content", "compose", "queue", "send", "end"}
            /\ undo[j].ph \in {"off", "start", "queue", "write"}
      BY SessionFacts, StateFields, StateTypes DEF JobStates, UndoStates
    <2>6. \A x \in Feeds : feed[x].ph \in {"off", "timer", "queue", "write"}
      BY SessionFacts, StateFields, StateTypes DEF FeedStates
    <2> QED BY <2>1, <2>2, <2>3, <2>4, <2>5, <2>6 DEF TypeOK
  <1> QED BY <1>1, DispatcherInvariant, PTL

=============================================================================
