-------------------------- MODULE MCRenderDispatcher --------------------------
(* Small instances of RenderDispatcher. *)
EXTENDS RenderDispatcher

of(jobs, slow, bindings, overlays, contents, turns, faults) ==
    [jobs |-> jobs, slow |-> slow, bindings |-> bindings, overlays |-> overlays,
     contents |-> contents, turns |-> turns, faults |-> faults, failing |-> TRUE]

\* A base, a clear and an overlay, where nothing fails.
ClearBudgets == {[of({12, 13}, {}, 1, 1, 0, 1, FALSE) EXCEPT !.failing = FALSE]}

\* What happens in a behaviour: much of one kind, and some of each other.
MCBudgets ==
    ClearBudgets \union
       {of({11}, {}, 2, 0, 0, 2, FALSE), of({11}, {}, 1, 0, 0, 2, TRUE),
        of({11}, {11, 1}, 1, 1, 0, 1, FALSE), of({12}, {}, 1, 1, 0, 1, FALSE),
        of({12, 13}, {}, 1, 0, 0, 1, TRUE), of({}, {1}, 1, 1, 2, 1, FALSE)}

\* Generations are only compared: what counts is their order.  Tickets are only
\* compared with the base revision.  What is left of a job that ended and has
\* nothing to restore is not read.
Canonical ==
    LET gens == {0, ctl.gen, ctl.published, ctl.pending.gen, clear.gen, clear.pending}
                  \union {run[k].req.gen : k \in Runs}
                  \union {feed[x].gen : x \in Feeds}
                  \union {undo[j].gen : j \in Jobs}
                  \union {job[j].rev : j \in {i \in Jobs : Working(i)}}
        rank(g) == Cardinality({h \in gens : h < g})
        ticket(j) == IF Working(j) \/ undo[j].ph # "off" THEN job[j].ticket = ctl.base
                     ELSE FALSE
        seen(j) == IF Working(j)
                   THEN [job[j] EXCEPT !.rev = rank(@), !.ticket = ticket(j)]
                   ELSE <<job[j].ph, job[j].command, job[j].done, ticket(j)>>
    IN <<[ctl EXCEPT !.gen = rank(@), !.published = rank(@), !.base = 0,
                     !.pending = [@ EXCEPT !.gen = rank(@)]],
         io, [k \in Runs |-> [run[k] EXCEPT !.req.gen = rank(@)]],
         [clear EXCEPT !.gen = IF clear.ph = "idle" THEN 0 ELSE rank(@), !.pending = rank(@)],
         [j \in Jobs |-> seen(j)], results,
         [x \in Feeds |-> [feed[x] EXCEPT !.gen = rank(@)]],
         [j \in Jobs |-> [undo[j] EXCEPT !.gen = rank(@)]],
         store, bind, shown, left, lost>>
==============================================================================
