------------------------- MODULE MCBindingLifecycle -------------------------
(* Small instances of BindingLifecycle: two pages that bind one or two       *)
(* controls to one shared instance.                                          *)
EXTENDS BindingLifecycle

CONSTANTS c1, c2, i1, home, menu

UnequalPages == [g \in Pages |-> IF g = home THEN <<c1, c2>> ELSE <<c2>>]
SharedInstance == [g \in Pages |-> [c \in Controls |-> i1]]
RenewalAndReconnection == <<1, 1, 2>>

Scenario(pages, kinds) == [pages |-> pages, kinds |-> kinds]

\* One control under what the catalog, the provider and the deadlines do; under
\* what messages and hardware do; and two controls of pages that change.
MCScenarios ==
    {Scenario({menu}, {"agreement", "catalog", "stall"}),
     Scenario({menu}, {"loss", "rejection", "hardware", "agreement"}),
     Scenario({home, menu}, {"config"})}

Stalls == {Scenario({menu}, {"stall"})}

\* States that differ only in the numbers of operations and records, or in what
\* is left of an identity that is free again, have the same behaviours and the
\* same properties: TLC visits one of them.
Canonical ==
    LET free == FreeIds(s)
        effect(i, e) == [e EXCEPT !.op = <<e.op, e.b>> \in s.ops,
                                  !.meta = e.meta = s.rec[i].meta]
        blank(f, none) == [b \in Ids |-> IF b \in free THEN none ELSE f[b]]
    IN <<[s EXCEPT !.ops = {o[2] : o \in s.ops},
                   !.lease = blank(@, NoLease),
                   !.status = blank(@, "none"),
                   !.lossy = @ \ (free \union {None}),
                   !.rec = [i \in Instances |-> [@[i] EXCEPT !.meta = @ # None]],
                   !.queue = [i \in Instances |->
                                [k \in DOMAIN @[i] |-> effect(i, @[i][k])]]],
         at, offer, listed, agreed, notice, hw, p, scenario>>
=============================================================================
