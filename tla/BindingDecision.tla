--------------------------- MODULE BindingDecision ---------------------------
(****************************************************************************)
(* _bindings/_decisions.py: the table that compares the desired status of a *)
(* control with the binding installed on it.  The reconciler applies the    *)
(* answer (BindingLifecycle!Reconcile).                                     *)
(****************************************************************************)

Statuses == {"bound", "pending", "unavailable", "invalid_config",
             "invalid_device_control"}

\* InstalledBindingFacts, read under the device gate.
Facts == [same_action : BOOLEAN, same_session : BOOLEAN,
          same_requirements : BOOLEAN, current_agreement : BOOLEAN,
          successor_available : BOOLEAN, recovery_requested : BOOLEAN]

NotInstalled == [installed |-> FALSE]

Installed == {[installed |-> TRUE, facts |-> f] : f \in Facts}

Decision(change, retire, notify) ==
    [change |-> change, retire |-> retire, notify |-> notify]

\* The plan is pending: a binding of the current agreement stays as it is.
Pending(i) ==
    IF i.installed /\ i.facts.current_agreement
      THEN Decision("retain", FALSE, TRUE)
      ELSE Decision("pending", i.installed, TRUE)

\* The plan is bound and f describes what is installed: the first difference
\* decides.
Bound(f) ==
    IF ~f.same_action THEN Decision("replace", TRUE, FALSE)
    ELSE IF ~f.same_session \/ ~f.same_requirements THEN Decision("replace", TRUE, TRUE)
    ELSE IF ~f.current_agreement
           THEN Decision(IF f.successor_available THEN "replace" ELSE "pending",
                         TRUE, TRUE)
    ELSE IF f.recovery_requested THEN Decision("replace", TRUE, TRUE)
    ELSE Decision("refresh", FALSE, TRUE)

Decide(status, i) ==
    CASE status \in {"invalid_config", "invalid_device_control"} ->
           Decision("invalid", i.installed, TRUE)
      [] status = "pending"     -> Pending(i)
      [] status = "unavailable" -> Decision("unavailable", i.installed, TRUE)
      [] status = "bound" /\ ~i.installed -> Decision("install", FALSE, TRUE)
      [] OTHER                  -> Bound(i.facts)

----------------------------------------------------------------------------
(* What the table means, for one input *)

\* An installed binding keeps its grant exactly when the plan still wants or
\* awaits its action and its agreement is current; under a bound plan it must
\* also be the same action of the same session with the same requirements and
\* no recovery due.
KeptIffCompatible(status, i) ==
    LET d == Decide(status, i)
        f == i.facts
    IN i.installed =>
         (~d.retire <=>
            /\ status \in {"bound", "pending"}
            /\ f.current_agreement
            /\ status = "bound" =>
                 /\ f.same_action /\ f.same_session /\ f.same_requirements
                 /\ ~f.recovery_requested)

\* A grant is only issued over a retired one or onto an empty control, and
\* never for the same action, session and requirements without an agreement to
\* grant it under.
NoGrantOverGrant(status, i) ==
    LET d == Decide(status, i) IN
    d.change \in {"install", "replace"} =>
        /\ status = "bound"
        /\ i.installed => /\ d.retire
                          /\ \/ i.facts.current_agreement
                             \/ i.facts.successor_available
                             \/ ~i.facts.same_session \/ ~i.facts.same_action
                             \/ ~i.facts.same_requirements
=============================================================================
