--------------------------- MODULE MCPageNavigation ---------------------------
(* Two routes and two definitions of temporary pages.  The home route binds  *)
(* the action that opens pages, a builtin one and one that no page needs;    *)
(* the temporary pages bind one or the other.                                *)
EXTENDS PageNavigation, TLC

CONSTANTS home, menu, dial, builtin, clock, lamp

Uses ==
    [e \in Entries |-> CASE e = home -> Actions
                         [] e = menu -> {builtin, clock}
                         [] OTHER    -> {clock}]

LocalUses == [e \in Entries |-> IF e \in Routes THEN {builtin, lamp} ELSE {builtin}]

\* Devices that satisfy every temporary page, and all devices.
PagesFit == {f \in SUBSET Entries : Definitions \subseteq f}
AnyDevice == SUBSET Entries
OneDevice == {Entries}

\* Sessions are only compared with one another.
Symmetry == Permutations(Sessions)
=============================================================================
