----------------------------- MODULE MCConfigFiles -----------------------------
(* One configuration in a directory that may vanish, and a call that writes       *)
(* another one.                                                                   *)
EXTENDS ConfigFiles

Config(id, v) == [id |-> id, v |-> v]
OneFile == {[up |-> TRUE, file |-> <<Config("a", 1), Absent>>, swept |-> {}]}
MCDocuments == {Config("a", 1), Config("b", 1), Invalid, Absent}
MCOwnPath == [a |-> 1, b |-> 2]
MCWrites == {Config("b", 1)}
================================================================================
