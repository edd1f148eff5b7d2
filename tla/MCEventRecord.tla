--------------------------- MODULE MCEventRecord ---------------------------
(* Instances of EventRecord for TLC. *)
EXTENDS EventRecord, TLC

CONSTANTS t1, t2

(* The word of a text is a large number when it is read as argc. *)
Word100 == {100}
OneProgram == {<<100>>}

(* The tasks are threads of one process and can be exchanged. *)
Pids == [t \in Hooked |-> 7]
Threads == Permutations({t1, t2})
=============================================================================
