---------------------------- MODULE MCEventDash -----------------------------
(* Instances of EventDash for TLC. *)
EXTENDS EventDash

ThreePaths == {"/login", "/dashboard", EventsPath}
=============================================================================
