------------------------- MODULE MCMonitoringAgent -------------------------
(* Instances of MonitoringAgent for TLC. *)
EXTENDS MonitoringAgent

(* One connection and one transmission per POST, as libcurl makes at least. *)
OneRequest == <<"socket", "sendto">>
=============================================================================
