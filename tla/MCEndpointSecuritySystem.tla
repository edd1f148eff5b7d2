---------------------- MODULE MCEndpointSecuritySystem ----------------------
(* Instances of EndpointSecuritySystem for TLC. *)
EXTENDS EndpointSecuritySystem

(* One connection and one transmission per POST. *)
OneRequest == <<"socket", "sendto">>
=============================================================================
