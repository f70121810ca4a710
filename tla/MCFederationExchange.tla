------------------------ MODULE MCFederationExchange ------------------------
(* Model-checking instance of FederationExchange.  The bodies differ in     *)
(* having an event, so they are not symmetric.                              *)
EXTENDS FederationExchange
=============================================================================
