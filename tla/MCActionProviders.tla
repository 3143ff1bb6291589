-------------------------- MODULE MCActionProviders --------------------------
(* A small instance of ActionProviders alone, for the run that is violated; the *)
(* runs that pass are in MCOutside.                                             *)
EXTENDS ActionProviders
==============================================================================
