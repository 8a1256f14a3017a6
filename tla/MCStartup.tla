------------------------------- MODULE MCStartup -------------------------------
(***************************************************************************)
(* Instances of Startup for TLC: two columns of the unversioned release and*)
(* one of each later migration.                                            *)
(***************************************************************************)
EXTENDS Startup

MCAdded == <<{"auth_type", "password"}, {"host_key"}, {"protocol"}>>
=============================================================================
