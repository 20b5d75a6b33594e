-------------------------- MODULE MCHostsLifecycle --------------------------
(***************************************************************************)
(* Values of PassedBefore for TLC: the test of the fixture is the first of  *)
(* the session to pass, or another one has passed before it.                *)
(***************************************************************************)
EXTENDS HostsLifecycle

FirstTest == {0}
LaterTest == {1}
=============================================================================
