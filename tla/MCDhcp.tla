------------------------------- MODULE MCDhcp -------------------------------
(***************************************************************************)
(* An instance of Dhcp for TLC.  Leases last a second, so that they run out  *)
(* in every order relative to each other, to the passes of the loop and to *)
(* the session.                                                            *)
(***************************************************************************)
EXTENDS Dhcp

OneSecond == [f \in Families |-> {1}]
AllFaults == {"start", "crash", "status"}
=============================================================================
