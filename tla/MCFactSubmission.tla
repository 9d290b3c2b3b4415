-------------------------- MODULE MCFactSubmission --------------------------
(***************************************************************************)
(* Values for the runs of FactSubmission: all clients behind one address.  *)
(***************************************************************************)
EXTENDS FactSubmission, TLC

MCAddressOf == [r \in Request |-> CHOOSE a \in Address : TRUE]
=============================================================================
