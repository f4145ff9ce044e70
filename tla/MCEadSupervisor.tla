--------------------------- MODULE MCEadSupervisor ---------------------------
(***************************************************************************)
(* A small instance of the supervisor for TLC.                             *)
(***************************************************************************)
EXTENDS EadSupervisor

MCInstances == <<1, 2>>
MCBridges   == <<10, 20>>
=============================================================================
