----------------------------- MODULE MCDriverLoad -----------------------------
(***************************************************************************)
(* Every driver of the repository, loaded and unloaded once: with each of  *)
(* its calls failing or not, and each of its ways in used at any moment.   *)
(***************************************************************************)
EXTENDS DriverLoad, DriverFleet
===============================================================================
