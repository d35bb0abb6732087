---------------------------- MODULE AdapterNames ----------------------------
(***************************************************************************)
(* The network adapters a user selected, shared by the modules about them. *)
(***************************************************************************)
EXTENDS Naturals, Sequences, FiniteSets

CONSTANT Adapters  \* adapter names

ASSUME AdaptersAssumption == IsFiniteSet(Adapters)
=============================================================================
