-------------------------------- MODULE Wire ---------------------------------
(***************************************************************************)
(* What the broadcaster and the web client share: channels, and the        *)
(* connections between them.  A connection is one socket of the client and *)
(* one client id of the server, drawn when it accepts.                     *)
(***************************************************************************)
EXTENDS Integers, Sequences, FiniteSets, SequencesExt

CONSTANTS
  Order,       \* the channels, in the order in which flush visits their kinds
  MaxSockets   \* connections opened in all (bound)

ASSUME WireAssumption == Order \in Seq(STRING) /\ IsInjective(Order) /\ MaxSockets \in Nat

Channel == ToSet(Order)
Socket == 1..MaxSockets
=============================================================================
