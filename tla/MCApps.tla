------------------------------- MODULE MCApps -------------------------------
(***************************************************************************)
(* A device that has one of the two apps: they share nothing but the chain *)
(* of messages, so one run explores them side by side.                     *)
(***************************************************************************)
EXTENDS Desktop, Apple, TLC

CONSTANTS a, b

VARIABLE device

appVars == <<deskVars, appleVars, device>>

AppInit == DeskInit /\ AppleInit /\ device \in {"desktop", "phone"}

AppNext ==
  /\ UNCHANGED device
  /\ \/ device = "desktop" /\ DeskNext /\ UNCHANGED phoneVars
     \/ device = "phone" /\ AppleNext /\ UNCHANGED windowVars

AppSpec == AppInit /\ [][AppNext]_appVars

\* Every variable has its type.
AppTypeOK == DeskTypeOK /\ AppleTypeOK

Alike == Permutations(Identity)
=============================================================================
