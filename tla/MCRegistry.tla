---------------------------- MODULE MCRegistry -----------------------------
(***************************************************************************)
(* One relay that registers with one of two validators; the other has it   *)
(* among its configured peers and learns the rest from announcements.      *)
(***************************************************************************)
EXTENDS Registry, TLC

CONSTANTS v1, v2, r1, release

OneValidator == r1 :> {v1}
SecondHasPeer == v1 :> {} @@ v2 :> {r1}
OnlyRelease == v1 :> {release} @@ v2 :> {}
=============================================================================
