---------------------------- MODULE MCMessaging ----------------------------
(***************************************************************************)
(* Bounds on Messaging for the run over a whole network.                   *)
(***************************************************************************)
EXTENDS Messaging, TLC

\* The validators are interchangeable.
Symmetry == Permutations(Validators)

\* The wallets send less than their limiters allow: no bucket refills.
Unhurried == \A n \in Node : \A s \in Sender : tokens'[n][s] <= tokens[n][s]

\* At most one node crashes, as often as MaxCrashes allows.
OneCrash == \A n, m \in Node : n # m => crashes[n] = 0 \/ crashes[m] = 0
=============================================================================
