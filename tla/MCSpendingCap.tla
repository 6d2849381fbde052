---------------------------- MODULE MCSpendingCap ----------------------------
(* Values for the SpendingCap runs.  Three-ledger windows and caps of two and *)
(* three keep every fraction of the carry (1/3, 2/3) in play.                 *)
EXTENDS SpendingCap, TLC

NoLegacy == {<<>>}

(* One length under two names, the explicit one and the 0 that means the      *)
(* default, with a cap that is lowered, raised and switched off.              *)
SteadyPolicies == {[spendingCap |-> 3, capWindow |-> 0],
                   [spendingCap |-> 2, capWindow |-> 3],
                   [spendingCap |-> 0, capWindow |-> 3]}

OnePolicy == {[spendingCap |-> 3, capWindow |-> 3]}

(* The same cap over a long window and over a short one.                      *)
ResizedPolicies == {[spendingCap |-> 2, capWindow |-> 4],
                    [spendingCap |-> 2, capWindow |-> 1]}

(* A vault whose old code paid the whole cap in the last ledger of bucket 0.  *)
UpgradedVault == {0 :> 3}
==============================================================================
