----------------------------- MODULE VaultBudget -----------------------------
(* A vault and its spending cap over time: VaultInstance with the history     *)
(* that SpendingCap keeps for the counter alone.  What was charged and what   *)
(* left the vault are told apart, since a payment to the vault itself is      *)
(* charged (run, for transfers and batches) and moves nothing out.            *)
EXTENDS VaultInstance

VARIABLES
    charged,    \* history: all that was charged up to and in each ledger
    left,       \* history: all that left under a cap up to and in each ledger
    highest     \* history: the highest cap that has been in force

budget == <<vars, charged, left, highest>>

(* The lengths that a policy with a cap may give the window, and no others;   *)
(* where there is only one, this is it.                                       *)
Lengths == {WindowLen(a.policy) :
            a \in {b \in AdminActions : /\ b.type = "SetPolicy"
                                       /\ b.policy.spendingCap > 0}}
CapLength == IF Lengths = {} THEN DefaultCapWindow ELSE CHOOSE len \in Lengths : TRUE

(* A payment is charged for its whole amount, a call for what it took out;    *)
(* without a cap nothing is booked and nothing is promised.                   *)
Capped    == instance.policy.spendingCap > 0
Pays(tx)  == JustExecuted(tx) /\ proposal[tx].payload.kind = "payment"
TookOut   == IF Outflow > 0 THEN Outflow ELSE 0
LeavesNow == IF Capped THEN TookOut ELSE 0
ChargedNow ==
    IF ~Capped THEN 0
    ELSE IF \E tx \in TxIds : Pays(tx)
    THEN proposal[CHOOSE tx \in TxIds : Pays(tx)].amount
    ELSE TookOut

(* An amount that is paid in this ledger.                                     *)
Noted(history, amount) ==
    [l \in 0..MaxLedger |->
        IF l < ledger THEN history[l] ELSE history[l] + amount]

BudgetInit ==
    /\ Init
    /\ charged = [l \in 0..MaxLedger |-> 0]
    /\ left = [l \in 0..MaxLedger |-> 0]
    /\ highest = instance.policy.spendingCap

BudgetNext ==
    /\ Next
    /\ charged' = Noted(charged, ChargedNow)
    /\ left' = Noted(left, LeavesNow)
    /\ highest' = IF instance'.policy.spendingCap > highest
                  THEN instance'.policy.spendingCap ELSE highest

BudgetSpec == BudgetInit /\ [][BudgetNext]_budget

(* What these ledgers add up to.                                              *)
Stretch(history, first, last) ==
    history[last] - (IF first = 0 THEN 0 ELSE history[first - 1])

(* What a spending cap means for the treasury: whatever is proposed, approved *)
(* and settled in whatever order, over any k consecutive ledgers of one       *)
(* window length no more leaves the vault than the highest cap and what k - 1 *)
(* ledgers of fading release.                                                 *)
LeavesWithinBudget ==
    \A first \in 0..ledger : \A last \in first..ledger :
        last - first < CapLength =>
            Stretch(left, first, last) * CapLength
                <= highest * (CapLength + last - first) + CapLength - 1
==============================================================================
