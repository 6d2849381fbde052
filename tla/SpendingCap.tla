----------------------------- MODULE SpendingCap -----------------------------
(* The spending cap of one vault over time.  The ledger advances, payments    *)
(* are charged to the window, and an executed proposal may replace the        *)
(* policy; everything else about the vault is left to VaultInstance.  The     *)
(* history variable paidBy holds what had really been paid by each ledger,    *)
(* which the contract never stores: the properties compare its two-number     *)
(* summary with that history.                                                 *)
EXTENDS CapWindow

CONSTANTS
    Policies,       \* the (spendingCap, capWindow) pairs a SetPolicy may install
    Amounts,        \* the amounts a payment may have
    Legacies,       \* pre-v11 accounting a vault may have been upgraded with
    FirstLedger,    \* the ledger at which the vault starts to run this code
    MaxLedger       \* bound: the last ledger the model looks at

ASSUME CapAssumption ==
    /\ Policies \subseteq [spendingCap : I128, capWindow : U32]
    /\ Amounts \subseteq I128 \ {0}
    /\ FirstLedger \in Nat
    /\ MaxLedger \in FirstLedger..MaxU32

VARIABLES
    ledger,     \* env.ledger().sequence()
    policy,     \* the two fields of POLICY the cap reads
    window,     \* the entry under DataKey::Window, or NoWindow
    legacy,     \* the entries under DataKey::Spent, never written
    paidBy,     \* history: all that was charged up to and in each ledger
    highest     \* history: the highest cap charged against so far

vars == <<ledger, policy, window, legacy, paidBy, highest>>

(* What was charged in these ledgers.                                         *)
Before(l) == IF l = 0 THEN 0 ELSE paidBy[l - 1]
Total(first, last) == Before(last + 1) - Before(first)

Used == WindowUsed(window, legacy, policy, ledger)

TypeOK ==
    /\ ledger \in FirstLedger..MaxLedger
    /\ policy \in Policies
    /\ window \in CapWindowRecord \cup {NoWindow}
    /\ legacy \in Legacies
    /\ paidBy \in [0..MaxLedger -> Nat]
    /\ highest \in I128

(* What a legacy bucket holds was paid before the upgrade; the history puts   *)
(* it in the ledger just before the upgrade took effect.                      *)
Init ==
    /\ ledger = FirstLedger
    /\ policy \in Policies
    /\ window = NoWindow
    /\ legacy \in Legacies
    /\ highest = policy.spendingCap
    /\ paidBy = [l \in 0..MaxLedger |->
                    IF FirstLedger \in 1..l + 1
                    THEN LegacySpent(legacy, (FirstLedger - 1) \div WindowLen(policy)) ELSE 0]

Tick ==
    /\ ledger < MaxLedger
    /\ ledger' = ledger + 1
    /\ UNCHANGED <<policy, window, legacy, paidBy, highest>>

(* One executed payment of this amount: charge_window books it or the whole   *)
(* transaction is rolled back.  Without a cap nothing is booked and nothing   *)
(* is promised, so the history does not record it.                            *)
Charge(amount) ==
    /\ CanCharge(window, legacy, policy, ledger, amount)
    /\ window' = Charged(window, legacy, policy, ledger, amount)
    /\ paidBy' = IF policy.spendingCap = 0 THEN paidBy
                 ELSE [l \in 0..MaxLedger |->
                        IF l < ledger THEN paidBy[l] ELSE paidBy[l] + amount]
    /\ UNCHANGED <<ledger, policy, legacy, highest>>

(* An executed SetPolicy replaces the policy and leaves the window alone.     *)
SetPolicy(p) ==
    /\ policy' = p
    /\ highest' = IF p.spendingCap > highest THEN p.spendingCap ELSE highest
    /\ UNCHANGED <<ledger, window, legacy, paidBy>>

Next ==
    \/ Tick
    \/ \E amount \in Amounts : Charge(amount)
    \/ \E p \in Policies : SetPolicy(p)

Spec == Init /\ [][Next]_vars

------------------------------------------------------------------------------
(* The stored entry is exactly what the history says of its two windows: all  *)
(* charged since it opened, and all charged in the length before that.  The   *)
(* counter is only worth its cap as long as rolling loses nothing.            *)
BookMatchesHistory ==
    window # NoWindow =>
        /\ window.spent = Total(window.opened, ledger)
        /\ window.prev = Total(SubU32(window.opened, window.len),
                               window.opened - 1)

(* What the counter promises: over any k consecutive ledgers of one length,   *)
(* no more is paid than the cap plus what k - 1 ledgers of fading release.    *)
(* There is no boundary at which the budget is refilled at once.              *)
FadeBound ==
    LET len == WindowLen(policy)
    IN  \A first \in 0..ledger : \A last \in first..ledger :
            last - first < len =>
                Total(first, last) * len <= highest * (len + last - first) + len - 1

------------------------------------------------------------------------------
(* Sentences of the code that TLC refutes; the README says how.               *)
(* No ledger pays out more than the highest cap that was ever in force.       *)
LedgerWithinCap ==
    \A l \in FirstLedger..ledger : Total(l, l) <= highest

(* "Max total executed within one rolling window": the documented meaning of  *)
(* spending_cap, for any length of consecutive ledgers.                       *)
RollingWindowWithinCap ==
    LET len == WindowLen(policy)
    IN  \A first \in 0..ledger :
            Total(first, AtMost(first + len - 1, ledger)) <= highest

(* "removes the step": two adjacent ledgers never pay out the cap twice.      *)
AdjacentLedgersWithinCap ==
    \A l \in 1..ledger :
        highest > 0 => Total(l - 1, l) < 2 * highest
==============================================================================
