--------------------------- MODULE MCHiddenPayments ---------------------------
(* The two places that decide over a single hidden payment, one story each:   *)
(* the recipient field of the vault's form, and the wallet menu through which *)
(* such a payment comes out again.                                            *)
EXTENDS RecipientCheck

CONSTANTS Wallet, Account, Nobody, Garbage, MaxArrivals, MaxAsked

VARIABLES
    story,
    active, key, spendable, receiving, withdrawn, open, checking, reg, keys,
    bal, busy, phase, k, asked, toast, moved, arrivals, late

Menu == INSTANCE WalletMenu

ASSUME Menu!MenuAssumption

field == <<accounts, recipient, recipientReady, checks, payment, typed, hadAccount>>
menu  == <<active, key, spendable, receiving, withdrawn, open, checking, reg,
           keys, bal, busy, phase, k, asked, toast, moved, arrivals, late>>

(* Where a story does not take place: an empty field, an empty account.       *)
NoField == FieldInit /\ accounts = {}
NoMenu ==
    /\ active = Wallet /\ key = Wallet /\ keys = Wallet
    /\ spendable = 0 /\ receiving = 0 /\ withdrawn = 0 /\ arrivals = 0
    /\ open = TRUE /\ checking = FALSE /\ reg = "yes"
    /\ bal = [known |-> TRUE, spendable |-> 0, receiving |-> 0]
    /\ busy = "no" /\ phase = "none" /\ k = Nobody /\ asked = 0 /\ toast = "ok" /\ moved = TRUE
    /\ late = FALSE

Begin ==
    \/ story = "field" /\ FieldInit /\ NoMenu
    \/ story = "menu" /\ NoField /\ Menu!Init
Tell ==
    /\ UNCHANGED story
    /\ \/ story = "field" /\ FieldNext /\ UNCHANGED menu
       \/ story = "menu" /\ Menu!Next /\ UNCHANGED field

HiddenPaymentsSpec ==
    Begin /\ [][Tell]_<<story, inquiry, menu>> /\ FieldFairness /\ Menu!Fairness

------------------------------------------------------------------------------
(* What has arrived when the menu reads the balance comes out as ordinary XLM *)
(* (page.tsx 1327-1328).                                                      *)
HiddenXlmComesOut == Menu!HiddenXlmComesOut

(* The menu's buttons come back after every operation (page.tsx, finally).    *)
OperationEnds == Menu!OperationEnds
==============================================================================
