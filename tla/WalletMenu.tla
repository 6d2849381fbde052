------------------------------ MODULE WalletMenu ------------------------------
(* The wallet menu in the header (web/app/page.tsx): a wallet's own           *)
(* confidential account, set up, read, settled and withdrawn from in          *)
(* transactions the wallet signs for itself.  Payments to it arrive at any    *)
(* time.  The token is as in Confidential, with amounts for openings.         *)
EXTENDS Integers

CONSTANTS
    Wallet,         \* the wallet connected to the page
    Account,        \* the accounts Freighter holds; the active one signs messages
    Nobody,         \* no key
    Garbage,        \* what decrypting with another key gives
    MaxArrivals, MaxFaults, MaxAsked    \* bounds

MenuAssumption ==
    /\ Wallet \in Account /\ Nobody \notin Account
    /\ Garbage \in Nat /\ MaxArrivals \in Nat /\ MaxFaults \in Nat
    /\ MaxAsked \in Nat

VARIABLES
    active,         \* Freighter's active account
    key,            \* whose key the token has on file for the wallet
    spendable, receiving,   \* the wallet's hidden balances
    withdrawn,      \* what came out of them
    open, checking, reg, keys, bal, busy,   \* the menu; checking: a live isRegistered
    phase,          \* where the operation under way is,
    k, asked,       \* the key it works with and the amount it was asked for
    toast,          \* how the last operation ended, as the user is told
    moved,          \* history: the token did what that operation asked for
    arrivals, faults,
    late            \* history: a payment came once a balance was on screen

vars == <<active, key, spendable, receiving, withdrawn, open, checking, reg,
          keys, bal, busy, phase, k, asked, toast, moved, arrivals, faults, late>>
token == <<key, spendable, receiving, withdrawn>>
world == <<active, arrivals, late>>
ended == <<toast, moved>>
job   == <<busy, phase, k, asked>>

Label == {"Setup", "Unlock", "Settle", "Withdraw"}
NoBalance == [known |-> FALSE, spendable |-> 0, receiving |-> 0]
Balance(s, r) == [known |-> TRUE, spendable |-> s, receiving |-> r]

TypeOK ==
    /\ active \in Account
    /\ {key, keys, k} \subseteq Account \cup {Nobody}
    /\ asked \in 0..MaxAsked
    /\ spendable \in Nat /\ receiving \in Nat /\ withdrawn \in Nat
    /\ open \in BOOLEAN /\ checking \in BOOLEAN
    /\ reg \in {"unknown", "yes", "no"}
    /\ bal \in [known : BOOLEAN, spendable : Nat, receiving : Nat]
    /\ busy \in Label \cup {"no"}
    /\ phase \in {"none", "sign", "send", "read"}
    /\ toast \in {"none", "ok", "failed"} /\ moved \in BOOLEAN
    /\ arrivals \in 0..MaxArrivals /\ faults \in 0..MaxFaults /\ late \in BOOLEAN

Init ==
    /\ active = Wallet
    /\ key \in {Wallet, Nobody}
    /\ spendable = 0 /\ receiving = 0 /\ withdrawn = 0
    /\ open = FALSE /\ checking = FALSE /\ reg = "unknown"
    /\ keys = Nobody /\ bal = NoBalance
    /\ busy = "no" /\ phase = "none" /\ k = Nobody /\ asked = 0
    /\ toast = "none" /\ moved = FALSE
    /\ arrivals = 0 /\ faults = 0 /\ late = FALSE

------------------------------------------------------------------------------
(* The effect on opening asks once; closing disowns the answer.               *)
Open ==
    /\ ~open
    /\ open' = TRUE
    /\ checking' = (reg = "unknown")
    /\ UNCHANGED <<token, world, ended, reg, keys, bal, job, faults>>

Close ==
    /\ open
    /\ open' = FALSE /\ checking' = FALSE
    /\ UNCHANGED <<token, world, ended, reg, keys, bal, job, faults>>

Checked ==
    /\ checking
    /\ reg' = IF key = Nobody THEN "no" ELSE "yes"
    /\ checking' = FALSE
    /\ UNCHANGED <<token, world, ended, open, keys, bal, job, faults>>

CheckFails ==
    /\ checking
    /\ faults < MaxFaults /\ faults' = faults + 1
    /\ reg' = "no"
    /\ checking' = FALSE
    /\ UNCHANGED <<token, world, ended, open, keys, bal, job>>

(* The buttons.  What is typed to be withdrawn may be nothing, or more than   *)
(* there is.                                                                  *)
Offered(label) ==
    CASE label = "Setup"    -> reg = "no"
      [] label = "Unlock"   -> reg = "yes" /\ ~bal.known
      [] label = "Settle"   -> reg = "yes" /\ bal.receiving > 0
      [] label = "Withdraw" -> reg = "yes" /\ bal.known

Click(label, amount) ==
    /\ open /\ busy = "no" /\ Offered(label)
    /\ label # "Withdraw" => amount = 0
    /\ busy' = label /\ phase' = "sign" /\ k' = Nobody /\ asked' = amount
    /\ toast' = "none" /\ moved' = FALSE
    /\ UNCHANGED <<token, world, open, checking, reg, keys, bal, faults>>

(* walletConfidentialKey: the message is signed by whichever account is       *)
(* active in Freighter.  enable() always asks for it, run() once, and keeps   *)
(* the key whatever comes of its job.                                         *)
Derived == IF busy # "Setup" /\ keys # Nobody THEN keys ELSE active

SignMessage ==
    /\ phase = "sign"
    /\ phase' = "send"
    /\ k' = Derived
    /\ keys' = IF busy = "Setup" THEN keys ELSE Derived
    /\ UNCHANGED <<token, world, ended, open, checking, reg, bal, busy, asked, faults>>

Done == busy' = "no" /\ phase' = "none" /\ k' = Nobody /\ asked' = 0

(* enable(): register with that key, then show an empty account.              *)
Setup ==
    /\ phase = "send" /\ busy = "Setup"
    /\ key = Nobody
    /\ key' = k /\ keys' = k
    /\ reg' = "yes" /\ bal' = Balance(0, 0)
    /\ Done
    /\ toast' = "ok" /\ moved' = TRUE
    /\ UNCHANGED <<spendable, receiving, withdrawn, world, open, checking, faults>>

(* run(): the job of each button.  A withdrawal is proved for the balance as  *)
(* the key reads it then, so only the right key's proof verifies.             *)
CanWithdraw == k = key /\ asked \in 1..spendable
Job ==
    \/ busy = "Unlock" /\ UNCHANGED token
    \/ /\ busy = "Settle"
       /\ spendable' = spendable + receiving
       /\ receiving' = 0
       /\ UNCHANGED <<key, withdrawn>>
    \/ /\ busy = "Withdraw"
       /\ CanWithdraw
       /\ spendable' = spendable - asked
       /\ withdrawn' = withdrawn + asked
       /\ UNCHANGED <<key, receiving>>

Send ==
    /\ phase = "send" /\ busy # "Setup"
    /\ Job
    /\ phase' = "read"
    /\ moved' = (busy # "Unlock")
    /\ UNCHANGED <<world, toast, open, checking, reg, keys, bal, busy, k, asked, faults>>

(* readConfidentialBalance: with another's key, what came in is unreadable.   *)
Read ==
    IF k = key THEN Balance(spendable, receiving)
               ELSE Balance(IF spendable > 0 THEN Garbage ELSE 0,
                            IF receiving > 0 THEN Garbage ELSE 0)

(* The balance is read again after every job.  (The first is a fault: the     *)
(* balance first shown stays.)                                                *)
ReReadOnce ==
    /\ phase = "read"
    /\ bal' = IF bal.known THEN bal ELSE Read
    /\ Done
    /\ toast' = "ok"
    /\ UNCHANGED <<token, moved, world, open, checking, reg, keys, faults>>
ReRead ==
    /\ phase = "read"
    /\ bal' = Read
    /\ Done
    /\ toast' = "ok"
    /\ UNCHANGED <<token, moved, world, open, checking, reg, keys, faults>>

(* Signing is refused, the transaction or the reading fails; or there is no   *)
(* withdrawing that much, or an account is there already.  (The first is a    *)
(* fault: the error is shown, and the operation stays under way.)             *)
FailsBusy ==
    /\ phase # "none"
    /\ \/ faults < MaxFaults /\ faults' = faults + 1
       \/ phase = "send" /\ UNCHANGED faults
          /\ busy = "Setup" /\ key # Nobody
    /\ phase' = "none" /\ toast' = "failed"
    /\ UNCHANGED <<token, moved, world, open, checking, reg, keys, bal, busy, k, asked>>
Fails ==
    /\ phase # "none"
    /\ \/ faults < MaxFaults /\ faults' = faults + 1
       \/ phase = "send" /\ UNCHANGED faults
          /\ \/ busy = "Setup" /\ key # Nobody
             \/ busy = "Withdraw" /\ ~CanWithdraw
    /\ Done
    /\ toast' = "failed"
    /\ UNCHANGED <<token, moved, world, open, checking, reg, keys, bal>>

------------------------------------------------------------------------------
Arrive ==
    /\ key # Nobody
    /\ arrivals < MaxArrivals
    /\ receiving' = receiving + 1
    /\ arrivals' = arrivals + 1
    /\ late' = (late \/ bal.known \/ busy # "no")
    /\ UNCHANGED <<key, spendable, withdrawn, active, open, checking, reg, keys,
                   bal, job, ended, faults>>

SwitchAccount ==
    /\ active' \in Account \ {active}
    /\ UNCHANGED <<token, arrivals, late, open, checking, reg, keys, bal, job, ended, faults>>

Operate == SignMessage \/ Setup \/ Send \/ ReRead

Next ==
    \/ Open \/ Close \/ Checked \/ CheckFails
    \/ \E label \in Label, amount \in 0..MaxAsked : Click(label, amount)
    \/ Operate \/ Fails
    \/ Arrive \/ SwitchAccount

Spec == Init /\ [][Next]_vars

(* The user wants the XLM: opens the menu and presses what it offers again    *)
(* and again, with an amount that the menu shows to be there; operations      *)
(* finish, and not every transaction fails.                                   *)
AskForSome == \E amount \in 1..MaxAsked :
                  amount <= bal.spendable /\ Click("Withdraw", amount)

Fairness ==
    /\ WF_vars(Open) /\ SF_vars(Checked)
    /\ \A label \in Label \ {"Withdraw"} : SF_vars(Click(label, 0))
    /\ SF_vars(AskForSome)
    /\ WF_vars(Operate \/ Fails) /\ SF_vars(Send) /\ SF_vars(ReRead)

------------------------------------------------------------------------------
Hidden == spendable + receiving

(* page.tsx 1327-1328: "Payments arrive hidden; this is the way back out to   *)
(* ordinary XLM".  So it is for the wallet's own key, for what has arrived by *)
(* the time the menu reads the balance: what comes later is not seen there.   *)
HiddenXlmComesOut ==
    [](active = Wallet /\ ~late /\ faults = 0) => ((Hidden > 0) ~> (Hidden = 0))

(* Whatever fails, and whoever's key it was, the buttons come back: "busy" is *)
(* reset by the finally of run() and enable().                                *)
OperationEnds == (busy # "no") ~> (busy = "no")

------------------------------------------------------------------------------
(* Sentences of the code that TLC refutes.                                    *)
(* confidential.ts 99: "A plain wallet's own Grumpkin key."                   *)
AccountHasOwnKey == key \in {Wallet, Nobody}

(* page.tsx 1240: "`${label} failed`": then nothing has happened.             *)
FailedDidNothing == toast = "failed" => ~moved
==============================================================================
