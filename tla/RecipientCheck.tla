---------------------------- MODULE RecipientCheck ----------------------------
(* The recipient field of the confidential payment form (web/app/             *)
(* confidential.tsx): whether the address typed has a confidential account is *)
(* asked as it is typed, and the answer decides whether the form offers a     *)
(* payment with a hidden amount or one in public XLM.  Answers are slow, the  *)
(* user types on, and accounts may appear meanwhile.                          *)
EXTENDS Integers, FiniteSets

CONSTANTS
    Address,        \* addresses the user may type
    NoAddress,      \* nothing typed, or nothing that looks like an address
    MaxTyped,       \* bounds: changes of the field,
    MaxFaults       \* reads that fail

ASSUME RecipientAssumption ==
    NoAddress \notin Address /\ MaxTyped \in Nat /\ MaxFaults \in Nat

VARIABLES
    accounts,       \* addresses with a confidential account
    recipient,
    recipientReady, \* "unknown" is null
    checks,         \* recipientIsReady calls whose answer will be used
    payment,        \* the payment proposed, once one is
    typed, faults,
    hadAccount      \* history: whether the recipient had one when it was typed

inquiry == <<accounts, recipient, recipientReady, checks, payment, typed, faults,
             hadAccount>>
input == <<recipient, typed, hadAccount>>

Verdict == {"unknown", "yes", "no"}
Check   == [to : Address, answer : Verdict]

FieldTypeOK ==
    /\ accounts \subseteq Address
    /\ recipient \in Address \cup {NoAddress}
    /\ recipientReady \in Verdict
    /\ checks \subseteq Check
    /\ payment \in [op : {"none", "confidential_transfer", "withdraw"},
                    to : Address \cup {NoAddress}]
    /\ typed \in 0..MaxTyped /\ faults \in 0..MaxFaults
    /\ hadAccount \in BOOLEAN

FieldInit ==
    /\ accounts \in SUBSET Address
    /\ recipient = NoAddress
    /\ recipientReady = "unknown"
    /\ checks = {}
    /\ payment = [op |-> "none", to |-> NoAddress]
    /\ typed = 0 /\ faults = 0
    /\ hadAccount = FALSE

(* The effect on [recipient]: its cleanup disowns the check under way, and a  *)
(* plausible address starts one.  (The first is a fault: no cleanup.)         *)
EffectWithoutCleanup(a) ==
    checks' = checks \cup {[to |-> x, answer |-> "unknown"] : x \in {a} \cap Address}
Effect(a) ==
    checks' = {[to |-> x, answer |-> "unknown"] : x \in {a} \cap Address}

Type ==
    /\ typed < MaxTyped /\ typed' = typed + 1
    /\ \E a \in (Address \cup {NoAddress}) \ {recipient} :
        /\ recipient' = a
        /\ hadAccount' = (a \in accounts)
        /\ Effect(a)
    /\ recipientReady' = "unknown"
    /\ UNCHANGED <<accounts, payment, faults>>

(* recipientIsReady: a read, where a failure counts as "no".  (The first is a *)
(* fault: the failure is not caught, and no answer ever comes.)               *)
Answered(c, answer) ==
    checks' = (checks \ {c}) \cup {[c EXCEPT !.answer = answer]}

Read(c) ==
    /\ c.answer = "unknown"
    /\ Answered(c, IF c.to \in accounts THEN "yes" ELSE "no")
    /\ UNCHANGED <<accounts, input, recipientReady, payment, faults>>

ReadFailsUncaught(c) ==
    /\ c.answer = "unknown"
    /\ faults < MaxFaults /\ faults' = faults + 1
    /\ checks' = checks \ {c}
    /\ UNCHANGED <<accounts, input, recipientReady, payment>>
ReadFails(c) ==
    /\ c.answer = "unknown"
    /\ faults < MaxFaults /\ faults' = faults + 1
    /\ Answered(c, "no")
    /\ UNCHANGED <<accounts, input, recipientReady, payment>>

Answer(c) ==
    /\ c.answer # "unknown"
    /\ recipientReady' = c.answer
    /\ checks' = checks \ {c}
    /\ UNCHANGED <<accounts, input, payment, faults>>

(* The two buttons; building a transfer asks again and refuses without one.   *)
SendHidden ==
    /\ payment.op = "none" /\ recipient # NoAddress
    /\ recipientReady # "no"
    /\ recipient \in accounts
    /\ payment' = [op |-> "confidential_transfer", to |-> recipient]
    /\ UNCHANGED <<accounts, input, recipientReady, checks, faults>>

SendPublic ==
    /\ payment.op = "none"
    /\ recipientReady = "no"
    /\ payment' = [op |-> "withdraw", to |-> recipient]
    /\ UNCHANGED <<accounts, input, recipientReady, checks, faults>>

Join(a) ==
    /\ a \notin accounts
    /\ accounts' = accounts \cup {a}
    /\ UNCHANGED <<input, recipientReady, checks, payment, faults>>

FieldNext ==
    \/ Type \/ SendHidden \/ SendPublic
    \/ \E c \in checks : Read(c) \/ ReadFails(c) \/ Answer(c)
    \/ \E a \in Address : Join(a)

FieldSpec == FieldInit /\ [][FieldNext]_inquiry

(* A read is answered or fails in the end, and its callback runs.             *)
FieldFairness ==
    /\ WF_inquiry(\E c \in checks : Read(c))
    /\ WF_inquiry(\E c \in checks : Answer(c))

------------------------------------------------------------------------------
(* Unless a read has failed, an amount is made public only for a recipient    *)
(* that had no account when it was typed: no late answer about another        *)
(* address decides it.                                                        *)
PublicOnlyWithoutAccount ==
    [][payment'.op = "withdraw" /\ payment.op = "none" /\ faults = 0
            => ~hadAccount]_inquiry

(* The form never stays without a verdict on the address typed last.          *)
VerdictArrives ==
    <>[](recipient = NoAddress \/ recipientReady # "unknown")

------------------------------------------------------------------------------
(* A sentence of the code that TLC refutes as soon as a read may fail.        *)
(* confidential.tsx 300: "This address has no confidential account, so there  *)
(* is no key to encrypt the amount to."                                       *)
SaysNoneOnlyWhenNone == recipientReady = "no" => ~hadAccount
==============================================================================
