----------------------------- MODULE GuardsForm -----------------------------
(* The Guards screen (page.tsx): each signer's page holds a copy of the       *)
(* vault's policy and a form over it; saving proposes the whole policy the    *)
(* form spells, and executing that proposal replaces the vault's.             *)
EXTENDS Naturals, Sequences

CONSTANTS
    Editor,         \* the signers with the screen open
    Policy,         \* the policies a vault may have
    OPEN_POLICY,    \* what getPolicy answers when the read fails
    DefaultWindow,  \* a window of 0 stands for this one
    Garbled,        \* text in a limit's box that is no amount
    Typed,          \* what may be put into each field: a function of fields
    MayFail,        \* whether the read may fail
    MaxProposals    \* bound: proposals saved

Fields == DOMAIN OPEN_POLICY
Limits == {"max_per_tx", "spending_cap"}

ASSUME PolicyAssumption ==
    /\ OPEN_POLICY \in Policy
    /\ \A p \in Policy : DOMAIN p = Fields
    /\ Limits \cup {"cap_window_ledgers"} \subseteq Fields

VARIABLES
    policy,     \* POLICY in the vault
    page,       \* each page's copy of it
    blind,      \* the pages whose last read failed
    form,       \* what each form holds
    touched,    \* the fields its user has changed since it was last filled
    proposals,  \* the SetPolicy proposals: the policy, what its author had
                \* touched, and the copy the author was looking at
    executed    \* the ids of those executed

guards == <<policy, page, blind, form, touched, proposals, executed>>

Tx == 1..Len(proposals)

(* The form shows 0 as an empty box and no window as the default one.         *)
AsShown(p) == [p EXCEPT !["cap_window_ledgers"] = IF @ = 0 THEN DefaultWindow ELSE @]

GuardsTypeOK ==
    /\ policy \in Policy /\ page \in [Editor -> Policy]
    /\ \A s \in blind : page[s] = OPEN_POLICY
    /\ \A s \in Editor, f \in Fields :
          form[s][f] \in {AsShown(page[s])[f]} \cup (IF f \in touched[s] THEN Typed[f] ELSE {})
    /\ \A tx \in Tx : proposals[tx].policy \in Policy /\ proposals[tx].touched \subseteq Fields
    /\ executed \subseteq Tx

GuardsInit ==
    /\ policy \in Policy
    /\ page = [s \in Editor |-> policy] /\ blind = {}
    /\ form = [s \in Editor |-> AsShown(policy)]
    /\ touched = [s \in Editor |-> {}]
    /\ proposals = <<>> /\ executed = {}

(* getPolicy in loadData.  A read that lands is a new policy to the form, which*)
(* fills every field anew, whatever was in it.  (The first is a fault: a form *)
(* in use is left alone.)                                                     *)
FillUntouched(s, p) ==
    /\ form' = [form EXCEPT ![s] = IF touched[s] = {} THEN AsShown(p) ELSE @]
    /\ UNCHANGED touched
Fill(s, p) ==
    /\ form' = [form EXCEPT ![s] = AsShown(p)]
    /\ touched' = [touched EXCEPT ![s] = {}]

GetPolicy(s) ==
    /\ page' = [page EXCEPT ![s] = policy]
    /\ blind' = blind \ {s}
    /\ Fill(s, policy)
    /\ UNCHANGED <<policy, proposals, executed>>

(* An error is answered with the open policy, always the same object: the form*)
(* is filled from it once, and not again when the next read fails too.        *)
GetPolicyFails(s) ==
    /\ MayFail
    /\ s \notin blind
    /\ page' = [page EXCEPT ![s] = OPEN_POLICY]
    /\ blind' = blind \cup {s}
    /\ Fill(s, OPEN_POLICY)
    /\ UNCHANGED <<policy, proposals, executed>>

(* onChange of the boxes and onClick of the chips.  Nothing is edited any more *)
(* once the bound on proposals is reached.                                    *)
Edit(s, f) ==
    /\ Len(proposals) < MaxProposals
    /\ \E v \in Typed[f] : form' = [form EXCEPT ![s][f] = v]
    /\ touched' = [touched EXCEPT ![s] = @ \cup {f}]
    /\ UNCHANGED <<policy, page, blind, proposals, executed>>

(* next, dirty and the button: text that is no amount stops the form.         *)
Parses(next) == \A f \in Limits : next[f] # Garbled
Dirty(s, next) ==
    \E f \in Fields :
        /\ next[f] # AsShown(page[s])[f]
        /\ f = "cap_window_ledgers" => next.spending_cap > 0

Proposable(s) == Parses(form[s]) /\ Dirty(s, form[s])

(* doSavePolicy.                                                              *)
Save(s) ==
    /\ Len(proposals) < MaxProposals
    /\ Proposable(s)
    /\ proposals' = Append(proposals,
           [policy |-> form[s], touched |-> touched[s], read |-> page[s]])
    /\ UNCHANGED <<policy, page, blind, form, touched, executed>>

(* SetPolicy in the vault, once the signers have approved it.                 *)
Execute(tx) ==
    /\ tx \in Tx \ executed
    /\ policy' = proposals[tx].policy
    /\ executed' = executed \cup {tx}
    /\ UNCHANGED <<page, blind, form, touched, proposals>>

GuardsNext ==
    \/ \E s \in Editor : GetPolicy(s) \/ GetPolicyFails(s) \/ Save(s) \/ \E f \in Fields : Edit(s, f)
    \/ \E tx \in Tx : Execute(tx)

GuardsSpec == GuardsInit /\ [][GuardsNext]_guards

------------------------------------------------------------------------------
ChangesOnly(fields) == \A f \in Fields \ fields : AsShown(policy')[f] = AsShown(policy)[f]
ExecutesNow(tx) == tx \in executed' \ executed

(* A proposal to change the guards changes only what its author changed in the*)
(* form, if the policy it replaces is still the one the author's page had     *)
(* read: nothing typed before a later read, and nothing from an older read,   *)
(* gets into it.                                                              *)
OnlyWhatWasTouched ==
    [][\A tx \in Tx : ExecutesNow(tx) /\ proposals[tx].read = policy =>
           ChangesOnly(proposals[tx].touched)]_guards

------------------------------------------------------------------------------
(* A sentence of the code that TLC refutes once a read may fail.              *)
(* page.tsx:2612, the form is filled from the vault, the source of truth: what*)
(* the author left as it was is as it was in the vault, when no other policy  *)
(* was put in force in between.                                               *)
UntouchedIsUnchanged ==
    [][\A tx \in Tx : ExecutesNow(tx) /\ executed = {} =>
           ChangesOnly(proposals[tx].touched)]_guards
==============================================================================
