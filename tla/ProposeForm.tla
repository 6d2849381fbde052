---------------------------- MODULE ProposeForm ----------------------------
(* The "New transaction" screen (page.tsx): a form for a payment, a batch or  *)
(* a contract call, which warns of the vault's guards from the page's copy of *)
(* the policy, the allowlist and what the spending window has used, and is    *)
(* judged by the contract, VaultInstance, when it is proposed.                *)
EXTENDS VaultInstance

CONSTANT Author     \* the wallet that has the page open

ASSUME FormAssumption == Author \in Address

VARIABLES
    page,       \* policy, allowed and spent, as loadData last set them
    readAt      \* history: what the vault told spent from, or NoWindow if the
                \* read was not answered

form == <<page, readAt>>
all  == <<vars, form>>

(* What can be typed: rows as a function from recipients to amounts.          *)
Forms ==
    [kind : {"single"}, pays : {Single(t.target, t.amount) : t \in Transfers}]
    \cup [kind : {"batch"}, pays : Batches]
    \cup [kind : {"call"}, call : Calls]

Now == [policy |-> instance.policy, window |-> window, ledger |-> ledger]

FormTypeOK ==
    /\ TypeOK
    /\ page \in [policy : Policy, allowed : SUBSET Address, spent : I128]
    /\ readAt \in [policy : Policy, window : CapWindowRecord \cup {NoWindow}, ledger : U32]
                   \cup {NoWindow}

FormInit ==
    /\ page = [policy |-> NoPolicy, allowed |-> {}, spent |-> 0]
    /\ readAt = NoWindow

------------------------------------------------------------------------------
(* total: of all rows.  (The first is a fault: of the largest row.)           *)
TotalLargest(f) ==
    CHOOSE n \in Range(f.pays) : \A m \in Range(f.pays) : m <= n
Total(f) == SumFunction(f.pays)

(* guardWarnings, and the button they disable.  A call has no amount to warn  *)
(* about and its warnings are not shown.                                      *)
OverLimit(f) == page.policy.maxPerTx > 0 /\ Total(f) > page.policy.maxPerTx
OverCap(f) ==
    page.policy.spendingCap > 0 /\ Total(f) > page.policy.spendingCap - page.spent
OffList(f) == page.policy.allowlistOnly /\ ~(DOMAIN f.pays \subseteq page.allowed)

Warned(f)  == OverLimit(f) \/ OverCap(f) \/ OffList(f)
Blocked(f) == f.kind # "call" /\ Warned(f)

(* submit.  toStroops throws for an amount of nothing, batchReady asks every  *)
(* row for one.                                                               *)
Submit(f, private) ==
    /\ ~Blocked(f)
    /\ \/ /\ f.kind = "single" /\ Total(f) > 0
          /\ \E to \in DOMAIN f.pays : Propose(Author, to, f.pays[to], private)
       \/ /\ f.kind = "batch" /\ \A to \in DOMAIN f.pays : f.pays[to] > 0
          /\ ProposeBatch(Author, f.pays, private)
       \/ /\ f.kind = "call" /\ f.call.auth = {}
          /\ ProposeCall(Author, f.call, private)
    /\ UNCHANGED form

(* loadData: getPolicy, getAllowed and getSpentInWindow are calls of their own*)
(* that find the vault as it is when each arrives, and one that fails answers *)
(* as a vault without guards would.                                           *)
LoadPolicy ==
    /\ \E answer \in {instance.policy, NoPolicy} : page' = [page EXCEPT !.policy = answer]
    /\ UNCHANGED <<vars, readAt>>
LoadAllowed ==
    /\ \E answer \in {instance.allowed, {}} : page' = [page EXCEPT !.allowed = answer]
    /\ UNCHANGED <<vars, readAt>>
LoadSpent ==
    /\ \/ page' = [page EXCEPT !.spent = Used] /\ readAt' = Now
       \/ page' = [page EXCEPT !.spent = 0] /\ readAt' = NoWindow
    /\ UNCHANGED vars

(* Everybody else, and this author by other means than the form.              *)
Elsewhere == Next /\ UNCHANGED form

FormNext ==
    \/ \E f \in Forms, private \in Modes : Submit(f, private)
    \/ LoadPolicy \/ LoadAllowed \/ LoadSpent
    \/ Elsewhere

FormSpec == Init /\ FormInit /\ [][FormNext]_all

------------------------------------------------------------------------------
(* What the page holds is in force: the policy, the allowlist, and what the   *)
(* window had used when it was asked.                                         *)
PolicyHolds  == page.policy = instance.policy
AllowedHolds == page.allowed = instance.allowed
SpentHolds ==
    /\ readAt # NoWindow
    /\ readAt.policy = instance.policy /\ readAt.window = window

Chargeable(pays) ==
    CanCharge(window, <<>>, instance.policy, ledger, SumFunction(pays))

(* page.tsx:2325, "the same guards the contract will enforce", of each warning*)
(* by itself: whichever reads failed or are out of date, a warning whose own  *)
(* reads hold is shown of exactly the payments and batches that the vault     *)
(* would refuse to settle for that reason; and the warning of the cap, which  *)
(* time goes by, is never missing, because what a window has used only fades. *)
WarnsAsTheVault ==
    PolicyHolds =>
        \A f \in Forms : f.kind # "call" =>
            /\ OverLimit(f) <=> ~CheckLimit(SumFunction(f.pays))
            /\ AllowedHolds =>
                    (OffList(f) <=> \E to \in DOMAIN f.pays : ~CheckRecipient(to))
            /\ SpentHolds =>
                    /\ ~Chargeable(f.pays) => OverCap(f)
                    /\ readAt.ledger = ledger /\ OverCap(f) => ~Chargeable(f.pays)

------------------------------------------------------------------------------
(* Sentences of the code that TLC refutes.                                    *)
(* page.tsx:2325 again, of the form as a whole: before anything was proposed, *)
(* it warns of exactly what the vault as founded will not settle.  It does not*)
(* until its reads were answered: a policy that was not silences it, and an   *)
(* allowlist that was not blocks payments to the recipients who are on it.    *)
WarnsOfEverything ==
    instance.nextTx = 0 =>
        \A f \in Forms : f.kind # "call" =>
            (Warned(f) <=> \/ ~CheckLimit(SumFunction(f.pays)) \/ ~Chargeable(f.pays)
                           \/ \E to \in DOMAIN f.pays : ~CheckRecipient(to))

(* page.tsx:2490, "if we already know a guard will refuse this, don't offer a *)
(* button that looks live — the contract would reject it anyway": a payment   *)
(* the page has blocked, from guards as they are, cannot be proposed.         *)
BlockedIsRefused ==
    [][\A f \in Forms :
            /\ PolicyHolds /\ SpentHolds /\ readAt.ledger = ledger
            /\ instance.policy.allowlistOnly => AllowedHolds
            /\ Blocked(f)
            /\ instance'.nextTx > instance.nextTx
            => proposal'[instance.nextTx].payload # [kind |-> "payment", pays |-> f.pays]]_all

(* page.tsx:2337, "Executable <lock period> after proposing": what passed and *)
(* was proposed that long ago is unlocked.                                    *)
UnlocksAfterProposing ==
    \A tx \in TxIds :
        /\ Passed(proposal[tx])
        /\ ledger >= proposal[tx].createdAt + instance.policy.timelock
        => Unlocked(proposal[tx], lastApproval[tx])
==============================================================================
