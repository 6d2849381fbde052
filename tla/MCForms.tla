------------------------------- MODULE MCForms -------------------------------
(* The "New transaction" form and the boxes of amounts, one story each:       *)
(*   cap, list  a vault whose only signer is alice, who also works from another*)
(*              window, with the cap or the other guards in force, and a page  *)
(*              that reads the policy and what these guards go by;             *)
(*   limit      the box of one amount, in binary.                              *)
EXTENDS ProposeForm, Amounts

CONSTANTS
    alice, payee, other, vault, v1

VARIABLE story

------------------------------------------------------------------------------
Solo == {[owner |-> alice, signers |-> <<alice>>, threshold |-> 1, wasm |-> v1]}

Cap   == [NoPolicy EXCEPT !.spendingCap = 2]
Limit == [NoPolicy EXCEPT !.maxPerTx = 1, !.allowlistOnly = TRUE]

Payments ==
    {[target |-> payee, amount |-> 1], [target |-> other, amount |-> 2]}
Spread == {[to \in {payee, other} |-> 1]}
Swap   == {[contract |-> other, auth |-> {}]}
Admin ==
    {[type |-> "SetPolicy", policy |-> Cap],
     [type |-> "RevokeRecipient", target |-> payee]}

Founded(p) ==
    /\ ledger = 0
    /\ instance =
         [owner |-> alice, signers |-> {alice}, threshold |-> 1, nextTx |-> 0,
          policy |-> p, allowed |-> {payee}, callAllowed |-> {other},
          zk |-> NoZk, commitments |-> {}, retired |-> 0,
          thresholdChanged |-> 0, wasm |-> v1]
    /\ proposal = <<>> /\ approval = {} /\ nullifier = {} /\ cancelled = {}
    /\ lastApproval = <<>> /\ window = NoWindow
    /\ balance = [a \in Address |-> Endowment]
    /\ voters = <<>> /\ passedAt = <<>>

------------------------------------------------------------------------------
Begin ==
    /\ \/ story = "cap" /\ Founded(Cap)
       \/ story = "list" /\ Founded(Limit)
       \/ story = "limit" /\ Founded(NoPolicy)
    /\ FormInit /\ BoxInit
    /\ story # "limit" => amount = 0
Tell ==
    /\ UNCHANGED story
    /\ \/ story = "cap" /\ FormNext /\ page'.allowed = page.allowed /\ UNCHANGED box
       \/ story = "list" /\ FormNext /\ page'.spent = page.spent /\ UNCHANGED <<readAt, box>>
       \/ story = "limit" /\ BoxNext /\ UNCHANGED all

FormsSpec == Begin /\ [][Tell]_<<story, all, box>>

==============================================================================
