--------------------------- MODULE MCVaultInstance ---------------------------
(* Values for the runs of VaultInstance.  Three people, of whom up to three   *)
(* are signers at first, a payee, a contract that can be called, the vault.   *)
(* Each run follows several stories side by side: a story is an initial state *)
(* and the inputs that occur together in it.                                  *)
EXTENDS VaultRefinement, TLC

CONSTANTS alice, bob, carol, payee, dex, vault, leafA, leafB, v1, v2

VARIABLE story

People    == {alice, bob, carol}
Everybody == People \cup {payee, dex, vault}

TwoOfTwo   == [owner |-> alice, signers |-> <<alice, bob>>, threshold |-> 2,
               wasm |-> v1]
OneOfTwo   == [TwoOfTwo EXCEPT !.threshold = 1]
TwoOfThree == [TwoOfTwo EXCEPT !.signers = <<alice, bob, carol>>]
Repeated   == [TwoOfTwo EXCEPT !.signers = <<alice, alice>>]
OneOfOne   == [owner |-> alice, signers |-> <<alice>>, threshold |-> 1,
               wasm |-> v1]

ToThreshold(t) == [type |-> "SetThreshold", threshold |-> t]
Who(type, a)   == [type |-> type, who |-> a]
Target(type, a) == [type |-> type, target |-> a]
ToPolicy(p)    == [type |-> "SetPolicy", policy |-> p]
Locked(l)      == ToPolicy([NoPolicy EXCEPT !.timelock = l])

(* Signer-set changes: everything that retires, and a threshold change.       *)
GovernanceActions ==
    {ToThreshold(1), Who("AddSigner", carol), Who("RemoveSigner", bob)}

Pay(a, n) == [target |-> a, amount |-> n]
OneTransfer == {Pay(payee, 1)}

(* Time-lock: installed by proposal 0; then the threshold moves under it.     *)
LockActions == {ToThreshold(1), ToThreshold(3)}

------------------------------------------------------------------------------
(* Private approvals: verification is switched on, and moved to another root, *)
(* by proposals that compete with the private ones.                           *)
Root        == {leafA, leafB}
Publish(root) == [type |-> "SetZkConfig",
                  config |-> [vaultId |-> 1, root |-> root]]
PrivateActions   == {Publish(Root), Publish({leafB})}

Null(leaf, tx) == [leaf |-> leaf, tx |-> tx, lift |-> 0]
Honest(leaf, tx, root) ==
    [proof |-> "honest", nullifier |-> Null(leaf, tx),
     inputs |-> [vaultId |-> 1, txId |-> tx, root |-> root,
                 nullifier |-> Null(leaf, tx)]]

(* Honest proofs, and every way for an approval to differ from one: a proof   *)
(* of another vault, a nullifier that is not the one proved, the same field   *)
(* element written with the modulus added, a proof that does not verify.      *)
Sample == Honest(leafA, 1, Root)
PrivateSubmissions ==
    {Honest(leaf, tx, Root) : leaf \in Root, tx \in 0..1}
    \cup {Honest(leafB, 1, {leafB}),
          [Sample EXCEPT !.inputs.vaultId = 0],
          [Sample EXCEPT !.nullifier.tx = 2],
          [Sample EXCEPT !.nullifier.lift = 1, !.inputs.nullifier.lift = 1],
          [Sample EXCEPT !.proof = "bogus", !.nullifier.leaf = leafB,
                         !.inputs.nullifier.leaf = leafB],
          [Sample EXCEPT !.proof = "empty"]}

------------------------------------------------------------------------------
(* Spending: one signer, so that every proposal soon executes, and guards     *)
(* that are put in force or lifted while payments wait.  Proposal 0 puts the  *)
(* dex on the call allowlist.                                                 *)
Limits  == [maxPerTx |-> 2, spendingCap |-> 3, capWindow |-> 1,
            timelock |-> 0, allowlistOnly |-> FALSE]
Listed  == [NoPolicy EXCEPT !.allowlistOnly = TRUE]
SpendingActions == {ToPolicy(Limits), ToPolicy(Listed),
                    Target("AllowRecipient", payee),
                    Target("AllowRecipient", dex)}
SpendingTransfers == {Pay(payee, 2), Pay(vault, 3), Pay(bob, 0)}
SpendingBatches   == {(payee :> 1 @@ bob :> 2)}
SpendingCalls     == {[contract |-> dex, auth |-> {}]}
SpendingFlows     == {-1, 2}

(* The rest of the configuration, each change proposed twice over.            *)
HousekeepingActions ==
    {Who("TransferOwnership", bob), [type |-> "Upgrade", wasm |-> v2],
     Target("AllowRecipient", payee), Target("RevokeRecipient", payee),
     Target("AllowContract", dex), Target("RevokeContract", dex),
     [type |-> "SetSignerCommitments", commitments |-> Root]}

------------------------------------------------------------------------------
(* The stories.  first: the action whose execution they begin with, if any;   *)
(* kinds: what else is proposed, private or not; txs, ledgers, held: bounds of *)
(* the story; cancels, deposits: whether proposals are withdrawn and XLM is   *)
(* sent to the vault from outside.                                            *)
Plain == [founding |-> TwoOfTwo, first |-> {}, kinds |-> {"payment"}, private |-> FALSE,
          txs |-> 3, ledgers |-> 0, held |-> MaxBalance, cancels |-> TRUE, deposits |-> FALSE]
Story == [
    governance   |-> Plain @@ [actions |-> GovernanceActions],
    repeated     |-> [Plain EXCEPT !.founding = Repeated] @@ [actions |-> {}],
    lowered      |-> [Plain EXCEPT !.founding = OneOfTwo, !.txs = 2] @@ [actions |-> GovernanceActions],
    timelock     |-> [Plain EXCEPT !.founding = TwoOfThree, !.first = {Locked(2)},
                        !.ledgers = 4, !.cancels = FALSE] @@ [actions |-> LockActions],
    private      |-> [Plain EXCEPT !.private = TRUE] @@ [actions |-> PrivateActions],
    spending     |-> [Plain EXCEPT !.founding = OneOfOne, !.txs = 4, !.ledgers = 1,
                        !.first = {Target("AllowContract", dex)},
                        !.kinds = {"payment", "call"}, !.cancels = FALSE] @@ [actions |-> SpendingActions],
    housekeeping |-> [Plain EXCEPT !.founding = OneOfOne, !.kinds = {}, !.deposits = TRUE,
                        !.held = Endowment + 1] @@ [actions |-> HousekeepingActions]]

(* Proposal 0 of a story that begins with an action: approved by founders who *)
(* suffice, before anything else is done.                                     *)
Begun(s) == s.first = {} \/ (0 \in TxIds /\ proposal[0].executed)
Beginning(s) ==
    /\ instance'.nextTx <= 1 /\ ledger' = 0 /\ cancelled' = {}
    /\ \A tx \in DOMAIN proposal' :
            /\ proposal'[tx].payload.kind = "admin"
            /\ proposal'[tx].payload.action \in s.first
    /\ approval' \subseteq {0} \X {alice, bob}

Proposed(s, p) ==
    IF p.payload.kind = "admin" THEN p.payload.action \in s.actions
    ELSE p.payload.kind \in s.kinds /\ p.privateMode = s.private

(* A step that stays in the story.                                            *)
books == <<ledger, instance, proposal, approval, nullifier, cancelled>>
Told(s) ==
    /\ ~Begun(s) => Beginning(s)
    /\ Begun(s) /\ instance'.nextTx > instance.nextTx => Proposed(s, proposal'[instance.nextTx])
    /\ instance'.nextTx <= s.txs /\ ledger' <= s.ledgers /\ balance'[Vault] <= s.held
    /\ (s.cancels \/ cancelled' = cancelled) /\ (s.deposits \/ books' # books)

Begin(s) == Init /\ story = s /\ Constructor(Story[s].founding)
Tell     == Next /\ Told(Story[story]) /\ UNCHANGED story

(* Who decides: the signer set and the threshold move, a lock is in force,    *)
(* approvals are private.                                                     *)
RulesFoundings == {TwoOfTwo, OneOfTwo, TwoOfThree, Repeated}
RulesActions   ==
    GovernanceActions \cup LockActions \cup {Locked(2)} \cup PrivateActions
RulesSpec ==
    /\ \E s \in {"governance", "lowered", "repeated", "timelock", "private"} : Begin(s)
    /\ [][Tell]_<<vars, story>>

(* What is paid, under which guards, and the rest of the configuration.       *)
MoneyFoundings == {OneOfOne}
MoneyActions   == SpendingActions \cup HousekeepingActions
MoneySpec ==
    /\ \E s \in {"spending", "housekeeping"} : Begin(s)
    /\ [][Tell]_<<vars, story>>
==============================================================================
