---------------------------- MODULE VaultInstance ----------------------------
(* The treasury contract, vault-instance/src/lib.rs (version 13): proposals   *)
(* collect approvals from the signers and are settled once the threshold is   *)
(* met.  One action per entry point that changes state.  A call that returns  *)
(* an error is rolled back by the host, so it is a guard that fails and not a *)
(* step.  Transactions are serialised by the network; what interleaves is the *)
(* order of the calls of different people and the ledgers between them.       *)
EXTENDS CapWindow, FiniteSets, Sequences, Functions

CONSTANTS
    Address,        \* accounts and contracts
    Vault,          \* env.current_contract_address()
    Commitment,     \* the identity commitments a Merkle root may contain
    VaultId,        \* the identifiers a proof may be bound to
    Wasm,           \* code hashes an Upgrade may name
    NoZk,           \* no entry under VERIFIER
    MaxAllowed,     \* MAX_ALLOWED
    MaxBatch        \* MAX_BATCH

(* The calls the environment may make; every set is finite in a run.          *)
CONSTANTS
    Foundings,      \* constructor arguments the factory may pass
    Proposers,      \* who makes proposals
    Transfers,      \* single transfers, records of a target and an amount
    Batches,        \* batches, each a function from recipients to amounts
    Calls,          \* contract calls, with the sub-calls they pre-authorise
    CallFlows,      \* net amounts of the vault's token that a callee may move
    AdminActions,   \* configuration changes that may be proposed
    Submissions,    \* ZKApproval values that may be submitted
    Modes,          \* private_mode of the proposals that are made
    Deposits,       \* amounts other parties may send to the vault
    Endowment       \* what every address holds of the token at first

(* Bounds of the model; the contract has none of them.                        *)
CONSTANTS
    MaxTx,          \* proposals that are made
    MaxLedger,      \* last ledger
    MaxBalance      \* deposits stop here

------------------------------------------------------------------------------
Absent    == -1     \* no entry under LastApproval
NotPassed == -1     \* the proposal has fewer approvals than the threshold

Policy == [maxPerTx : (-MaxI128)..MaxI128, spendingCap : (-MaxI128)..MaxI128,
           capWindow : U32, timelock : U32, allowlistOnly : BOOLEAN]
NoPolicy == [maxPerTx |-> 0, spendingCap |-> 0, capWindow |-> 0,
             timelock |-> 0, allowlistOnly |-> FALSE]

(* The verifier is left out: whichever one is configured is assumed sound.    *)
ZkConfig == [vaultId : VaultId, root : SUBSET Commitment]

AdminAction ==
    [type : {"SetThreshold"}, threshold : Nat]
    \cup [type : {"AddSigner", "RemoveSigner", "TransferOwnership"},
          who : Address]
    \cup [type : {"AllowRecipient", "RevokeRecipient",
                  "AllowContract", "RevokeContract"}, target : Address]
    \cup [type : {"SetPolicy"}, policy : Policy]
    \cup [type : {"SetZkConfig"}, config : ZkConfig]
    \cup [type : {"SetSignerCommitments"}, commitments : SUBSET Commitment]
    \cup [type : {"Upgrade"}, wasm : Wasm]

(* From recipients to amounts; an item list that names a recipient twice is   *)
(* represented by the sum.                                                    *)
Single(target, amount) == [to \in {target} |-> amount]
Payment == Batches \cup {Single(t.target, t.amount) : t \in Transfers}
Call    == [contract : Address, auth : SUBSET Address]

(* A transfer or the items under DataKey::Batch; the entries under Call and   *)
(* CallAuth; or the entry under Admin.  Written once, with the proposal.      *)
Payload == [kind : {"payment"}, pays : Payment]
           \cup [kind : {"call"}, call : Call]
           \cup [kind : {"admin"}, action : AdminAction]

Proposal == [proposer : Address, payload : Payload, amount : I128,
             privateMode : BOOLEAN, approvalCount : Nat, executed : BOOLEAN,
             createdAt : U32]

(* Poseidon(leaf, tx) + lift * r: the hash is injective, and a lifted value   *)
(* is the same field element to the verifier but another U256 to the vault.   *)
Nullifier == [leaf : Commitment, tx : Nat, lift : Nat]
PublicInputs == [vaultId : VaultId, txId : Nat, root : SUBSET Commitment,
                 nullifier : Nullifier]
ZkApproval == [proof : {"empty", "bogus", "honest"}, inputs : PublicInputs,
               nullifier : Nullifier]

(* Constructor arguments, and the code hash the factory deployed.             *)
Founding == [owner : Address, signers : Seq(Address), threshold : Nat,
             wasm : Wasm]

(* The instance entry: every configuration key of the contract.               *)
Instance == [owner : Address, signers : SUBSET Address, threshold : Nat,
             nextTx : Nat, policy : Policy, allowed : SUBSET Address,
             callAllowed : SUBSET Address, zk : ZkConfig \cup {NoZk},
             commitments : SUBSET Commitment, retired : Nat,
             thresholdChanged : U32, wasm : Wasm]

ASSUME VaultAssumption ==
    /\ Vault \in Address
    /\ NoZk \notin ZkConfig
    /\ MaxAllowed \in Nat
    /\ MaxBatch \in Nat
    /\ IsFiniteSet(Address)
    /\ Foundings \subseteq Founding
    /\ Proposers \subseteq Address
    /\ Transfers \subseteq [target : Address, amount : (-MaxI128)..MaxI128]
    /\ \A pays \in Batches : DOMAIN pays \subseteq Address
                            /\ pays \in [DOMAIN pays -> (-MaxI128)..MaxI128]
    /\ Modes \subseteq BOOLEAN
    /\ Calls \subseteq Call
    /\ CallFlows \subseteq Int
    /\ AdminActions \subseteq AdminAction
    /\ Submissions \subseteq ZkApproval
    /\ Deposits \subseteq Nat
    /\ Endowment \in Nat
    /\ MaxTx \in Nat
    /\ MaxLedger \in 0..(MaxU32 - 1)   \* lock periods end in this life
    /\ MaxBalance \in Nat

VARIABLES
    ledger,         \* env.ledger().sequence()
    instance,       \* instance storage
    proposal,       \* DataKey::Proposal with its payload, by id
    approval,       \* DataKey::Approval: pairs of an id and a signer
    nullifier,      \* DataKey::Nullifier: the nullifiers spent
    cancelled,      \* DataKey::Cancelled: ids
    lastApproval,   \* DataKey::LastApproval, by id, or Absent
    window,         \* DataKey::Window, or NoWindow
    balance,        \* the vault's token: what every address holds
    voters,         \* history: whose approvals were counted, by id
    passedAt        \* history: since when the approvals suffice, or NotPassed

vars == <<ledger, instance, proposal, approval, nullifier, cancelled,
          lastApproval, window, balance, voters, passedAt>>

TxIds == 0..(instance.nextTx - 1)

TypeOK ==
    /\ ledger \in U32
    /\ instance \in Instance
    /\ proposal \in [TxIds -> Proposal]
    /\ approval \subseteq TxIds \X Address
    /\ nullifier \subseteq Nullifier
    /\ cancelled \subseteq TxIds
    /\ lastApproval \in [TxIds -> U32 \cup {Absent}]
    /\ window \in CapWindowRecord \cup {NoWindow}
    /\ balance \in [Address -> Int]
    /\ voters \in [TxIds -> SUBSET (Address \cup Commitment)]
    /\ passedAt \in [TxIds -> U32 \cup {NotPassed}]

------------------------------------------------------------------------------
(* __constructor: at least one signer, a threshold they can reach, no signer  *)
(* named twice.  From here on the order of the signers does not matter.       *)
Constructor(f) ==
    /\ Len(f.signers) > 0
    /\ f.threshold \in 1..Len(f.signers)
    /\ \A i, j \in 1..Len(f.signers) :
            f.signers[i] = f.signers[j] => i = j
    /\ instance = [owner |-> f.owner,
                   signers |-> {f.signers[i] : i \in 1..Len(f.signers)},
                   threshold |-> f.threshold, nextTx |-> 0,
                   policy |-> NoPolicy, allowed |-> {}, callAllowed |-> {},
                   zk |-> NoZk, commitments |-> {}, retired |-> 0,
                   thresholdChanged |-> 0, wasm |-> f.wasm]

Init ==
    /\ \E f \in Foundings : Constructor(f)
    /\ ledger = 0
    /\ proposal = <<>>
    /\ approval = {}
    /\ nullifier = {}
    /\ cancelled = {}
    /\ lastApproval = <<>>
    /\ window = NoWindow
    /\ balance = [a \in Address |-> Endowment]
    /\ voters = <<>>
    /\ passedAt = <<>>

------------------------------------------------------------------------------
(* Guards shared by the entry points.                                         *)
Signer(a)      == a \in instance.signers
OpenCancelled(tx) == ~proposal[tx].executed     \* mutant: forgets Cancelled
Open(tx)       == ~proposal[tx].executed /\ tx \notin cancelled
CurrentSet(tx) == tx >= instance.retired

CheckLimit(amount) ==
    instance.policy.maxPerTx > 0 => amount <= instance.policy.maxPerTx

(* Mutant: an empty allowlist is taken for none.                              *)
CheckRecipientUnlessEmpty(target) ==
    instance.policy.allowlistOnly /\ instance.allowed # {} =>
        target \in instance.allowed

CheckRecipient(target) ==
    instance.policy.allowlistOnly => target \in instance.allowed

CheckCallTarget(contract) ==
    contract # Vault /\ contract \in instance.callAllowed

(* Mutant: the signer who goes is still counted.                              *)
CanRemoveCounted(who) ==
    Signer(who) /\ instance.threshold <= Cardinality(instance.signers)

(* The signers who stay can reach the threshold.                              *)
CanRemove(who) ==
    LET remaining == Cardinality(instance.signers \ {who})
    IN  /\ Signer(who)
        /\ remaining # 0
        /\ instance.threshold <= remaining

RoomForOneMore(list) == Cardinality(list) <= MaxAllowed     \* mutant
RoomLeft(list) == Cardinality(list) < MaxAllowed

(* check_admin: made when the change is proposed and again when it is applied.*)
CheckAdmin(a) ==
    /\ a.type = "SetThreshold" =>
            a.threshold \in 1..Cardinality(instance.signers)
    /\ a.type = "AddSigner" => ~Signer(a.who)
    /\ a.type = "RemoveSigner" => CanRemove(a.who)
    /\ a.type = "SetPolicy" =>
            a.policy.maxPerTx >= 0 /\ a.policy.spendingCap >= 0
    /\ a.type = "AllowRecipient" => RoomLeft(instance.allowed)
    /\ a.type = "AllowContract" =>
            /\ a.target # Vault
            /\ RoomLeft(instance.callAllowed)
    /\ a.type = "TransferOwnership" => instance.owner # a.who

------------------------------------------------------------------------------
(* History, part of every action: a proposal that now has approvals enough,   *)
(* and had not before, passes in this ledger.                                 *)
NotePassed ==
    passedAt' = [tx \in DOMAIN proposal' |->
        IF proposal'[tx].approvalCount < instance'.threshold THEN NotPassed
        ELSE IF tx \in TxIds /\ passedAt[tx] # NotPassed THEN passedAt[tx]
        ELSE ledger]

(* store_proposal: the next id, no approvals, the ledger it was made in.      *)
Extend(f, value) ==
    [tx \in 0..instance.nextTx |-> IF tx = instance.nextTx THEN value ELSE f[tx]]

StoreProposal(proposer, payload, amount, private) ==
    /\ instance.nextTx < MaxTx
    /\ proposal' = Extend(proposal,
            [proposer |-> proposer, payload |-> payload, amount |-> amount,
             privateMode |-> private, approvalCount |-> 0, executed |-> FALSE,
             createdAt |-> ledger])
    /\ instance' = [instance EXCEPT !.nextTx = @ + 1]
    /\ lastApproval' = Extend(lastApproval, Absent)
    /\ voters' = Extend(voters, {})
    /\ UNCHANGED <<ledger, approval, nullifier, cancelled, window, balance>>
    /\ NotePassed

Propose(proposer, target, amount, private) ==
    /\ Signer(proposer)
    /\ amount > 0
    /\ CheckLimit(amount)
    /\ CheckRecipient(target)
    /\ StoreProposal(proposer,
            [kind |-> "payment", pays |-> Single(target, amount)],
            amount, private)

(* propose_batch: the limit applies to the total, which must not overflow.    *)
ProposeBatch(proposer, pays, private) ==
    /\ Signer(proposer)
    /\ Cardinality(DOMAIN pays) \in 1..MaxBatch
    /\ \A to \in DOMAIN pays : pays[to] > 0 /\ CheckRecipient(to)
    /\ SumFunction(pays) \in I128
    /\ CheckLimit(SumFunction(pays))
    /\ StoreProposal(proposer, [kind |-> "payment", pays |-> pays],
            SumFunction(pays), private)

ProposeCall(proposer, call, private) ==
    /\ Signer(proposer)
    /\ CheckCallTarget(call.contract)
    /\ \A contract \in call.auth : CheckCallTarget(contract)
    /\ StoreProposal(proposer, [kind |-> "call", call |-> call], 0, private)

ProposeAdmin(proposer, action) ==
    /\ Signer(proposer)
    /\ CheckAdmin(action)
    /\ StoreProposal(proposer, [kind |-> "admin", action |-> action], 0, FALSE)

------------------------------------------------------------------------------
(* The guards of approve, and the approval recorded in p.                     *)
CanApprove(tx, signer) ==
    /\ Signer(signer)
    /\ Open(tx)
    /\ CurrentSet(tx)
    /\ ~proposal[tx].privateMode
    /\ <<tx, signer>> \notin approval

OneMore(tx) == [proposal[tx] EXCEPT !.approvalCount = @ + 1]

(* Mutant: every approval from the threshold on restamps, as before v13.      *)
NoteEveryApproval(tx) ==
    IF proposal[tx].approvalCount + 1 >= instance.threshold
    THEN [lastApproval EXCEPT ![tx] = ledger]
    ELSE lastApproval

(* note_approval: the approval that reaches the threshold is stamped, the     *)
(* ones after it are not.                                                     *)
NoteApproval(tx) ==
    IF proposal[tx].approvalCount + 1 = instance.threshold
    THEN [lastApproval EXCEPT ![tx] = ledger]
    ELSE lastApproval

(* What every kind of approval does besides its own double-vote ledgers.      *)
RecordApproval(tx, voter) ==
    /\ lastApproval' = NoteApproval(tx)
    /\ voters' = [voters EXCEPT ![tx] = @ \cup {voter}]
    /\ UNCHANGED <<ledger, cancelled>>
    /\ NotePassed

Approve(tx, signer) ==
    /\ CanApprove(tx, signer)
    /\ approval' = approval \cup {<<tx, signer>>}
    /\ proposal' = [proposal EXCEPT ![tx] = OneMore(tx)]
    /\ UNCHANGED <<instance, nullifier, window, balance>>
    /\ RecordApproval(tx, signer)

(* The circuit proves that the leaf is under the root and that the nullifier  *)
(* is derived from it and the transaction.                                    *)
Provable(inputs) ==
    /\ inputs.nullifier.leaf \in inputs.root
    /\ inputs.nullifier.tx = inputs.txId

(* What check_proof asks of the inputs, each with its mutant: the nullifier   *)
(* is written below the field modulus, and the proof is about the configured  *)
(* root, this proposal, and the nullifier that will be marked as spent.       *)
AnyLift(zk)         == TRUE
Canonical(zk)       == zk.inputs.nullifier.lift = 0
AnyRoot(zk)         == TRUE
OwnRoot(zk)         == zk.inputs.root = instance.zk.root
AnyProposal(tx, zk) == TRUE
OwnProposal(tx, zk) == zk.inputs.txId = tx
AnyNullifier(zk)    == TRUE
OwnNullifier(zk)    == zk.inputs.nullifier = zk.nullifier

(* check_proof: every input below the field modulus and pinned to what the    *)
(* vault knows, then the verifier.  Nothing is checked without a ZkConfig.    *)
CheckProof(tx, zk) ==
    instance.zk # NoZk =>
        /\ Canonical(zk)
        /\ zk.inputs.vaultId = instance.zk.vaultId
        /\ OwnProposal(tx, zk)
        /\ OwnRoot(zk)
        /\ OwnNullifier(zk)
        /\ zk.proof = "honest" /\ Provable(zk.inputs)

CanApprovePrivately(tx, zk) ==
    /\ Open(tx)
    /\ CurrentSet(tx)
    /\ proposal[tx].privateMode
    /\ zk.nullifier \notin nullifier
    /\ zk.proof # "empty"
    /\ CheckProof(tx, zk)

(* approve_zk: both ledgers, by address and by nullifier.  A verified proof   *)
(* is the vote of the leaf it proves, whoever submits it.                     *)
ApproveZk(tx, signer, zk) ==
    /\ Signer(signer)
    /\ <<tx, signer>> \notin approval
    /\ CanApprovePrivately(tx, zk)
    /\ approval' = approval \cup {<<tx, signer>>}
    /\ nullifier' = nullifier \cup {zk.nullifier}
    /\ proposal' = [proposal EXCEPT ![tx] = OneMore(tx)]
    /\ UNCHANGED <<instance, window, balance>>
    /\ RecordApproval(tx, IF instance.zk = NoZk THEN signer
                          ELSE zk.nullifier.leaf)

(* approve_zk_anon: no address, so only the nullifier; refused without a      *)
(* ZkConfig.                                                                  *)
ApproveZkAnon(tx, zk) ==
    /\ instance.zk # NoZk
    /\ CanApprovePrivately(tx, zk)
    /\ nullifier' = nullifier \cup {zk.nullifier}
    /\ proposal' = [proposal EXCEPT ![tx] = OneMore(tx)]
    /\ UNCHANGED <<instance, approval, window, balance>>
    /\ RecordApproval(tx, zk.nullifier.leaf)

------------------------------------------------------------------------------
RetireNothing(i) == i       \* mutant: no retirement, as before v7

(* apply_admin.  Retiring moves one watermark to the next id, so that no      *)
(* proposal made so far can be approved or settled again.                     *)
Retire(i) == [i EXCEPT !.retired = i.nextTx]

SetThreshold(a) ==
    /\ a.type = "SetThreshold"
    /\ instance' = [instance EXCEPT !.threshold = a.threshold,
                                    !.thresholdChanged = ledger]

AddSigner(a) ==
    /\ a.type = "AddSigner"
    /\ instance' = Retire([instance EXCEPT !.signers = @ \cup {a.who}])

RemoveSigner(a) ==
    /\ a.type = "RemoveSigner"
    /\ instance' = Retire([instance EXCEPT !.signers = @ \ {a.who}])

SetPolicy(a) ==
    /\ a.type = "SetPolicy"
    /\ instance' = [instance EXCEPT !.policy = a.policy]

AllowRecipient(a) ==
    /\ a.type = "AllowRecipient"
    /\ instance' = [instance EXCEPT !.allowed = @ \cup {a.target}]

RevokeRecipient(a) ==
    /\ a.type = "RevokeRecipient"
    /\ instance' = [instance EXCEPT !.allowed = @ \ {a.target}]

AllowContract(a) ==
    /\ a.type = "AllowContract"
    /\ instance' = [instance EXCEPT !.callAllowed = @ \cup {a.target}]

RevokeContract(a) ==
    /\ a.type = "RevokeContract"
    /\ instance' = [instance EXCEPT !.callAllowed = @ \ {a.target}]

SetZkConfig(a) ==
    /\ a.type = "SetZkConfig"
    /\ instance' = Retire([instance EXCEPT !.zk = a.config])

SetSignerCommitments(a) ==
    /\ a.type = "SetSignerCommitments"
    /\ instance' = Retire([instance EXCEPT !.commitments = a.commitments])

TransferOwnership(a) ==
    /\ a.type = "TransferOwnership"
    /\ instance' = [instance EXCEPT !.owner = a.who]

(* update_current_contract_wasm: the code that runs next is taken to be a     *)
(* build of this same contract.                                               *)
Upgrade(a) ==
    /\ a.type = "Upgrade"
    /\ instance' = Retire([instance EXCEPT !.wasm = a.wasm])

ApplyAdmin(a) ==
    /\ CheckAdmin(a)
    /\ \/ SetThreshold(a)
       \/ AddSigner(a)
       \/ RemoveSigner(a)
       \/ SetPolicy(a)
       \/ AllowRecipient(a)
       \/ RevokeRecipient(a)
       \/ AllowContract(a)
       \/ RevokeContract(a)
       \/ SetZkConfig(a)
       \/ SetSignerCommitments(a)
       \/ TransferOwnership(a)
       \/ Upgrade(a)

------------------------------------------------------------------------------
(* unlock_at: one lock period after the proposal passed or the rule for       *)
(* passing changed, whichever came later.                                     *)
PassedStamp(p, last) == IF last = Absent THEN p.createdAt ELSE last

UnlockAtCreated(p, last) ==     \* mutant: from the proposal, as before v11
    IF instance.policy.timelock = 0 THEN 0
    ELSE SatU32(p.createdAt + instance.policy.timelock)

UnlockAt(p, last) ==
    LET passed == PassedStamp(p, last)
        moved  == instance.thresholdChanged
    IN  IF instance.policy.timelock = 0 THEN 0
        ELSE SatU32((IF passed > moved THEN passed ELSE moved)
                    + instance.policy.timelock)

Unlocked(p, last) ==
    instance.policy.timelock > 0 => ledger >= UnlockAt(p, last)

(* Mutant: the cap is judged and nothing is booked against it.                *)
ChargeWindowUnbooked(amount) ==
    /\ CanCharge(window, <<>>, instance.policy, ledger, amount)
    /\ UNCHANGED window

(* charge_window.  A vault made by this version has no legacy accounting.     *)
ChargeWindow(amount) ==
    /\ CanCharge(window, <<>>, instance.policy, ledger, amount)
    /\ window' = Charged(window, <<>>, instance.policy, ledger, amount)

SettleAdmin(p) ==
    /\ p.payload.kind = "admin"
    /\ ApplyAdmin(p.payload.action)
    /\ UNCHANGED <<window, balance>>

(* The callee runs with the vault's authority and may move the vault's token  *)
(* to anybody, or bring some in.  Only a net outflow is charged; the policy   *)
(* is judged on what left and on the contract that was called.                *)
SettleCall(p) ==
    /\ p.payload.kind = "call"
    /\ CheckCallTarget(p.payload.call.contract)
    /\ \A contract \in p.payload.call.auth : CheckCallTarget(contract)
    /\ \E to \in Address \ {Vault}, moved \in CallFlows :
        /\ moved <= balance[Vault]
        /\ -moved <= balance[to]
        /\ balance' = [balance EXCEPT ![Vault] = @ - moved, ![to] = @ + moved]
        /\ IF moved > 0
           THEN /\ CheckLimit(moved)
                /\ ChargeWindow(moved)
                /\ CheckRecipient(p.payload.call.contract)
           ELSE UNCHANGED window
    /\ UNCHANGED instance

(* A transfer, or every item of a batch.                                      *)
SettlePayment(p) ==
    /\ p.payload.kind = "payment"
    /\ CheckLimit(p.amount)
    /\ balance[Vault] >= p.amount
    /\ \A to \in DOMAIN p.payload.pays : CheckRecipient(to)
    /\ ChargeWindow(p.amount)
    /\ balance' = [a \in Address |->
            balance[a]
            + (IF a \in DOMAIN p.payload.pays THEN p.payload.pays[a] ELSE 0)
            - (IF a = Vault THEN p.amount ELSE 0)]
    /\ UNCHANGED instance

(* What run does with the proposal as it stands, p.                           *)
PassedOneShort(p) == p.approvalCount + 1 >= instance.threshold  \* mutant
Passed(p) == p.approvalCount >= instance.threshold

Settle(tx, p) ==
    /\ proposal' = [proposal EXCEPT ![tx] = [p EXCEPT !.executed = TRUE]]
    /\ \/ SettleAdmin(p)
       \/ SettleCall(p)
       \/ SettlePayment(p)

Execute(tx) ==
    /\ Open(tx)
    /\ CurrentSet(tx)
    /\ Passed(proposal[tx])
    /\ Unlocked(proposal[tx], lastApproval[tx])
    /\ Settle(tx, proposal[tx])
    /\ UNCHANGED <<ledger, approval, nullifier, cancelled, lastApproval, voters>>
    /\ NotePassed

(* approve_and_execute: approve, and settle in the same transaction when the  *)
(* approval made the proposal ready.  If settling fails so does the approval. *)
ApproveAndExecute(tx, signer) ==
    /\ CanApprove(tx, signer)
    /\ approval' = approval \cup {<<tx, signer>>}
    /\ UNCHANGED nullifier
    /\ IF Passed(OneMore(tx)) /\ Unlocked(OneMore(tx), NoteApproval(tx)[tx])
       THEN Settle(tx, OneMore(tx))
       ELSE /\ proposal' = [proposal EXCEPT ![tx] = OneMore(tx)]
            /\ UNCHANGED <<instance, window, balance>>
    /\ RecordApproval(tx, signer)

(* Mutant: cancel does not look at the state of the proposal.                 *)
CancelAnything(tx, caller) ==
    /\ caller = proposal[tx].proposer \/ (~CurrentSet(tx) /\ Signer(caller))
    /\ cancelled' = cancelled \cup {tx}
    /\ UNCHANGED <<ledger, instance, proposal, approval, nullifier,
                   lastApproval, window, balance, voters>>
    /\ NotePassed

(* cancel: the proposer, or for a retired proposal any current signer.        *)
Cancel(tx, caller) ==
    /\ \/ caller = proposal[tx].proposer
       \/ ~CurrentSet(tx) /\ Signer(caller)
    /\ Open(tx)
    /\ cancelled' = cancelled \cup {tx}
    /\ UNCHANGED <<ledger, instance, proposal, approval, nullifier,
                   lastApproval, window, balance, voters>>
    /\ NotePassed

------------------------------------------------------------------------------
(* Ledgers close, and anybody may send the vault tokens.                      *)
CloseLedger ==
    /\ ledger < MaxLedger
    /\ ledger' = ledger + 1
    /\ UNCHANGED <<instance, proposal, approval, nullifier, cancelled,
                   lastApproval, window, balance, voters>>
    /\ NotePassed

Deposit(from, amount) ==
    /\ from # Vault
    /\ amount <= balance[from]
    /\ balance[Vault] + amount <= MaxBalance
    /\ balance' = [balance EXCEPT ![from] = @ - amount, ![Vault] = @ + amount]
    /\ UNCHANGED <<ledger, instance, proposal, approval, nullifier, cancelled,
                   lastApproval, window, voters>>
    /\ NotePassed

Next ==
    \/ CloseLedger
    \/ \E from \in Address, amount \in Deposits : Deposit(from, amount)
    \/ \E proposer \in Proposers, private \in Modes :
        \/ \E t \in Transfers :
                Propose(proposer, t.target, t.amount, private)
        \/ \E pays \in Batches : ProposeBatch(proposer, pays, private)
        \/ \E call \in Calls : ProposeCall(proposer, call, private)
    \/ \E proposer \in Proposers, action \in AdminActions :
        ProposeAdmin(proposer, action)
    \/ \E tx \in TxIds :
        \/ Execute(tx)
        \/ \E zk \in Submissions : ApproveZkAnon(tx, zk)
        \/ \E signer \in Address :
            \/ Approve(tx, signer)
            \/ ApproveAndExecute(tx, signer)
            \/ \E zk \in Submissions : ApproveZk(tx, signer, zk)
            \/ Cancel(tx, signer)

Spec == Init /\ [][Next]_vars

------------------------------------------------------------------------------
JustExecuted(tx) == ~proposal[tx].executed /\ proposal'[tx].executed
Outflow == balance[Vault] - balance'[Vault]
Used == WindowUsed(window, <<>>, instance.policy, ledger)
Config(i) == [i EXCEPT !.nextTx = 0]

(* Who may vote on a proposal: the signers, or the leaves under the published *)
(* root when a private proposal is verified on chain.                         *)
Verified(tx) == proposal[tx].privateMode /\ instance.zk # NoZk
Electorate(tx) ==
    IF Verified(tx) THEN instance.zk.root ELSE instance.signers

(* The vault is never stranded: its current signers can reach the threshold   *)
(* (constructor, SetThreshold and RemoveSigner together; a vault that fails   *)
(* this cannot even pass the SetThreshold that would repair it).              *)
ThresholdReachable ==
    instance.threshold \in 1..Cardinality(instance.signers)

(* approval_count, a plain counter fed by three entry points with two         *)
(* different double-vote ledgers, counts every voter exactly once.            *)
VotesAreDistinct ==
    \A tx \in TxIds : proposal[tx].approvalCount = Cardinality(voters[tx])

(* Behind every vote counted on a proposal that can still be settled stands   *)
(* an entry that stops the same voter from being counted again, and a place   *)
(* in the electorate of today.  Every admin action keeps this or retires.     *)
BallotsBacked ==
    \A tx \in TxIds : CurrentSet(tx) =>
        \A v \in voters[tx] :
            /\ v \in Electorate(tx)
            /\ IF Verified(tx)
               THEN [leaf |-> v, tx |-> tx, lift |-> 0] \in nullifier
               ELSE <<tx, v>> \in approval

(* A proposal is settled only by a threshold, as it is now, of distinct       *)
(* voters who are all still entitled to vote, however the signer set, the     *)
(* root and the threshold moved while the approvals were collected.           *)
SettledByQuorum ==
    [][\A tx \in TxIds :
            JustExecuted(tx) =>
                /\ Cardinality(voters'[tx]) >= instance.threshold
                /\ voters'[tx] \subseteq Electorate(tx)]_vars

(* The rules cost as much as the money: no configuration key changes except   *)
(* by an admin proposal that a quorum of the current signers approved.        *)
RulesCostAQuorum ==
    [][Config(instance') # Config(instance) =>
            \E tx \in TxIds :
                /\ JustExecuted(tx)
                /\ proposal[tx].payload.kind = "admin"
                /\ Cardinality(voters'[tx] \cap instance.signers)
                        >= instance.threshold]_vars

(* Under a time-lock nothing is settled in the transaction that makes it      *)
(* pass, nor before a full lock period has gone by since it passed.           *)
LockRespected ==
    [][\A tx \in TxIds :
            JustExecuted(tx) /\ instance.policy.timelock > 0 =>
                /\ passedAt[tx] # NotPassed
                /\ ledger >= SatU32(passedAt[tx] + instance.policy.timelock)]_vars

(* Once a proposal has passed, only a new policy or a threshold change moves  *)
(* its unlock ledger: surplus approvals do not buy another lock period.       *)
LockNotPostponed ==
    [][\A tx \in TxIds :
            /\ passedAt[tx] # NotPassed
            /\ instance'.policy = instance.policy
            /\ instance'.thresholdChanged = instance.thresholdChanged
            => UnlockAt(proposal[tx], lastApproval[tx])'
                <= UnlockAt(proposal[tx], lastApproval[tx])]_vars

(* Executed and cancelled are final and exclude each other: nothing is paid   *)
(* twice, paid after it was cancelled, or cancelled after it was paid.        *)
SettledIsFinal ==
    [][\A tx \in TxIds :
            ~Open(tx) => /\ proposal'[tx] = proposal[tx]
                         /\ (tx \in cancelled) = (tx \in cancelled')]_vars

(* No allowlist outgrows MAX_ALLOWED, although proposals that were each made  *)
(* while there was room may be settled in any order.                          *)
AllowlistsBounded ==
    /\ Cardinality(instance.allowed) <= MaxAllowed
    /\ Cardinality(instance.callAllowed) <= MaxAllowed

(* What leaves the vault is within the guards in force when it leaves: the    *)
(* limit per transaction, and the cap, against which it is fully booked.      *)
OutflowGuarded ==
    [][Outflow > 0 =>
            /\ instance.policy.maxPerTx > 0 =>
                    Outflow <= instance.policy.maxPerTx
            /\ instance.policy.spendingCap > 0 =>
                    /\ Used' >= Used + Outflow
                    /\ Used' <= instance.policy.spendingCap]_vars

(* A payment that was approved before the allowlist was tightened still pays  *)
(* nobody outside it.                                                         *)
PaymentsToAllowed ==
    [][\A tx \in TxIds, a \in Address :
            /\ JustExecuted(tx) /\ proposal[tx].payload.kind = "payment"
            /\ instance.policy.allowlistOnly
            /\ balance'[a] > balance[a]
            => a \in instance.allowed]_vars

------------------------------------------------------------------------------
(* Sentences of the code that TLC refutes; the README says how.               *)
(* "funds may only go to allowlisted recipients", whatever the kind of the    *)
(* proposal that moves them.                                                  *)
FundsToAllowed ==
    [][\A a \in Address \ {Vault} :
            /\ instance.policy.allowlistOnly
            /\ Outflow > 0
            /\ balance'[a] > balance[a]
            => a \in instance.allowed]_vars

Half(tx, type) ==
    /\ proposal[tx].payload.kind = "admin"
    /\ proposal[tx].payload.action.type = type

(* "Approve both and verification turns on": of the two proposals that publish *)
(* a signer set, executing one leaves the other as executable as it was.      *)
PublicationHalvesCoexist ==
    [][\A leaves, root \in TxIds :
            /\ Half(leaves, "SetSignerCommitments") /\ Half(root, "SetZkConfig")
            /\ JustExecuted(leaves) /\ Open(root) /\ CurrentSet(root)
            => CurrentSet(root)']_vars

(* "a vault with a time-lock never settles here": approve_and_execute settles *)
(* nothing while a lock is in force.                                          *)
ApprovalNeverSettlesUnderLock ==
    [][\A tx \in TxIds :
            /\ instance.policy.timelock > 0
            /\ proposal'[tx].approvalCount > proposal[tx].approvalCount
            => ~JustExecuted(tx)]_vars
==============================================================================
