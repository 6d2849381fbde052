-------------------------- MODULE VaultSafetyProofs --------------------------
(* What the rules of a vault are worth.  They cost a quorum and leave a       *)
(* threshold somebody can reach; every step is one of the multisig or none of *)
(* its business; and between an approved proposal and the money stand a lock  *)
(* that is a lock, a settlement that is final, and guards that are asked when *)
(* it leaves, of which the page's form warns in time.                         *)
EXTENDS VaultRefinement, VaultBudget, ProposeForm, VaultProofs, WellFoundedInduction

------------------------------------------------------------------------------
(* The configuration changes in a settled admin proposal and nowhere else.    *)
LEMMA SameConfig ==
    ASSUME instance \in Instance, instance' \in Instance,
           Config(instance') = Config(instance)
    PROVE  /\ instance'.signers = instance.signers
           /\ instance'.threshold = instance.threshold
           /\ instance'.allowed = instance.allowed
           /\ instance'.callAllowed = instance.callAllowed
<1>1. /\ \A i \in Instance : /\ Config(i).signers = i.signers
                             /\ Config(i).threshold = i.threshold
                             /\ Config(i).allowed = i.allowed
                             /\ Config(i).callAllowed = i.callAllowed
  BY DEF Config, Instance
<1> QED
  BY <1>1

LEMMA StoringKeepsConfig ==
    ASSUME StateOK, NEW proposer, NEW payload, NEW amount, NEW private,
           StoreProposal(proposer, payload, amount, private)
    PROVE  Config(instance') = Config(instance)
BY DEF StateOK, StoreProposal, Config, Instance

ChangesRules(tx) ==
    /\ Settles(tx)
    /\ proposal[tx].payload.kind = "admin"
    /\ ApplyAdmin(proposal[tx].payload.action)

LEMMA SettlingChangesRules ==
    ASSUME StateOK, NEW tx \in TxIds, NEW p, Settle(tx, p), Settles(tx),
           p.payload = proposal[tx].payload, instance' # instance
    PROVE  ChangesRules(tx)
BY DEF Settle, SettleAdmin, SettleCall, SettlePayment, ChangesRules

LEMMA OnlyAdminChangesRules ==
    ASSUME StateOK, [OpenNext]_vars, Config(instance') # Config(instance)
    PROVE  \E tx \in TxIds : ChangesRules(tx)
<1>1. instance' # instance
  OBVIOUS
<1>2. ASSUME NEW tx \in TxIds, NEW signer \in Address
      PROVE  /\ ~Approve(tx, signer)
             /\ \A zk \in ZkApproval : ~ApproveZk(tx, signer, zk)
             /\ ~Cancel(tx, signer)
  BY <1>1 DEF Approve, ApproveZk, Cancel
<1>3. ASSUME NEW tx \in TxIds, NEW zk \in ZkApproval
      PROVE  ~ApproveZkAnon(tx, zk)
  BY <1>1 DEF ApproveZkAnon
<1>4. ASSUME NEW proposer, NEW private
      PROVE  /\ \A t \in Transfers :
                    ~Propose(proposer, t.target, t.amount, private)
             /\ \A pays \in Batches : ~ProposeBatch(proposer, pays, private)
             /\ \A call \in Calls : ~ProposeCall(proposer, call, private)
             /\ \A action \in AdminActions : ~ProposeAdmin(proposer, action)
  BY StoringKeepsConfig DEF Propose, ProposeBatch, ProposeCall, ProposeAdmin
<1>5. /\ ~CloseLedger
      /\ \A from \in Address, amount \in Deposits : ~Deposit(from, amount)
      /\ ~UNCHANGED vars
  BY <1>1 DEF CloseLedger, Deposit, vars
<1>6. ASSUME NEW tx \in TxIds, Execute(tx)
      PROVE  ChangesRules(tx)
  BY <1>1, <1>6, SettlingChangesRules DEF Execute, Settles
<1>7. ASSUME NEW tx \in TxIds, NEW signer \in Address,
             ApproveAndExecute(tx, signer)
      PROVE  ChangesRules(tx)
  <2>1. /\ Passed(OneMore(tx)) /\ Unlocked(OneMore(tx), NoteApproval(tx)[tx])
        /\ Settle(tx, OneMore(tx))
    BY <1>1, <1>7 DEF ApproveAndExecute
  <2>2. OneMore(tx).payload = proposal[tx].payload
    BY DEF OneMore, StateOK, Proposal
  <2> QED
    BY <1>1, <1>7, <2>1, <2>2, SettlingChangesRules DEF Settles
<1> QED
  BY <1>2, <1>3, <1>4, <1>5, <1>6, <1>7, VaultAssumption
  DEF OpenNext, Next

------------------------------------------------------------------------------
(* What each admin action does to the sets that are counted.                  *)
RulesOK == ThresholdReachable /\ AllowlistsBounded

LEMMA FiniteLists ==
    ASSUME instance \in Instance
    PROVE  /\ IsFiniteSet(instance.signers)
           /\ IsFiniteSet(instance.allowed)
           /\ IsFiniteSet(instance.callAllowed)
<1>1. \A S \in SUBSET Address : IsFiniteSet(S)
  BY FS_Subset, VaultAssumption
<1> QED
  BY <1>1 DEF Instance

LEMMA OneMoreOrLess ==
    ASSUME NEW S, NEW x, IsFiniteSet(S)
    PROVE  /\ Cardinality(S) \in Nat
           /\ Cardinality(S \cup {x}) \in {Cardinality(S), Cardinality(S) + 1}
           /\ Cardinality(S \ {x}) \in {Cardinality(S), Cardinality(S) - 1}
           /\ Cardinality(S \ {x}) \in Nat
<1>1. Cardinality(S) \in Nat
  BY FS_CardinalityType
<1>2. Cardinality(S \cup {x}) = IF x \in S THEN Cardinality(S)
                                          ELSE Cardinality(S) + 1
  BY FS_AddElement
<1>3. /\ IsFiniteSet(S \ {x})
      /\ Cardinality(S \ {x}) = IF x \in S THEN Cardinality(S) - 1
                                          ELSE Cardinality(S)
  BY FS_RemoveElement
<1>4. Cardinality(S \ {x}) \in Nat
  BY <1>3, FS_CardinalityType
<1> QED
  BY <1>1, <1>2, <1>3, <1>4

LEMMA AdminKeepsThreshold ==
    ASSUME StateOK, ThresholdReachable, NEW a, ApplyAdmin(a)
    PROVE  ThresholdReachable'
<1>1. instance \in Instance /\ IsFiniteSet(instance.signers)
  BY FiniteLists DEF StateOK
<1>2. Cardinality(instance.signers) \in Nat /\ instance.threshold \in Nat
  BY <1>1, FS_CardinalityType DEF Instance
<1>3. CASE SetThreshold(a)
  <2>1. /\ instance'.threshold = a.threshold
        /\ instance'.signers = instance.signers
    BY <1>1, <1>3 DEF SetThreshold, Instance
  <2> QED
    BY <1>3, <2>1 DEF SetThreshold, ApplyAdmin, CheckAdmin, ThresholdReachable
<1>4. CASE AddSigner(a)
  <2>1. /\ instance'.threshold = instance.threshold
        /\ instance'.signers = instance.signers \cup {a.who}
    BY <1>1, <1>4 DEF AddSigner, Retire, Instance
  <2>2. Cardinality(instance.signers \cup {a.who})
            \in {Cardinality(instance.signers), Cardinality(instance.signers) + 1}
    BY <1>1, OneMoreOrLess
  <2> QED
    BY <1>2, <2>1, <2>2 DEF ThresholdReachable
<1>5. CASE RemoveSigner(a)
  <2>1. /\ instance'.threshold = instance.threshold
        /\ instance'.signers = instance.signers \ {a.who}
    BY <1>1, <1>5 DEF RemoveSigner, Retire, Instance
  <2>2. instance.threshold <= Cardinality(instance.signers \ {a.who})
    BY <1>5 DEF RemoveSigner, ApplyAdmin, CheckAdmin, CanRemove
  <2>3. Cardinality(instance.signers \ {a.who}) \in Nat
    BY <1>1, OneMoreOrLess
  <2> QED
    BY <1>2, <2>1, <2>2, <2>3 DEF ThresholdReachable
<1>6. CASE \/ SetPolicy(a) \/ TransferOwnership(a)
           \/ AllowRecipient(a) \/ RevokeRecipient(a)
           \/ AllowContract(a) \/ RevokeContract(a)
  BY <1>1, <1>6 DEF SetPolicy, TransferOwnership, AllowRecipient,
      RevokeRecipient, AllowContract, RevokeContract, Instance,
      ThresholdReachable
<1>7. CASE SetZkConfig(a) \/ SetSignerCommitments(a) \/ Upgrade(a)
  BY <1>1, <1>7 DEF SetZkConfig, SetSignerCommitments, Upgrade, Retire,
      Instance, ThresholdReachable
<1> QED
  BY <1>3, <1>4, <1>5, <1>6, <1>7 DEF ApplyAdmin

LEMMA AdminBoundsLists ==
    ASSUME StateOK, AllowlistsBounded, NEW a, ApplyAdmin(a)
    PROVE  AllowlistsBounded'
<1>1. /\ instance \in Instance
      /\ IsFiniteSet(instance.allowed) /\ IsFiniteSet(instance.callAllowed)
      /\ Cardinality(instance.allowed) \in Nat
      /\ Cardinality(instance.callAllowed) \in Nat
      /\ MaxAllowed \in Nat
  BY FiniteLists, FS_CardinalityType, VaultAssumption DEF StateOK
<1>2. ASSUME NEW S, NEW x, IsFiniteSet(S), Cardinality(S) <= MaxAllowed
      PROVE  /\ RoomLeft(S) => Cardinality(S \cup {x}) <= MaxAllowed
             /\ Cardinality(S \ {x}) <= MaxAllowed
  <2>1. /\ Cardinality(S) \in Nat
        /\ Cardinality(S \cup {x}) \in {Cardinality(S), Cardinality(S) + 1}
        /\ Cardinality(S \ {x}) \in {Cardinality(S), Cardinality(S) - 1}
    BY <1>2, OneMoreOrLess
  <2> QED
    BY <1>1, <1>2, <2>1 DEF RoomLeft
<1>3. CASE AllowRecipient(a)
  <2>1. /\ instance'.allowed = instance.allowed \cup {a.target}
        /\ instance'.callAllowed = instance.callAllowed
        /\ RoomLeft(instance.allowed)
    BY <1>1, <1>3 DEF AllowRecipient, Instance, ApplyAdmin, CheckAdmin
  <2> QED
    BY <1>1, <1>2, <2>1 DEF AllowlistsBounded
<1>4. CASE AllowContract(a)
  <2>1. /\ instance'.callAllowed = instance.callAllowed \cup {a.target}
        /\ instance'.allowed = instance.allowed
        /\ RoomLeft(instance.callAllowed)
    BY <1>1, <1>4 DEF AllowContract, Instance, ApplyAdmin, CheckAdmin
  <2> QED
    BY <1>1, <1>2, <2>1 DEF AllowlistsBounded
<1>5. CASE RevokeRecipient(a)
  <2>1. /\ instance'.allowed = instance.allowed \ {a.target}
        /\ instance'.callAllowed = instance.callAllowed
    BY <1>1, <1>5 DEF RevokeRecipient, Instance
  <2> QED
    BY <1>1, <1>2, <2>1 DEF AllowlistsBounded
<1>6. CASE RevokeContract(a)
  <2>1. /\ instance'.callAllowed = instance.callAllowed \ {a.target}
        /\ instance'.allowed = instance.allowed
    BY <1>1, <1>6 DEF RevokeContract, Instance
  <2> QED
    BY <1>1, <1>2, <2>1 DEF AllowlistsBounded
<1>7. CASE SetThreshold(a) \/ SetPolicy(a) \/ TransferOwnership(a)
  BY <1>1, <1>7 DEF SetThreshold, SetPolicy, TransferOwnership, Instance,
      AllowlistsBounded
<1>8. CASE AddSigner(a) \/ RemoveSigner(a)
  BY <1>1, <1>8 DEF AddSigner, RemoveSigner, Retire, Instance, AllowlistsBounded
<1>9. CASE SetZkConfig(a) \/ SetSignerCommitments(a) \/ Upgrade(a)
  BY <1>1, <1>9 DEF SetZkConfig, SetSignerCommitments, Upgrade, Retire,
      Instance, AllowlistsBounded
<1> QED
  BY <1>3, <1>4, <1>5, <1>6, <1>7, <1>8, <1>9 DEF ApplyAdmin

LEMMA NextKeepsRules ==
    ASSUME StateOK, StateOK', RulesOK, [OpenNext]_vars
    PROVE  RulesOK'
<1>1. CASE Config(instance') = Config(instance)
  BY <1>1, SameConfig DEF StateOK, RulesOK, ThresholdReachable, AllowlistsBounded
<1>2. CASE Config(instance') # Config(instance)
  BY <1>2, OnlyAdminChangesRules, AdminKeepsThreshold, AdminBoundsLists
  DEF ChangesRules, RulesOK
<1> QED
  BY <1>1, <1>2

(* The constructor refuses a signer named twice, so the set of the signers is *)
(* as large as their list is long.                                            *)
LEMMA InitRules == Init => RulesOK
<1> SUFFICES ASSUME Init PROVE RulesOK
  OBVIOUS
<1>1. PICK f \in Foundings : Constructor(f)
  BY DEF Init
<1> DEFINE N == Len(f.signers)
           S == {f.signers[i] : i \in 1..N}
           g == [i \in 1..N |-> f.signers[i]]
<1>2. f \in Founding /\ N \in Nat
  BY <1>1, VaultAssumption DEF Founding
<1>3. g \in Bijection(1..N, S)
  BY <1>1 DEF Constructor, Bijection, Injection, Surjection, IsInjective
<1>4. IsFiniteSet(1..N) /\ Cardinality(1..N) = N
  BY <1>2, FS_Interval
<1>5. Cardinality(S) = N
  BY <1>3, <1>4, FS_Bijection DEF ExistsBijection
<1>6. /\ instance.signers = S /\ instance.threshold = f.threshold
      /\ instance.allowed = {} /\ instance.callAllowed = {}
  BY <1>1 DEF Constructor
<1>7. f.threshold \in 1..N
  BY <1>1 DEF Constructor
<1> QED
  BY <1>5, <1>6, <1>7, FS_EmptySet, VaultAssumption
  DEF RulesOK, ThresholdReachable, AllowlistsBounded

LEMMA RuledStates == OpenSpec => [](StateOK /\ RulesOK)
<1>1. Init => RulesOK
  BY InitRules
<1>2. StateOK /\ StateOK' /\ RulesOK /\ [OpenNext]_vars => RulesOK'
  BY NextKeepsRules
<1>3. StateOK /\ BallotsOK => StateOK
  OBVIOUS
<1> QED
  BY <1>1, <1>2, <1>3, OpenBallots, PTL DEF OpenSpec

(* The vault is never stranded: whatever joins, leaves and changes of the     *)
(* threshold were proposed together, the signers left can reach it.           *)
THEOREM NeverStranded == Spec => []ThresholdReachable
<1>1. RulesOK => ThresholdReachable
  BY DEF RulesOK
<1> QED
  BY <1>1, RuledStates, SpecIsOpen, PTL

(* No allowlist outgrows MAX_ALLOWED, in whatever order proposals that each   *)
(* found room are settled.                                                    *)
THEOREM ListsStayBounded == Spec => []AllowlistsBounded
<1>1. RulesOK => AllowlistsBounded
  BY DEF RulesOK
<1> QED
  BY <1>1, RuledStates, SpecIsOpen, PTL

------------------------------------------------------------------------------
(* Changes of the rules are voted on in the open, so their electorate are the *)
(* signers.                                                                   *)
AdminInTheOpen ==
    \A tx \in TxIds : proposal[tx].payload.kind = "admin" => ~proposal[tx].privateMode

LEMMA StoreKeepsOpenness ==
    ASSUME StateOK, AdminInTheOpen, NEW proposer, NEW payload, NEW amount,
           NEW private, StoreProposal(proposer, payload, amount, private),
           payload.kind = "admin" => ~private
    PROVE  AdminInTheOpen'
BY ProposalStored DEF AdminInTheOpen

LEMMA NextKeepsOpenness ==
    ASSUME StateOK, AdminInTheOpen, [OpenNext]_vars
    PROVE  AdminInTheOpen'
<1>1. KeepsKinds => AdminInTheOpen'
  BY DEF KeepsKinds, AdminInTheOpen
<1>2. ASSUME NEW proposer \in Proposers, Proposes(proposer)
      PROVE  AdminInTheOpen'
  BY <1>2, StoreKeepsOpenness
  DEF Proposes, Propose, ProposeBatch, ProposeCall, ProposeAdmin
<1> QED
  BY <1>1, <1>2, OnlyProposingAddsPayloads

LEMMA OpenStates == OpenSpec => [](StateOK /\ BallotsOK /\ AdminInTheOpen)
<1>1. Init => AdminInTheOpen
  BY DEF Init, Constructor, TxIds, AdminInTheOpen
<1>2. StateOK /\ AdminInTheOpen /\ [OpenNext]_vars => AdminInTheOpen'
  BY NextKeepsOpenness
<1> QED
  BY <1>1, <1>2, OpenBallots, PTL DEF OpenSpec

LEMMA SettlesWhatIsOpen ==
    ASSUME StateOK, NEW tx \in TxIds, Settles(tx)
    PROVE  JustExecuted(tx)
<1>1. ASSUME NEW p, Settle(tx, p), Open(tx), p \in Proposal
      PROVE  JustExecuted(tx)
  BY <1>1 DEF Settle, Open, JustExecuted, StateOK, Proposal
<1>2. CASE Execute(tx)
  BY <1>1, <1>2 DEF Execute, StateOK
<1>3. ASSUME NEW signer \in Address, ApproveAndExecute(tx, signer),
             Settle(tx, OneMore(tx))
      PROVE  JustExecuted(tx)
  <2>1. OneMore(tx) \in Proposal
    BY <1>3, RecordApprovalType DEF ApproveAndExecute
  <2> QED
    BY <1>1, <1>3, <2>1 DEF ApproveAndExecute, CanApprove
<1> QED
  BY <1>2, <1>3 DEF Settles

(* No configuration key of the vault changes but by an admin proposal that a  *)
(* threshold of the current signers approved, the threshold itself included.  *)
THEOREM RulesNeedAQuorum == Spec => RulesCostAQuorum
<1> DEFINE Cost == Config(instance') # Config(instance) =>
            \E tx \in TxIds :
                /\ JustExecuted(tx)
                /\ proposal[tx].payload.kind = "admin"
                /\ Cardinality(voters'[tx] \cap instance.signers)
                        >= instance.threshold
<1>1. ASSUME StateOK, BallotsOK, AdminInTheOpen, [OpenNext]_vars,
             Config(instance') # Config(instance)
      PROVE  \E tx \in TxIds :
                /\ JustExecuted(tx)
                /\ proposal[tx].payload.kind = "admin"
                /\ Cardinality(voters'[tx] \cap instance.signers)
                        >= instance.threshold
  <2> PICK tx \in TxIds : ChangesRules(tx)
    BY <1>1, OnlyAdminChangesRules
  <2>1. Settles(tx) /\ proposal[tx].payload.kind = "admin"
    BY DEF ChangesRules
  <2>2. Electorate(tx) = instance.signers
    BY <1>1, <2>1 DEF AdminInTheOpen, Electorate, Verified
  <2>3. /\ Cardinality(voters'[tx]) >= instance.threshold
        /\ voters'[tx] \cap instance.signers = voters'[tx]
    BY <1>1, <2>1, <2>2, SettlingHasQuorum
  <2>4. JustExecuted(tx)
    BY <1>1, <2>1, SettlesWhatIsOpen
  <2> QED
    BY <2>1, <2>3, <2>4
<1>2. StateOK /\ BallotsOK /\ AdminInTheOpen /\ [OpenNext]_vars => [Cost]_vars
  BY <1>1
<1>3. OpenSpec => [][Cost]_vars
  BY <1>2, OpenStates, PTL DEF OpenSpec
<1> QED
  BY <1>3, SpecIsOpen DEF RulesCostAQuorum

------------------------------------------------------------------------------
(* Retirement never reaches past the ids handed out, so what is proposed next *)
(* is open.                                                                   *)
Handed == instance.retired <= instance.nextTx

AbstractOK == StateOK /\ BallotsOK /\ RulesOK /\ Handed

(* An admin action moves the quorum for everybody, or voids what is open.     *)
Moves ==
    \/ KeepsElectorate
    \/ RetiresAll /\ instance'.threshold = instance.threshold

LEMMA AdminMoves ==
    ASSUME StateOK, NEW a \in AdminAction, ApplyAdmin(a)
    PROVE  Moves /\ instance'.nextTx = instance.nextTx
<1>1. instance \in Instance
  BY DEF StateOK
<1>2. CASE SetThreshold(a) \/ SetPolicy(a) \/ TransferOwnership(a)
  BY <1>1, <1>2 DEF SetThreshold, SetPolicy, TransferOwnership, Instance,
                    KeepsElectorate, Moves
<1>3. CASE \/ AllowRecipient(a) \/ RevokeRecipient(a)
           \/ AllowContract(a) \/ RevokeContract(a)
  BY <1>1, <1>3 DEF AllowRecipient, RevokeRecipient, AllowContract,
                    RevokeContract, Instance, KeepsElectorate, Moves
<1>4. CASE AddSigner(a) \/ RemoveSigner(a)
  BY <1>1, <1>4 DEF AddSigner, RemoveSigner, Retire, Instance, RetiresAll, Moves
<1>5. CASE SetZkConfig(a) \/ SetSignerCommitments(a) \/ Upgrade(a)
  BY <1>1, <1>5 DEF SetZkConfig, SetSignerCommitments, Upgrade, Retire,
                    Instance, RetiresAll, Moves
<1> QED
  BY <1>2, <1>3, <1>4, <1>5 DEF ApplyAdmin

LEMMA SettleMoves ==
    ASSUME StateOK, NEW tx \in TxIds, NEW p \in Proposal, Settle(tx, p)
    PROVE  Moves /\ instance'.nextTx = instance.nextTx
<1>1. CASE SettleAdmin(p)
  <2>1. p.payload.action \in AdminAction
    BY <1>1 DEF SettleAdmin, Proposal, Payload
  <2> QED
    BY <1>1, <2>1, AdminMoves DEF SettleAdmin
<1>2. CASE SettleCall(p) \/ SettlePayment(p)
  BY <1>2 DEF SettleCall, SettlePayment, KeepsElectorate, Moves
<1> QED
  BY <1>1, <1>2 DEF Settle

------------------------------------------------------------------------------
(* One lemma for each way the vault steps.                                    *)
LEMMA SameCardinality == \A S : Abstract!Cardinality(S) = Cardinality(S)
BY DEF Cardinality, Abstract!Cardinality

LEMMA InitIsAbstract == Init => Abstract!MInit
<1> SUFFICES ASSUME Init PROVE Abstract!MInit
  OBVIOUS
<1>1. /\ TxIds = {} /\ voters = <<>>
      /\ instance.threshold \in Nat \ {0}
  <2>1. PICK f \in Foundings : Constructor(f)
    BY DEF Init
  <2>2. f \in Founding /\ Len(f.signers) \in Nat
    BY <2>1, VaultAssumption DEF Founding
  <2> QED
    BY <2>1, <2>2 DEF Init, Constructor, TxIds
<1>2. [tx \in TxIds |-> StatusOf(tx)] = <<>>
  BY <1>1
<1> QED
  BY <1>1, <1>2 DEF Abstract!MInit

LEMMA VoteIsAbstract ==
    ASSUME StateOK, NEW tx \in TxIds, NEW v \in Address \cup Commitment,
           Open(tx), CurrentSet(tx), v \notin voters[tx],
           voters' = [voters EXCEPT ![tx] = @ \cup {v}],
           proposal' = [proposal EXCEPT ![tx] = OneMore(tx)],
           UNCHANGED <<instance, cancelled>>
    PROVE  Abstract!Vote(tx, v)
<1>1. /\ TxIds' = TxIds
      /\ \A t \in TxIds : proposal'[t].executed = proposal[t].executed
  BY DEF TxIds, StateOK, OneMore, Proposal
<1>2. \A t \in TxIds : StatusOf(t)' = StatusOf(t)
  BY <1>1 DEF StatusOf, CurrentSet
<1>3. [t \in TxIds |-> StatusOf(t)]' = [t \in TxIds |-> StatusOf(t)]
  BY <1>1, <1>2
<1>4. StatusOf(tx) = "open"
  BY DEF Open, StatusOf
<1> QED
  BY <1>3, <1>4 DEF Abstract!Vote

LEMMA DecisionIsAbstract ==
    ASSUME StateOK, RulesOK', NEW tx \in TxIds, NEW p \in Proposal,
           Settle(tx, p), p.executed = FALSE,
           Open(tx), CurrentSet(tx), UNCHANGED cancelled, NEW cast,
           cast \cap voters[tx] = {},
           Cardinality(voters[tx] \cup cast) >= instance.threshold,
           voters' = [voters EXCEPT ![tx] = @ \cup cast]
    PROVE  Abstract!Decide(tx, cast)
<1> DEFINE statuses == [t \in TxIds |-> StatusOf(t)]
<1>1. /\ TxIds' = TxIds
      /\ proposal'[tx].executed
      /\ \A t \in TxIds \ {tx} : proposal'[t] = proposal[t]
  BY SettleType, SettledProposals DEF Proposal
<1>2. StatusOf(tx) = "open" /\ StatusOf(tx)' = "executed"
  BY <1>1 DEF Open, StatusOf
<1>3. CASE KeepsElectorate
  <2>1. \A t \in TxIds \ {tx} : StatusOf(t)' = StatusOf(t)
    BY <1>1, <1>3 DEF StatusOf, CurrentSet, KeepsElectorate
  <2>2. statuses' = [statuses EXCEPT ![tx] = "executed"]
    BY <1>1, <1>2, <2>1
  <2>3. instance'.threshold \in Nat \ {0}
    <3>1. Cardinality(instance'.signers) \in Int
                => instance'.threshold \in Nat \ {0}
      BY DEF RulesOK, ThresholdReachable
    <3>2. Cardinality(instance.signers) \in Nat
      BY FiniteLists, FS_CardinalityType DEF StateOK
    <3> QED
      BY <1>3, <3>1, <3>2 DEF KeepsElectorate
  <2> QED
    BY <1>2, <2>2, <2>3, SameCardinality DEF Abstract!Decide
<1>4. CASE RetiresAll /\ instance'.threshold = instance.threshold
  <2>1. \A t \in TxIds : ~CurrentSet(t)'
    BY <1>4 DEF RetiresAll, CurrentSet, TxIds, StateOK, Instance
  <2>2. \A t \in TxIds \ {tx} :
            StatusOf(t)' = IF StatusOf(t) = "open" THEN "void" ELSE StatusOf(t)
    BY <1>1, <2>1 DEF StatusOf
  <2>3. statuses' = [t \in TxIds |-> IF t = tx THEN "executed"
                                    ELSE IF statuses[t] = "open" THEN "void"
                                    ELSE statuses[t]]
    BY <1>1, <1>2, <2>2
  <2> QED
    BY <1>2, <1>4, <2>3, SameCardinality DEF Abstract!Decide, Abstract!Proposals
<1> QED
  BY <1>3, <1>4, SettleMoves DEF Moves

LEMMA SubmissionIsAbstract ==
    ASSUME AbstractOK, NEW proposer, NEW payload, NEW amount, NEW private,
           StoreProposal(proposer, payload, amount, private),
           NEW n, n = instance.nextTx
    PROVE  Abstract!MNext
<1> DEFINE statuses == [t \in TxIds |-> StatusOf(t)]
<1>1. /\ StateOK /\ n \in Nat /\ instance.retired \in Nat /\ Handed
      /\ instance' = [instance EXCEPT !.nextTx = n + 1]
      /\ UNCHANGED cancelled
  BY DEF AbstractOK, StateOK, Instance, StoreProposal
<1>2. /\ TxIds' = 0..n
      /\ TxIds = (0..n) \ {n}
      /\ instance'.retired = instance.retired
      /\ instance'.threshold = instance.threshold
  BY <1>1 DEF TxIds, StateOK, Instance
<1>3. /\ \A t \in TxIds : proposal'[t] = proposal[t]
      /\ proposal'[n].executed = FALSE
  BY <1>1, <1>2 DEF StoreProposal, Extend
<1>4. \A t \in TxIds : StatusOf(t)' = StatusOf(t)
  BY <1>1, <1>2, <1>3 DEF StatusOf, CurrentSet
<1>5. StatusOf(n)' = "open"
  <2>1. n \notin cancelled
    BY <1>1, <1>2 DEF StateOK
  <2> QED
    BY <1>1, <1>2, <1>3, <2>1 DEF StatusOf, CurrentSet, Handed
<1>6. statuses' = [t \in 0..n |-> IF t = n THEN "open" ELSE statuses[t]]
  BY <1>2, <1>4, <1>5
<1>7. voters' = [t \in 0..n |-> IF t = n THEN {} ELSE voters[t]]
  BY DEF StoreProposal, Extend
<1>8. Abstract!Submit(n)
  BY <1>1, <1>2, <1>6, <1>7 DEF Abstract!Submit, Abstract!Proposals, TxIds
<1>9. Abstract!Count = n
  <2>1. n - 1 \in Int /\ 0 \in Int /\ n \in Nat
    BY <1>1
  <2>2. \A a, b \in Int : Cardinality(a..b) = IF a > b THEN 0 ELSE b - a + 1
    BY FS_Interval
  <2>3. Cardinality(0..(n - 1)) = n
    BY <2>1, <2>2
  <2> QED
    BY <2>3, SameCardinality DEF Abstract!Count, Abstract!Proposals, TxIds
<1> QED
  BY <1>8, <1>9 DEF Abstract!MNext

LEMMA WithdrawalIsAbstract ==
    ASSUME StateOK, NEW tx \in TxIds, NEW caller \in Address, Cancel(tx, caller)
    PROVE  Abstract!Withdraw(tx)
<1> DEFINE statuses == [t \in TxIds |-> StatusOf(t)]
<1>1. /\ Open(tx) /\ cancelled' = cancelled \cup {tx}
      /\ UNCHANGED <<instance, proposal, voters>>
  BY DEF Cancel
<1>2. TxIds' = TxIds
  BY <1>1 DEF TxIds
<1>3. /\ StatusOf(tx) \in {"open", "void"}
      /\ StatusOf(tx)' = "cancelled"
      /\ \A t \in TxIds \ {tx} : StatusOf(t)' = StatusOf(t)
  BY <1>1 DEF Open, StatusOf, CurrentSet
<1>4. statuses' = [statuses EXCEPT ![tx] = "cancelled"]
  BY <1>2, <1>3
<1> QED
  BY <1>1, <1>3, <1>4 DEF Abstract!Withdraw

------------------------------------------------------------------------------
(* The three ways to vote, the two ways to settle.                            *)
LEMMA VotersAreNew ==
    ASSUME StateOK, BallotsOK, NEW tx \in TxIds
    PROVE  /\ \A signer \in Address :
                CanApprove(tx, signer) => signer \notin voters[tx]
           /\ \A zk \in ZkApproval :
                CanApprovePrivately(tx, zk) /\ instance.zk # NoZk =>
                    /\ zk.nullifier.leaf \in Commitment
                    /\ zk.nullifier.leaf \notin voters[tx]
<1>1. ASSUME NEW signer \in Address, CanApprove(tx, signer)
      PROVE  signer \notin voters[tx]
  BY <1>1, UnmarkedNotCounted DEF CanApprove, Verified
<1>2. ASSUME NEW zk \in ZkApproval, CanApprovePrivately(tx, zk),
             instance.zk # NoZk
      PROVE  /\ zk.nullifier.leaf \in Commitment
             /\ zk.nullifier.leaf \notin voters[tx]
  <2>1. zk.nullifier = [leaf |-> zk.nullifier.leaf, tx |-> tx, lift |-> 0]
    BY <1>2, AcceptedProof
  <2>2. Verified(tx) /\ CurrentSet(tx) /\ zk.nullifier \notin nullifier
    BY <1>2 DEF CanApprovePrivately, Verified
  <2>3. zk.nullifier \in Nullifier
    BY VaultAssumption DEF ZkApproval
  <2> QED
    BY <2>1, <2>2, <2>3, UnmarkedNotCounted DEF Nullifier
<1> QED
  BY <1>1, <1>2

LEMMA ApprovingIsAbstract ==
    ASSUME StateOK, BallotsOK, NEW tx \in TxIds
    PROVE  /\ \A signer \in Address :
                Approve(tx, signer) => Abstract!Vote(tx, signer)
           /\ \A signer \in Address, zk \in ZkApproval :
                ApproveZk(tx, signer, zk) =>
                    \E v \in Address \cup Commitment : Abstract!Vote(tx, v)
           /\ \A zk \in ZkApproval :
                ApproveZkAnon(tx, zk) =>
                    Abstract!Vote(tx, zk.nullifier.leaf)
                    /\ zk.nullifier.leaf \in Commitment
<1>1. ASSUME NEW signer \in Address, Approve(tx, signer)
      PROVE  Abstract!Vote(tx, signer)
  <2>1. signer \notin voters[tx]
    BY <1>1, VotersAreNew DEF Approve
  <2> QED
    BY <1>1, <2>1, VoteIsAbstract DEF Approve, CanApprove, RecordApproval
<1>2. ASSUME NEW signer \in Address, NEW zk \in ZkApproval,
             ApproveZk(tx, signer, zk)
      PROVE  \E v \in Address \cup Commitment : Abstract!Vote(tx, v)
  <2>1. CASE instance.zk = NoZk
    <3>1. signer \notin voters[tx]
      BY <1>2, <2>1, UnmarkedNotCounted
      DEF ApproveZk, CanApprovePrivately, Verified
    <3>2. Abstract!Vote(tx, signer)
      BY <1>2, <2>1, <3>1, VoteIsAbstract
      DEF ApproveZk, CanApprovePrivately, RecordApproval
    <3> QED
      BY <3>2
  <2>2. CASE instance.zk # NoZk
    <3>1. /\ zk.nullifier.leaf \in Commitment
          /\ zk.nullifier.leaf \notin voters[tx]
      BY <1>2, <2>2, VotersAreNew DEF ApproveZk
    <3>2. Abstract!Vote(tx, zk.nullifier.leaf)
      BY <1>2, <2>2, <3>1, VoteIsAbstract
      DEF ApproveZk, CanApprovePrivately, RecordApproval
    <3> QED
      BY <3>1, <3>2
  <2> QED
    BY <2>1, <2>2
<1>3. ASSUME NEW zk \in ZkApproval, ApproveZkAnon(tx, zk)
      PROVE  /\ Abstract!Vote(tx, zk.nullifier.leaf)
             /\ zk.nullifier.leaf \in Commitment
  <2>1. /\ zk.nullifier.leaf \in Commitment
        /\ zk.nullifier.leaf \notin voters[tx]
    BY <1>3, VotersAreNew DEF ApproveZkAnon
  <2> QED
    BY <1>3, <2>1, VoteIsAbstract
    DEF ApproveZkAnon, CanApprovePrivately, RecordApproval
<1> QED
  BY <1>1, <1>2, <1>3

LEMMA ExecutingIsAbstract ==
    ASSUME StateOK, RulesOK', BallotsOK, NEW tx \in TxIds, Execute(tx)
    PROVE  Abstract!Decide(tx, {})
<1>1. /\ proposal[tx] \in Proposal /\ Settle(tx, proposal[tx])
      /\ Open(tx) /\ CurrentSet(tx) /\ UNCHANGED cancelled
      /\ proposal[tx].executed = FALSE
  BY DEF StateOK, Execute, Open, Proposal
<1>2. /\ voters' = [voters EXCEPT ![tx] = @ \cup {}]
      /\ voters[tx] \cup {} = voters[tx]
      /\ {} \cap voters[tx] = {}
  BY DEF StateOK, Execute
<1>3. Cardinality(voters[tx] \cup {}) >= instance.threshold
  BY <1>2 DEF BallotsOK, VotesAreDistinct, Execute, Passed
<1> QED
  BY <1>1, <1>2, <1>3, DecisionIsAbstract

LEMMA ApprovingAndExecutingIsAbstract ==
    ASSUME StateOK, RulesOK', BallotsOK, NEW tx \in TxIds,
           NEW signer \in Address, ApproveAndExecute(tx, signer)
    PROVE  Abstract!Vote(tx, signer) \/ Abstract!Decide(tx, {signer})
<1>1. /\ Open(tx) /\ CurrentSet(tx) /\ UNCHANGED cancelled
      /\ voters' = [voters EXCEPT ![tx] = @ \cup {signer}]
      /\ RecordApproval(tx, signer)
  BY DEF ApproveAndExecute, CanApprove, RecordApproval
<1>2. signer \notin voters[tx]
  BY VotersAreNew DEF ApproveAndExecute
<1>3. CASE /\ proposal' = [proposal EXCEPT ![tx] = OneMore(tx)]
           /\ UNCHANGED <<instance, window, balance>>
  BY <1>1, <1>2, <1>3, VoteIsAbstract
<1>4. CASE Passed(OneMore(tx)) /\ Settle(tx, OneMore(tx))
  <2>1. /\ OneMore(tx) \in Proposal
        /\ OneMore(tx).executed = FALSE
        /\ OneMore(tx).approvalCount = proposal[tx].approvalCount + 1
    BY <1>1, RecordApprovalType DEF OneMore, StateOK, Proposal, Open
  <2>2. Cardinality(voters[tx] \cup {signer}) = Cardinality(voters[tx]) + 1
    BY <1>2, FS_AddElement DEF BallotsOK
  <2>3. Cardinality(voters[tx] \cup {signer}) >= instance.threshold
    BY <1>4, <2>1, <2>2 DEF Passed, BallotsOK, VotesAreDistinct
  <2>4. {signer} \cap voters[tx] = {}
    BY <1>2
  <2> QED
    BY <1>1, <1>4, <2>1, <2>3, <2>4, DecisionIsAbstract
<1> QED
  BY <1>3, <1>4 DEF ApproveAndExecute

------------------------------------------------------------------------------
LEMMA StepIsAbstract ==
    ASSUME AbstractOK, RulesOK', [OpenNext]_vars
    PROVE  [Abstract!MNext]_(Abstract!mvars) /\ Handed'
<1> DEFINE Goal == Abstract!MNext /\ Handed'
           Idle == UNCHANGED Abstract!mvars /\ Handed'
<1>1. StateOK /\ BallotsOK /\ Handed
  BY DEF AbstractOK
<1>2. UNCHANGED instance => Handed'
  BY <1>1 DEF Handed
<1>3. Abstract!Proposals = TxIds
  BY DEF Abstract!Proposals
<1>4. ASSUME NEW tx \in TxIds, NEW signer \in Address
      PROVE  /\ Approve(tx, signer) => Goal
             /\ \A zk \in ZkApproval : ApproveZk(tx, signer, zk) => Goal
             /\ Cancel(tx, signer) => Goal
  BY <1>1, <1>2, <1>3, ApprovingIsAbstract, WithdrawalIsAbstract
  DEF Abstract!MNext, Approve, ApproveZk, Cancel
<1>5. ASSUME NEW tx \in TxIds, NEW zk \in ZkApproval, ApproveZkAnon(tx, zk)
      PROVE  Goal
  BY <1>1, <1>2, <1>3, <1>5, ApprovingIsAbstract
  DEF Abstract!MNext, ApproveZkAnon
<1>6. ASSUME NEW tx \in TxIds, NEW p \in Proposal, Settle(tx, p)
      PROVE  Handed'
  BY <1>1, <1>6, SettleMoves
  DEF Moves, KeepsElectorate, RetiresAll, Handed, StateOK, Instance
<1>7. ASSUME NEW tx \in TxIds, Execute(tx)
      PROVE  Goal
  <2>1. proposal[tx] \in Proposal /\ Settle(tx, proposal[tx])
    BY <1>1, <1>7 DEF StateOK, Execute
  <2> QED
    BY <1>1, <1>3, <1>6, <1>7, <2>1, ExecutingIsAbstract DEF Abstract!MNext
<1>8. ASSUME NEW tx \in TxIds, NEW signer \in Address,
             ApproveAndExecute(tx, signer)
      PROVE  Goal
  <2>1. OneMore(tx) \in Proposal
    BY <1>1, <1>8, RecordApprovalType DEF ApproveAndExecute
  <2>2. Handed'
    BY <1>2, <1>6, <1>8, <2>1 DEF ApproveAndExecute
  <2> QED
    BY <1>1, <1>3, <1>8, <2>2, ApprovingAndExecutingIsAbstract
    DEF Abstract!MNext
<1>9. ASSUME NEW proposer, NEW payload, NEW amount, NEW private,
             StoreProposal(proposer, payload, amount, private)
      PROVE  Goal
  <2>1. Handed'
    BY <1>1, <1>9 DEF StoreProposal, Handed, StateOK, Instance
  <2> QED
    BY <1>9, <2>1, SubmissionIsAbstract
<1>10. ASSUME NEW proposer, NEW private
       PROVE  /\ \A t \in Transfers :
                     Propose(proposer, t.target, t.amount, private) => Goal
              /\ \A pays \in Batches :
                     ProposeBatch(proposer, pays, private) => Goal
              /\ \A call \in Calls :
                     ProposeCall(proposer, call, private) => Goal
              /\ \A action \in AdminActions :
                     ProposeAdmin(proposer, action) => Goal
  BY <1>9 DEF Propose, ProposeBatch, ProposeCall, ProposeAdmin
<1>11. ASSUME \/ CloseLedger
              \/ \E from \in Address, amount \in Deposits : Deposit(from, amount)
              \/ UNCHANGED vars
       PROVE  Idle
  <2>1. UNCHANGED <<instance, proposal, cancelled, voters>>
    BY <1>11 DEF CloseLedger, Deposit, vars
  <2>2. UNCHANGED [t \in TxIds |-> StatusOf(t)]
    BY <2>1 DEF TxIds, StatusOf, CurrentSet
  <2> QED
    BY <1>2, <2>1, <2>2 DEF Abstract!mvars
<1> QED
  BY <1>4, <1>5, <1>7, <1>8, <1>10, <1>11, VaultAssumption
  DEF OpenNext, Next

(* The vault, with its two double-vote ledgers, proofs, watermark and two     *)
(* ways to settle, is a multisig: what it submits, counts, decides, voids and *)
(* withdraws is what Multisig would.                                          *)
THEOREM VaultIsAMultisig == Spec => ImplementsMultisig
<1>1. Init => Handed
  BY DEF Init, Constructor, Handed
<1>2. /\ StateOK /\ RulesOK /\ BallotsOK /\ Handed /\ RulesOK' /\ [OpenNext]_vars
      => [Abstract!MNext]_(Abstract!mvars) /\ Handed'
  BY StepIsAbstract DEF AbstractOK
<1> QED
  BY <1>1, <1>2, InitIsAbstract, OpenBallots, RuledStates, SpecIsOpen, PTL
  DEF OpenSpec, ImplementsMultisig, Abstract!MSpec
------------------------------------------------------------------------------

(* The ledger in which a proposal passed is never later than what its lock is *)
(* measured from: LastApproval or else created_at, or the last change of the  *)
(* threshold.                                                                 *)
StampsOK ==
    /\ ledger <= MaxLedger
    /\ \A tx \in TxIds :
        /\ passedAt[tx] # NotPassed <=> Passed(proposal[tx])
        /\ passedAt[tx] <= ledger
        /\ \/ passedAt[tx] <= instance.thresholdChanged
           \/ passedAt[tx] <= PassedStamp(proposal[tx], lastApproval[tx])

(* The last conjunct for the state after a step, and any ledger at.           *)
CoveredNext(at, tx) ==
    \/ at <= instance'.thresholdChanged
    \/ at <= PassedStamp(proposal'[tx], lastApproval'[tx])

(* What a step has to do for the stamps: cover the old passings, and those    *)
(* that happen in it.                                                         *)
LEMMA StampsCarried ==
    ASSUME TypeOK, TypeOK', StampsOK, NotePassed,
           ledger <= ledger', ledger' <= MaxLedger,
           \A t \in TxIds' :
                IF t \in TxIds /\ passedAt[t] # NotPassed
                THEN CoveredNext(passedAt[t], t)
                ELSE Passed(proposal[t])' => CoveredNext(ledger, t)
    PROVE  StampsOK'
<1> SUFFICES ASSUME NEW t \in TxIds'
             PROVE  /\ passedAt'[t] # NotPassed <=> Passed(proposal[t])'
                    /\ passedAt'[t] <= ledger'
                    /\ \/ passedAt'[t] <= instance'.thresholdChanged
                       \/ passedAt'[t] <= PassedStamp(proposal'[t], lastApproval'[t])
  BY DEF StampsOK
<1>1. /\ ledger \in Nat /\ ledger' \in Nat
      /\ t \in DOMAIN proposal'
      /\ proposal'[t].approvalCount \in Nat /\ instance'.threshold \in Nat
      /\ instance'.thresholdChanged \in Nat
  BY DEF TypeOK, U32, Proposal, Instance
<1>2. PassedStamp(proposal'[t], lastApproval'[t]) \in Nat
  BY DEF TypeOK, U32, Proposal, PassedStamp
<1>3. CASE ~Passed(proposal[t])'
  <2>1. passedAt'[t] = NotPassed
    BY <1>1, <1>3 DEF NotePassed, Passed
  <2> QED
    BY <1>1, <1>2, <1>3, <2>1 DEF NotPassed
<1>4. CASE Passed(proposal[t])' /\ t \in TxIds /\ passedAt[t] # NotPassed
  <2>1. passedAt'[t] = passedAt[t]
    BY <1>1, <1>4 DEF NotePassed, Passed
  <2>2. passedAt[t] <= ledger /\ passedAt[t] \in Int
    BY <1>4 DEF StampsOK, TypeOK, U32
  <2> QED
    BY <1>1, <1>4, <2>1, <2>2 DEF CoveredNext
<1>5. CASE Passed(proposal[t])' /\ ~(t \in TxIds /\ passedAt[t] # NotPassed)
  <2>1. passedAt'[t] = ledger
    BY <1>1, <1>5 DEF NotePassed, Passed
  <2> QED
    BY <1>1, <1>5, <2>1 DEF CoveredNext, NotPassed
<1> QED
  BY <1>3, <1>4, <1>5

LEMMA InitStamps == Init => StampsOK
<1> SUFFICES ASSUME Init PROVE StampsOK
  OBVIOUS
<1>1. TxIds = {}
  BY DEF Init, Constructor, TxIds
<1> QED
  BY <1>1, VaultAssumption DEF Init, StampsOK

(* The approval that reaches the threshold leaves its stamp, and those after  *)
(* it leave it where it is.                                                   *)
LEMMA ApprovalStamps ==
    ASSUME TypeOK, StampsOK, NEW tx \in TxIds, lastApproval' = NoteApproval(tx)
    PROVE  /\ OneMore(tx).createdAt = proposal[tx].createdAt
           /\ OneMore(tx).approvalCount = proposal[tx].approvalCount + 1
           /\ \A t \in TxIds \ {tx} : lastApproval'[t] = lastApproval[t]
           /\ Passed(proposal[tx]) => lastApproval'[tx] = lastApproval[tx]
           /\ ~Passed(proposal[tx]) /\ Passed(OneMore(tx))
                => lastApproval'[tx] = ledger
<1>1. /\ OneMore(tx).createdAt = proposal[tx].createdAt
      /\ OneMore(tx).approvalCount = proposal[tx].approvalCount + 1
      /\ proposal[tx].approvalCount \in Nat /\ instance.threshold \in Nat
  BY DEF TypeOK, OneMore, Proposal, Instance
<1> QED
  BY <1>1 DEF TypeOK, NoteApproval, Passed

(* A step that leaves the rule for passing as it is and at most counts one    *)
(* more approval of tx.                                                       *)
LEMMA StampsAfterApproval ==
    ASSUME TypeOK, TypeOK', StampsOK, NotePassed, NEW tx \in TxIds,
           UNCHANGED ledger, TxIds' = TxIds,
           lastApproval' = NoteApproval(tx),
           proposal'[tx].approvalCount = proposal[tx].approvalCount + 1,
           \A t \in TxIds : proposal'[t].createdAt = proposal[t].createdAt,
           \A t \in TxIds \ {tx} :
                proposal'[t].approvalCount = proposal[t].approvalCount,
           \/ /\ instance'.threshold = instance.threshold
              /\ instance'.thresholdChanged = instance.thresholdChanged
           \/ instance'.thresholdChanged = ledger
    PROVE  StampsOK'
<1>1. ASSUME NEW t \in TxIds'
      PROVE  IF t \in TxIds /\ passedAt[t] # NotPassed
             THEN CoveredNext(passedAt[t], t)
             ELSE Passed(proposal[t])' => CoveredNext(ledger, t)
  <2>1. /\ ledger \in Nat /\ passedAt[t] <= ledger
        /\ \A u \in TxIds : lastApproval[u] \in U32 \cup {Absent}
    BY <1>1 DEF TypeOK, StampsOK, U32
  <2>2. CASE instance'.thresholdChanged = ledger
    BY <2>1, <2>2 DEF CoveredNext
  <2>3. CASE /\ instance'.threshold = instance.threshold
             /\ instance'.thresholdChanged = instance.thresholdChanged
    <3>1. Passed(proposal[t]) => lastApproval'[t] = lastApproval[t]
      BY <1>1, ApprovalStamps
    <3>2. ~Passed(proposal[t]) /\ Passed(proposal[t])'
            => t = tx /\ lastApproval'[t] = ledger
      BY <1>1, <2>3, ApprovalStamps DEF Passed
    <3>3. CASE Passed(proposal[t])
      BY <1>1, <2>3, <3>1, <3>3 DEF StampsOK, CoveredNext, PassedStamp
    <3>4. CASE ~Passed(proposal[t])
      BY <1>1, <2>1, <3>2, <3>4 DEF StampsOK, CoveredNext, PassedStamp, Absent
    <3> QED
      BY <3>3, <3>4
  <2> QED
    BY <2>2, <2>3
<1> QED
  BY <1>1, StampsCarried DEF TypeOK, U32, StampsOK

(* A step that counts nothing.                                                *)
LEMMA StampsUndisturbed ==
    ASSUME TypeOK, TypeOK', StampsOK, NotePassed,
           ledger <= ledger', ledger' <= MaxLedger, TxIds' = TxIds,
           UNCHANGED lastApproval,
           \A t \in TxIds :
                /\ proposal'[t].createdAt = proposal[t].createdAt
                /\ proposal'[t].approvalCount = proposal[t].approvalCount,
           \/ /\ instance'.threshold = instance.threshold
              /\ instance'.thresholdChanged = instance.thresholdChanged
           \/ instance'.thresholdChanged = ledger
    PROVE  StampsOK'
<1>1. ASSUME NEW t \in TxIds'
      PROVE  IF t \in TxIds /\ passedAt[t] # NotPassed
             THEN CoveredNext(passedAt[t], t)
             ELSE Passed(proposal[t])' => CoveredNext(ledger, t)
  <2>1. ledger \in Nat /\ passedAt[t] <= ledger
    BY <1>1 DEF TypeOK, StampsOK, U32
  <2>2. CASE instance'.thresholdChanged = ledger
    BY <2>1, <2>2 DEF CoveredNext
  <2>3. CASE /\ instance'.threshold = instance.threshold
             /\ instance'.thresholdChanged = instance.thresholdChanged
    BY <1>1, <2>3 DEF StampsOK, CoveredNext, PassedStamp, Passed
  <2> QED
    BY <2>2, <2>3
<1> QED
  BY <1>1, StampsCarried

------------------------------------------------------------------------------
(* What settling may do to the rule for passing.                              *)
KeepsThreshold ==
    \/ /\ instance'.threshold = instance.threshold
       /\ instance'.thresholdChanged = instance.thresholdChanged
    \/ instance'.thresholdChanged = ledger

LEMMA SettleStampsThreshold ==
    ASSUME StateOK, NEW tx \in TxIds, NEW p \in Proposal, Settle(tx, p)
    PROVE  KeepsThreshold
<1>1. instance \in Instance
  BY DEF StateOK
<1>2. ASSUME NEW a, ApplyAdmin(a) PROVE KeepsThreshold
  <2>1. CASE SetThreshold(a)
    BY <1>1, <2>1 DEF SetThreshold, Instance, KeepsThreshold
  <2>2. CASE \/ SetPolicy(a) \/ TransferOwnership(a)
             \/ AllowRecipient(a) \/ RevokeRecipient(a)
             \/ AllowContract(a) \/ RevokeContract(a)
    BY <1>1, <2>2 DEF SetPolicy, TransferOwnership, AllowRecipient,
        RevokeRecipient, AllowContract, RevokeContract, Instance, KeepsThreshold
  <2>3. CASE \/ AddSigner(a) \/ RemoveSigner(a) \/ SetZkConfig(a)
             \/ SetSignerCommitments(a) \/ Upgrade(a)
    BY <1>1, <2>3 DEF AddSigner, RemoveSigner, SetZkConfig,
        SetSignerCommitments, Upgrade, Retire, Instance, KeepsThreshold
  <2> QED
    BY <1>2, <2>1, <2>2, <2>3 DEF ApplyAdmin
<1>3. CASE SettleAdmin(p)
  BY <1>2, <1>3 DEF SettleAdmin
<1>4. CASE SettleCall(p) \/ SettlePayment(p)
  BY <1>4 DEF SettleCall, SettlePayment, KeepsThreshold
<1> QED
  BY <1>3, <1>4 DEF Settle

LEMMA SettledKeepsDate ==
    ASSUME StateOK, NEW tx \in TxIds, NEW p \in Proposal, Settle(tx, p)
    PROVE  proposal'[tx].createdAt = p.createdAt
BY DEF StateOK, Settle, Proposal

LEMMA StoreKeepsStamps ==
    ASSUME TypeOK, TypeOK', StampsOK, NEW proposer, NEW payload, NEW amount,
           NEW private, StoreProposal(proposer, payload, amount, private)
    PROVE  StampsOK'
<1> DEFINE n == instance.nextTx
<1>1. /\ n \in Nat
      /\ instance' = [instance EXCEPT !.nextTx = n + 1]
      /\ NotePassed /\ ledger' = ledger
  BY DEF TypeOK, Instance, StoreProposal
<1>2. /\ TxIds' = 0..n
      /\ TxIds = (0..n) \ {n}
      /\ instance'.threshold = instance.threshold
      /\ instance'.thresholdChanged = instance.thresholdChanged
  BY <1>1 DEF TxIds, TypeOK, Instance
<1>3. \A t \in TxIds :
        proposal'[t] = proposal[t] /\ lastApproval'[t] = lastApproval[t]
  BY <1>2 DEF StoreProposal, Extend
<1>4. proposal'[n].createdAt = ledger /\ lastApproval'[n] = Absent
  BY <1>1 DEF StoreProposal, Extend
<1>5. ASSUME NEW t \in TxIds'
      PROVE  IF t \in TxIds /\ passedAt[t] # NotPassed
             THEN CoveredNext(passedAt[t], t)
             ELSE Passed(proposal[t])' => CoveredNext(ledger, t)
  <2>1. CASE t \in TxIds
    BY <1>2, <1>3, <2>1 DEF StampsOK, CoveredNext, Passed
  <2>2. CASE t = n
    <3>1. ledger \in Nat
      BY DEF TypeOK, U32
    <3> QED
      BY <1>2, <1>4, <2>2, <3>1 DEF CoveredNext, PassedStamp
  <2> QED
    BY <1>2, <2>1, <2>2
<1> QED
  BY <1>1, <1>5, StampsCarried DEF TypeOK, U32, StampsOK

LEMMA ApprovingKeepsStamps ==
    ASSUME TypeOK, TypeOK', StampsOK, NEW tx \in TxIds, NEW voter,
           proposal' = [proposal EXCEPT ![tx] = OneMore(tx)],
           RecordApproval(tx, voter), UNCHANGED instance
    PROVE  StampsOK'
<1>1. /\ NotePassed /\ UNCHANGED ledger /\ TxIds' = TxIds
      /\ lastApproval' = NoteApproval(tx)
  BY DEF RecordApproval, TxIds
<1>2. /\ proposal'[tx] = OneMore(tx)
      /\ \A t \in TxIds \ {tx} : proposal'[t] = proposal[t]
  BY DEF TypeOK
<1> QED
  BY <1>1, <1>2, ApprovalStamps, StampsAfterApproval

LEMMA ExecuteKeepsStamps ==
    ASSUME TypeOK, TypeOK', StampsOK, NEW tx \in TxIds, Execute(tx)
    PROVE  StampsOK'
<1>1. StateOK /\ proposal[tx] \in Proposal /\ Settle(tx, proposal[tx])
  BY StateIsTyped DEF TypeOK, Execute
<1>2. \A t \in TxIds :
        /\ proposal'[t].createdAt = proposal[t].createdAt
        /\ proposal'[t].approvalCount = proposal[t].approvalCount
  <2>1. /\ proposal'[tx].createdAt = proposal[tx].createdAt
        /\ proposal'[tx].approvalCount = proposal[tx].approvalCount
    BY <1>1, SettledProposals, SettledKeepsDate
  <2>2. \A t \in TxIds \ {tx} : proposal'[t] = proposal[t]
    BY <1>1, SettledProposals
  <2> QED
    BY <2>1, <2>2
<1>3. TxIds' = TxIds /\ KeepsThreshold
  BY <1>1, SettleType, SettleStampsThreshold
<1>4. NotePassed /\ UNCHANGED <<ledger, lastApproval>>
  BY DEF Execute
<1>5. ledger <= ledger' /\ ledger' <= MaxLedger
  BY <1>4 DEF StampsOK, TypeOK, U32
<1> QED
  BY <1>2, <1>3, <1>4, <1>5, StampsUndisturbed DEF KeepsThreshold

LEMMA ApproveAndExecuteKeepsStamps ==
    ASSUME TypeOK, TypeOK', StampsOK, NEW tx \in TxIds,
           NEW signer \in Address, ApproveAndExecute(tx, signer)
    PROVE  StampsOK'
<1>1. StateOK /\ RecordApproval(tx, signer)
  BY StateIsTyped DEF ApproveAndExecute
<1>2. CASE /\ proposal' = [proposal EXCEPT ![tx] = OneMore(tx)]
           /\ UNCHANGED <<instance, window, balance>>
  BY <1>1, <1>2, ApprovingKeepsStamps
<1>3. CASE Settle(tx, OneMore(tx))
  <2>1. OneMore(tx) \in Proposal
    BY <1>1, RecordApprovalType
  <2>2. /\ NotePassed /\ UNCHANGED ledger
        /\ lastApproval' = NoteApproval(tx)
    BY <1>1 DEF RecordApproval
  <2>3. /\ proposal'[tx].approvalCount = proposal[tx].approvalCount + 1
        /\ \A t \in TxIds : proposal'[t].createdAt = proposal[t].createdAt
        /\ \A t \in TxIds \ {tx} :
                proposal'[t].approvalCount = proposal[t].approvalCount
    <3>1. /\ proposal'[tx].approvalCount = OneMore(tx).approvalCount
          /\ proposal'[tx].createdAt = OneMore(tx).createdAt
      BY <1>1, <1>3, <2>1, SettledProposals, SettledKeepsDate
    <3>2. \A t \in TxIds \ {tx} : proposal'[t] = proposal[t]
      BY <1>1, <1>3, <2>1, SettledProposals
    <3> QED
      BY <2>2, <3>1, <3>2, ApprovalStamps
  <2>4. TxIds' = TxIds /\ KeepsThreshold
    BY <1>1, <1>3, <2>1, SettleType, SettleStampsThreshold
  <2> QED
    BY <2>2, <2>3, <2>4, StampsAfterApproval DEF KeepsThreshold
<1> QED
  BY <1>2, <1>3 DEF ApproveAndExecute

LEMMA OthersKeepStamps ==
    ASSUME TypeOK, TypeOK', StampsOK,
           \/ CloseLedger
           \/ \E from \in Address, amount \in Deposits : Deposit(from, amount)
           \/ \E tx \in TxIds, caller \in Address : Cancel(tx, caller)
    PROVE  StampsOK'
<1>1. UNCHANGED <<instance, proposal, lastApproval>> /\ NotePassed
  BY DEF CloseLedger, Deposit, Cancel
<1>2. ledger <= ledger' /\ ledger' <= MaxLedger
  BY VaultAssumption DEF CloseLedger, Deposit, Cancel, TypeOK, U32, StampsOK
<1>3. TxIds' = TxIds
  BY <1>1 DEF TxIds
<1> QED
  BY <1>1, <1>2, <1>3, StampsUndisturbed

LEMMA NextKeepsStamps ==
    ASSUME TypeOK, TypeOK', StampsOK, [OpenNext]_vars
    PROVE  StampsOK'
<1>1. ASSUME NEW tx \in TxIds, NEW signer \in Address
      PROVE  /\ Approve(tx, signer) => StampsOK'
             /\ ApproveAndExecute(tx, signer) => StampsOK'
             /\ \A zk \in ZkApproval : ApproveZk(tx, signer, zk) => StampsOK'
             /\ Cancel(tx, signer) => StampsOK'
  BY ApprovingKeepsStamps, ApproveAndExecuteKeepsStamps, OthersKeepStamps
  DEF Approve, ApproveZk
<1>2. ASSUME NEW tx \in TxIds
      PROVE  /\ Execute(tx) => StampsOK'
             /\ \A zk \in ZkApproval : ApproveZkAnon(tx, zk) => StampsOK'
  BY ExecuteKeepsStamps, ApprovingKeepsStamps DEF ApproveZkAnon
<1>3. ASSUME NEW proposer, NEW private
      PROVE  /\ \A t \in Transfers :
                    Propose(proposer, t.target, t.amount, private) => StampsOK'
             /\ \A pays \in Batches :
                    ProposeBatch(proposer, pays, private) => StampsOK'
             /\ \A call \in Calls :
                    ProposeCall(proposer, call, private) => StampsOK'
             /\ \A action \in AdminActions :
                    ProposeAdmin(proposer, action) => StampsOK'
  BY StoreKeepsStamps DEF Propose, ProposeBatch, ProposeCall, ProposeAdmin
<1>4. \/ CloseLedger
      \/ \E from \in Address, amount \in Deposits : Deposit(from, amount)
      => StampsOK'
  BY OthersKeepStamps
<1>5. CASE UNCHANGED vars
  BY <1>5 DEF vars, StampsOK, TxIds, Passed
<1> QED
  BY <1>1, <1>2, <1>3, <1>4, <1>5, VaultAssumption
  DEF OpenNext, Next

LEMMA StampedStates == OpenSpec => [](TypeOK /\ StampsOK)
<1>1. Init => StampsOK
  BY InitStamps
<1>2. TypeOK /\ TypeOK' /\ StampsOK /\ [OpenNext]_vars => StampsOK'
  BY NextKeepsStamps
<1> QED
  BY <1>1, <1>2, OpenTypes, PTL DEF OpenSpec

------------------------------------------------------------------------------
(* Saturating keeps the order, and does not reach back to a ledger of this    *)
(* life.                                                                      *)
LEMMA SaturatingIsMonotone ==
    ASSUME NEW a \in Int, NEW b \in Int, a <= b
    PROVE  SatU32(a) <= SatU32(b)
BY WidthAssumption DEF SatU32, AtMost

LEMMA LaterStaysLater ==
    ASSUME NEW a \in Int, NEW b \in Int, a < MaxU32, a < b
    PROVE  a < SatU32(b)
BY WidthAssumption DEF SatU32, AtMost

(* Once passed, a proposal is unlocked only after a lock period.              *)
LEMMA UnlockedIsLater ==
    ASSUME TypeOK, StampsOK, NEW tx \in TxIds, NEW p, NEW last,
           Passed(proposal[tx]), p.createdAt = proposal[tx].createdAt,
           last = lastApproval[tx],
           instance.policy.timelock > 0, Unlocked(p, last)
    PROVE  ledger >= SatU32(passedAt[tx] + instance.policy.timelock)
<1> DEFINE lock == instance.policy.timelock
           stamp == PassedStamp(p, last)
           moved == instance.thresholdChanged
           start == IF stamp > moved THEN stamp ELSE moved
<1>1. /\ ledger \in Int /\ lock \in Nat /\ moved \in Nat
      /\ passedAt[tx] \in Int
  BY DEF TypeOK, Instance, Policy, U32, NotPassed
<1>2. stamp \in Nat /\ stamp = PassedStamp(proposal[tx], lastApproval[tx])
  BY DEF TypeOK, Proposal, U32, PassedStamp
<1>3. start \in Nat /\ passedAt[tx] <= start
  BY <1>1, <1>2 DEF StampsOK
<1>4. ledger >= SatU32(start + lock)
  BY <1>1 DEF Unlocked, UnlockAt
<1>5. SatU32(passedAt[tx] + lock) <= SatU32(start + lock)
  <2> HIDE DEF start, lock
  <2> QED
    BY <1>1, <1>3, SaturatingIsMonotone
<1>6. SatU32(start + lock) \in Int /\ SatU32(passedAt[tx] + lock) \in Int
  BY <1>1, <1>3, WidthAssumption DEF SatU32, AtMost
<1> QED
  BY <1>1, <1>4, <1>5, <1>6

(* The approval that makes a proposal pass starts its lock in this ledger, so *)
(* approve_and_execute does not settle then.                                  *)
LEMMA PassingLocks ==
    ASSUME TypeOK, StampsOK, NEW tx \in TxIds, instance.policy.timelock > 0,
           Passed(OneMore(tx)), Unlocked(OneMore(tx), NoteApproval(tx)[tx])
    PROVE  Passed(proposal[tx])
<1> SUFFICES ASSUME ~Passed(proposal[tx]) PROVE FALSE
  OBVIOUS
<1> DEFINE lock == instance.policy.timelock
           moved == instance.thresholdChanged
           start == IF ledger > moved THEN ledger ELSE moved
<1>1. /\ ledger \in Nat /\ lock \in Nat /\ moved \in Nat /\ lock > 0
      /\ ledger < MaxU32
  BY VaultAssumption, WidthAssumption
  DEF TypeOK, StampsOK, Instance, Policy, U32
<1>2. NoteApproval(tx)[tx] = ledger
  <2>1. /\ OneMore(tx).approvalCount = proposal[tx].approvalCount + 1
        /\ proposal[tx].approvalCount \in Nat /\ instance.threshold \in Nat
    BY DEF TypeOK, OneMore, Proposal, Instance
  <2> QED
    BY <2>1 DEF TypeOK, NoteApproval, Passed
<1>3. ledger >= SatU32(start + lock)
  BY <1>1, <1>2 DEF Unlocked, UnlockAt, PassedStamp, Absent
<1>4. start + lock \in Int /\ ledger < start + lock
  BY <1>1
<1>5. ledger < SatU32(start + lock)
  <2> HIDE DEF start, lock
  <2> QED
    BY <1>1, <1>4, LaterStaysLater
<1>6. SatU32(start + lock) \in Int
  BY <1>1, WidthAssumption DEF SatU32, AtMost
<1> QED
  BY <1>1, <1>3, <1>5, <1>6

LEMMA SettlingIsLate ==
    ASSUME TypeOK, StampsOK, NEW tx \in TxIds, Settles(tx),
           instance.policy.timelock > 0
    PROVE  /\ passedAt[tx] # NotPassed
           /\ ledger >= SatU32(passedAt[tx] + instance.policy.timelock)
<1>1. CASE Execute(tx)
  <2>1. Passed(proposal[tx]) /\ Unlocked(proposal[tx], lastApproval[tx])
    BY <1>1 DEF Execute
  <2> QED
    BY <2>1, UnlockedIsLater DEF StampsOK
<1>2. ASSUME Passed(OneMore(tx)), Unlocked(OneMore(tx), NoteApproval(tx)[tx])
      PROVE  /\ passedAt[tx] # NotPassed
             /\ ledger >= SatU32(passedAt[tx] + instance.policy.timelock)
  <2>1. Passed(proposal[tx])
    BY <1>2, PassingLocks
  <2>2. /\ OneMore(tx).createdAt = proposal[tx].createdAt
        /\ NoteApproval(tx)[tx] = lastApproval[tx]
    BY <2>1 DEF TypeOK, OneMore, Proposal, Instance, NoteApproval, Passed
  <2> QED
    BY <1>2, <2>1, <2>2, UnlockedIsLater DEF StampsOK
<1> QED
  BY <1>1, <1>2 DEF Settles

(* Under a time-lock nothing is settled, by execute or by an approval, before *)
(* a full lock period has gone by since it passed (unlock_at, note_approval). *)
THEOREM LocksHold == Spec => LockRespected
<1> DEFINE Late == \A tx \in TxIds :
            JustExecuted(tx) /\ instance.policy.timelock > 0 =>
                /\ passedAt[tx] # NotPassed
                /\ ledger >= SatU32(passedAt[tx] + instance.policy.timelock)
<1>1. TypeOK /\ StampsOK /\ [OpenNext]_vars => [Late]_vars
  BY OnlySettlingExecutes, SettlingIsLate, StateIsTyped
<1>2. OpenSpec => [][Late]_vars
  BY <1>1, StampedStates, PTL DEF OpenSpec
<1> QED
  BY <1>2, SpecIsOpen DEF LockRespected

------------------------------------------------------------------------------
(* A step leaves every proposal there is alone, or all but one that is open,  *)
(* and of that one the date and, once passed, the stamp.                      *)
Same(t) ==
    /\ proposal'[t] = proposal[t]
    /\ lastApproval'[t] = lastApproval[t]
    /\ t \in cancelled' <=> t \in cancelled

Touches(tx) ==
    /\ Open(tx)
    /\ \A t \in TxIds \ {tx} : Same(t)
    /\ proposal'[tx].createdAt = proposal[tx].createdAt
    /\ Passed(proposal[tx]) => lastApproval'[tx] = lastApproval[tx]

TouchesOne == \E tx \in TxIds : Touches(tx)

LEMMA ApprovingTouchesOne ==
    ASSUME TypeOK, StampsOK, NEW tx \in TxIds, NEW voter, Open(tx),
           proposal' = [proposal EXCEPT ![tx] = OneMore(tx)],
           RecordApproval(tx, voter)
    PROVE  TouchesOne
<1>1. lastApproval' = NoteApproval(tx) /\ UNCHANGED cancelled
  BY DEF RecordApproval
<1>2. /\ proposal'[tx] = OneMore(tx)
      /\ \A t \in TxIds \ {tx} : proposal'[t] = proposal[t]
  BY DEF TypeOK
<1>3. Touches(tx)
  BY <1>1, <1>2, ApprovalStamps DEF Touches, Same
<1> QED
  BY <1>3 DEF TouchesOne

LEMMA SettlingTouchesOne ==
    ASSUME TypeOK, StampsOK, NEW tx \in TxIds
    PROVE  /\ Execute(tx) => TouchesOne
           /\ \A signer \in Address : ApproveAndExecute(tx, signer) => TouchesOne
<1>1. StateOK
  BY StateIsTyped
<1>2. ASSUME Execute(tx) PROVE Touches(tx)
  <2>1. proposal[tx] \in Proposal /\ Settle(tx, proposal[tx])
    BY <1>2 DEF TypeOK, Execute
  <2>2. \A t \in TxIds \ {tx} : proposal'[t] = proposal[t]
    BY <1>1, <2>1, SettledProposals
  <2>3. proposal'[tx].createdAt = proposal[tx].createdAt
    BY <1>1, <2>1, SettledKeepsDate
  <2> QED
    BY <1>2, <2>2, <2>3 DEF Execute, Touches, Same
<1>3. ASSUME NEW signer \in Address, ApproveAndExecute(tx, signer)
      PROVE  TouchesOne
  <2>1. Open(tx) /\ RecordApproval(tx, signer)
    BY <1>3 DEF ApproveAndExecute, CanApprove
  <2>2. CASE proposal' = [proposal EXCEPT ![tx] = OneMore(tx)]
    BY <2>1, <2>2, ApprovingTouchesOne
  <2>3. CASE Settle(tx, OneMore(tx))
    <3>1. OneMore(tx) \in Proposal
      BY <1>1, <2>1, RecordApprovalType
    <3>2. \A t \in TxIds \ {tx} : proposal'[t] = proposal[t]
      BY <1>1, <2>3, <3>1, SettledProposals
    <3>3. proposal'[tx].createdAt = OneMore(tx).createdAt
      BY <1>1, <2>3, <3>1, SettledKeepsDate
    <3>4. lastApproval' = NoteApproval(tx) /\ UNCHANGED cancelled
      BY <2>1 DEF RecordApproval
    <3>5. Touches(tx)
      BY <2>1, <3>2, <3>3, <3>4, ApprovalStamps DEF Touches, Same
    <3> QED
      BY <3>5 DEF TouchesOne
  <2> QED
    BY <1>3, <2>2, <2>3 DEF ApproveAndExecute
<1> QED
  BY <1>2, <1>3 DEF TouchesOne

LEMMA StoringTouchesNone ==
    ASSUME StateOK, NEW t \in TxIds, NEW proposer, NEW payload, NEW amount,
           NEW private, StoreProposal(proposer, payload, amount, private)
    PROVE  Same(t)
<1>1. t \in 0..instance.nextTx /\ t # instance.nextTx
  BY DEF StateOK, Instance, TxIds
<1> QED
  BY <1>1 DEF StoreProposal, Extend, Same

LEMMA StepTouchesOne ==
    ASSUME TypeOK, StampsOK, [OpenNext]_vars
    PROVE  TouchesOne \/ \A t \in TxIds : Same(t)
<1> DEFINE Goal == TouchesOne \/ \A t \in TxIds : Same(t)
<1>1. ASSUME NEW tx \in TxIds, NEW signer \in Address
      PROVE  /\ Approve(tx, signer) => TouchesOne
             /\ ApproveAndExecute(tx, signer) => TouchesOne
             /\ \A zk \in ZkApproval : ApproveZk(tx, signer, zk) => TouchesOne
  BY ApprovingTouchesOne, SettlingTouchesOne
  DEF Approve, CanApprove, ApproveZk, CanApprovePrivately
<1>2. ASSUME NEW tx \in TxIds
      PROVE  /\ Execute(tx) => TouchesOne
             /\ \A zk \in ZkApproval : ApproveZkAnon(tx, zk) => TouchesOne
  BY ApprovingTouchesOne, SettlingTouchesOne
  DEF ApproveZkAnon, CanApprovePrivately
<1>3. ASSUME NEW tx \in TxIds, NEW caller \in Address, Cancel(tx, caller)
      PROVE  TouchesOne
  <2>1. Touches(tx)
    BY <1>3 DEF Cancel, Touches, Same
  <2> QED
    BY <2>1 DEF TouchesOne
<1>4. ASSUME NEW proposer, NEW private
      PROVE  /\ \A t \in Transfers :
                    Propose(proposer, t.target, t.amount, private) => Goal
             /\ \A pays \in Batches :
                    ProposeBatch(proposer, pays, private) => Goal
             /\ \A call \in Calls :
                    ProposeCall(proposer, call, private) => Goal
             /\ \A action \in AdminActions :
                    ProposeAdmin(proposer, action) => Goal
  BY StoringTouchesNone, StateIsTyped
  DEF Propose, ProposeBatch, ProposeCall, ProposeAdmin
<1>5. \/ CloseLedger
      \/ \E from \in Address, amount \in Deposits : Deposit(from, amount)
      \/ UNCHANGED vars
      => Goal
  BY DEF CloseLedger, Deposit, vars, Same
<1> QED
  BY <1>1, <1>2, <1>3, <1>4, <1>5, VaultAssumption
  DEF OpenNext, Next

(* Surplus approvals do not postpone a settlement: once a proposal has passed *)
(* its unlock ledger moves with the policy or the threshold only.             *)
THEOREM LocksAreNotPostponed == Spec => LockNotPostponed
<1> DEFINE NotLater == \A tx \in TxIds :
            /\ passedAt[tx] # NotPassed
            /\ instance'.policy = instance.policy
            /\ instance'.thresholdChanged = instance.thresholdChanged
            => UnlockAt(proposal[tx], lastApproval[tx])'
                <= UnlockAt(proposal[tx], lastApproval[tx])
<1>1. ASSUME TypeOK, StampsOK, [OpenNext]_vars PROVE NotLater
  <2> SUFFICES ASSUME NEW tx \in TxIds, passedAt[tx] # NotPassed,
                      instance'.policy = instance.policy,
                      instance'.thresholdChanged = instance.thresholdChanged
               PROVE  UnlockAt(proposal[tx], lastApproval[tx])'
                        <= UnlockAt(proposal[tx], lastApproval[tx])
    OBVIOUS
  <2>1. /\ proposal'[tx].createdAt = proposal[tx].createdAt
        /\ lastApproval'[tx] = lastApproval[tx]
    <3>1. Passed(proposal[tx])
      BY <1>1 DEF StampsOK
    <3>2. CASE TouchesOne
      <4> PICK t \in TxIds : Touches(t)
        BY <3>2 DEF TouchesOne
      <4> QED
        BY <3>1 DEF Touches, Same
    <3>3. CASE \A t \in TxIds : Same(t)
      BY <3>3 DEF Same
    <3> QED
      BY <1>1, <3>2, <3>3, StepTouchesOne
  <2>2. UnlockAt(proposal[tx], lastApproval[tx])'
            = UnlockAt(proposal[tx], lastApproval[tx])
    BY <2>1 DEF UnlockAt, PassedStamp
  <2>3. UnlockAt(proposal[tx], lastApproval[tx]) \in Int
    <3>1. /\ instance.policy.timelock \in Nat /\ instance.thresholdChanged \in Nat
          /\ PassedStamp(proposal[tx], lastApproval[tx]) \in Nat
      BY <1>1 DEF TypeOK, Instance, Policy, Proposal, U32, PassedStamp
    <3> QED
      BY <3>1, WidthAssumption DEF UnlockAt, SatU32, AtMost
  <2> QED
    BY <2>2, <2>3
<1>2. TypeOK /\ StampsOK /\ [OpenNext]_vars => [NotLater]_vars
  BY <1>1
<1>3. OpenSpec => [][NotLater]_vars
  BY <1>2, StampedStates, PTL DEF OpenSpec
<1> QED
  BY <1>3, SpecIsOpen DEF LockNotPostponed

(* Nothing is paid twice, paid after it was cancelled, or cancelled after it  *)
(* was paid (require_open in each entry point).                               *)
THEOREM SettledStaysSettled == Spec => SettledIsFinal
<1> DEFINE Final == \A tx \in TxIds :
            ~Open(tx) => /\ proposal'[tx] = proposal[tx]
                         /\ (tx \in cancelled) = (tx \in cancelled')
<1>1. TypeOK /\ StampsOK /\ [OpenNext]_vars => [Final]_vars
  BY StepTouchesOne DEF TouchesOne, Touches, Same
<1>2. OpenSpec => [][Final]_vars
  BY <1>1, StampedStates, PTL DEF OpenSpec
<1> QED
  BY <1>2, SpecIsOpen DEF SettledIsFinal

------------------------------------------------------------------------------
(* The sum over a batch is a number: SumFunction by the function it is        *)
(* defined with, which exists because a batch names finitely many recipients. *)
LEMMA LeastNat ==
    ASSUME NEW S, S \subseteq Nat, S # {}
    PROVE  \E m \in S : \A n \in S : m <= n
<1> DEFINE R == OpToRel(<, Nat)
<1>1. IsWellFoundedOn(R, Nat)
  BY NatLessThanWellFounded
<1>2. PICK m \in S : \A n \in S : <<n, m>> \notin R
  <2> HIDE DEF R
  <2> QED BY <1>1, WFMin
<1>3. \A n \in S : ~(n < m)
  BY <1>2 DEF OpToRel
<1>4. \A n \in S : m <= n
  BY <1>3
<1> QED BY <1>4

Pick(s) == CHOOSE x \in s : TRUE
SumStep(f, it, s) == IF s = {} THEN 0 ELSE f[Pick(s)] + it[s \ {Pick(s)}]

(* Sums of the parts of f with at most n elements.                            *)
PartsUpTo(f, n) == {s \in SUBSET DOMAIN f : Cardinality(s) <= n}
Sums(f, n, it) == it = [s \in PartsUpTo(f, n) |-> SumStep(f, it, s)]

LEMMA SmallerPart ==
    ASSUME NEW f, IsFiniteSet(DOMAIN f), NEW n \in Nat,
           NEW s \in PartsUpTo(f, n), s # {}
    PROVE  /\ Pick(s) \in s /\ n > 0
           /\ s \ {Pick(s)} \in PartsUpTo(f, n - 1)
           /\ s \ {Pick(s)} \in PartsUpTo(f, n)
<1>1. Pick(s) \in s
  BY DEF Pick
<1>2. IsFiniteSet(s) /\ s \subseteq DOMAIN f
  BY FS_Subset DEF PartsUpTo
<1>3. /\ Cardinality(s) \in Nat
      /\ Cardinality(s \ {Pick(s)}) = Cardinality(s) - 1
      /\ Cardinality(s \ {Pick(s)}) \in Nat
  BY <1>1, <1>2, FS_CardinalityType, FS_RemoveElement
<1> QED
  BY <1>1, <1>2, <1>3 DEF PartsUpTo

SumsExist(f, n) == \E it : Sums(f, n, it)

LEMMA OneMoreSum ==
    ASSUME NEW f, IsFiniteSet(DOMAIN f), NEW n \in Nat, SumsExist(f, n)
    PROVE  SumsExist(f, n + 1)
<1>1. PICK it : Sums(f, n, it)
  BY DEF SumsExist
<1> DEFINE next == [s \in PartsUpTo(f, n + 1) |-> SumStep(f, it, s)]
<1>2. ASSUME NEW s \in PartsUpTo(f, n + 1), s # {}
      PROVE  next[s \ {Pick(s)}] = it[s \ {Pick(s)}]
  <2>1. /\ s \ {Pick(s)} \in PartsUpTo(f, n)
        /\ s \ {Pick(s)} \in PartsUpTo(f, n + 1)
    BY <1>2, SmallerPart
  <2> DEFINE r == s \ {Pick(s)}
  <2> HIDE DEF r
  <2>2. r \in PartsUpTo(f, n) /\ r \in PartsUpTo(f, n + 1)
    BY <2>1 DEF r
  <2>3. it[r] = SumStep(f, it, r)
    BY <1>1, <2>2 DEF Sums
  <2>4. next[r] = SumStep(f, it, r)
    BY <2>2
  <2> QED
    BY <2>3, <2>4 DEF r
<1>3. \A s \in PartsUpTo(f, n + 1) : SumStep(f, next, s) = SumStep(f, it, s)
  <2> HIDE DEF next
  <2> QED BY <1>2 DEF SumStep
<1>4. Sums(f, n + 1, next)
  BY <1>3 DEF Sums
<1> QED
  BY <1>4 DEF SumsExist

LEMMA AllSumsExist ==
    ASSUME NEW f, IsFiniteSet(DOMAIN f), NEW n \in Nat
    PROVE  SumsExist(f, n)
<1> DEFINE Bad == {k \in Nat : ~SumsExist(f, k)}
<1> SUFFICES ASSUME Bad # {} PROVE FALSE
  OBVIOUS
<1>1. PICK m \in Bad : \A k \in Bad : m <= k
  <2> HIDE DEF Bad
  <2>1. Bad \subseteq Nat
    BY DEF Bad
  <2> QED BY <2>1, LeastNat
<1>2. m # 0
  <2>1. PartsUpTo(f, 0) \subseteq {{}}
    <3> SUFFICES ASSUME NEW s \in PartsUpTo(f, 0), s # {} PROVE FALSE
      OBVIOUS
    <3> HIDE DEF Bad
    <3>1. 0 \in Nat
      OBVIOUS
    <3>2. 0 > 0
      BY <3>1, SmallerPart
    <3> QED
      BY <3>2
  <2>2. Sums(f, 0, [s \in PartsUpTo(f, 0) |-> 0])
    BY <2>1 DEF Sums, SumStep
  <2> QED
    BY <2>2 DEF SumsExist
<1>3. m - 1 \in Nat /\ SumsExist(f, m - 1)
  BY <1>1, <1>2
<1>4. SumsExist(f, (m - 1) + 1)
  BY <1>3, OneMoreSum
<1> QED
  BY <1>1, <1>4

(* Numbers that contain 0 and their sums, as Int and Nat do.                  *)
Additive(R) == R \subseteq Int /\ 0 \in R /\ \A a, b \in R : a + b \in R

LEMMA PartialSums ==
    ASSUME NEW f, IsFiniteSet(DOMAIN f), NEW R, Additive(R), f \in [DOMAIN f -> R],
           NEW n \in Nat, NEW it, Sums(f, n, it)
    PROVE  \A s \in PartsUpTo(f, n) : it[s] \in R
<1> DEFINE Bad == {k \in 0..n : \E s \in PartsUpTo(f, k) : it[s] \notin R}
<1> SUFFICES ASSUME n \in Bad PROVE FALSE
  OBVIOUS
<1>1. PICK m \in Bad : \A k \in Bad : m <= k
  <2> HIDE DEF Bad
  <2>1. Bad \subseteq Nat
    BY DEF Bad
  <2> QED BY <2>1, LeastNat
<1>2. m \in Nat /\ m <= n
  OBVIOUS
<1>3. PICK s \in PartsUpTo(f, m) : it[s] \notin R
  OBVIOUS
<1>4. s \in PartsUpTo(f, n) /\ s \subseteq DOMAIN f
  <2>1. Cardinality(s) \in Nat
    BY FS_Subset, FS_CardinalityType DEF PartsUpTo
  <2> QED
    BY <1>2, <2>1 DEF PartsUpTo
<1>5. it[s] = SumStep(f, it, s)
  BY <1>4 DEF Sums
<1>6. s # {}
  BY <1>3, <1>5 DEF SumStep, Additive
<1>7. /\ Pick(s) \in s /\ m > 0
      /\ s \ {Pick(s)} \in PartsUpTo(f, m - 1)
  BY <1>2, <1>6, SmallerPart
<1>8. m - 1 \notin Bad /\ m - 1 \in 0..n
  BY <1>1, <1>2, <1>7
<1>9. it[s \ {Pick(s)}] \in R
  BY <1>7, <1>8
<1>10. f[Pick(s)] \in R
  BY <1>4, <1>7
<1> QED
  BY <1>3, <1>5, <1>6, <1>9, <1>10 DEF SumStep, Additive

LEMMA SumOfParts ==
    ASSUME NEW f, IsFiniteSet(DOMAIN f), NEW R, Additive(R), f \in [DOMAIN f -> R]
    PROVE  /\ SumFunction(f) \in R
           /\ DOMAIN f # {} =>
                \E x \in DOMAIN f, rest \in R : SumFunction(f) = f[x] + rest
<1> DEFINE n == Cardinality(DOMAIN f)
           Is(it) == it = [s \in SUBSET DOMAIN f |->
                            IF s = {} THEN 0
                            ELSE f[CHOOSE x \in s : TRUE]
                                    + it[s \ {CHOOSE x \in s : TRUE}]]
           sums == CHOOSE it : Is(it)
<1>1. n \in Nat
  BY FS_CardinalityType
<1>2. PartsUpTo(f, n) = SUBSET DOMAIN f
  BY FS_Subset DEF PartsUpTo
<1>3. \A it : Sums(f, n, it) <=> Is(it)
  BY <1>2 DEF Sums, SumStep, Pick
<1>4. \E it : Is(it)
  <2> HIDE DEF Is
  <2> QED BY <1>1, <1>3, AllSumsExist DEF SumsExist
<1>5. Is(sums)
  <2> HIDE DEF Is
  <2> QED BY <1>4
<1>6. SumFunction(f) = sums[DOMAIN f]
  BY DEF SumFunction, SumFunctionOnSet, FoldFunctionOnSet, MapThenFoldSet
<1>7. Sums(f, n, sums)
  <2> HIDE DEF Is, sums
  <2> QED BY <1>3, <1>5
<1> DEFINE keys == DOMAIN f
<1> HIDE DEF sums
<1>8. sums[keys] \in R
  BY <1>1, <1>2, <1>7, PartialSums
<1>9. ASSUME keys # {}
      PROVE  \E x \in keys, rest \in R : sums[keys] = f[x] + rest
  <2>1. sums[keys] = SumStep(f, sums, keys)
    BY <1>2, <1>7 DEF Sums
  <2>2. keys \in PartsUpTo(f, n)
    BY <1>2
  <2>3. Pick(keys) \in keys /\ keys \ {Pick(keys)} \in PartsUpTo(f, n)
    BY <1>1, <1>9, <2>2, SmallerPart
  <2>4. sums[keys \ {Pick(keys)}] \in R
    BY <1>1, <1>7, <2>3, PartialSums
  <2> QED
    BY <1>9, <2>1, <2>3, <2>4 DEF SumStep
<1> QED
  BY <1>6, <1>8, <1>9

LEMMA SumIsInteger ==
    ASSUME NEW f, IsFiniteSet(DOMAIN f), f \in [DOMAIN f -> Int]
    PROVE  SumFunction(f) \in Int
<1>1. Additive(Int)
  BY DEF Additive
<1> QED
  BY <1>1, SumOfParts

(* A batch that pays somebody, and to everybody more than nothing, pays more  *)
(* than nothing.                                                              *)
LEMMA SumIsPositive ==
    ASSUME NEW f, IsFiniteSet(DOMAIN f), DOMAIN f # {}, f \in [DOMAIN f -> Int],
           \A x \in DOMAIN f : f[x] > 0
    PROVE  SumFunction(f) > 0
<1>1. Additive(Nat) /\ f \in [DOMAIN f -> Nat]
  BY DEF Additive
<1>2. PICK x \in DOMAIN f, rest \in Nat : SumFunction(f) = f[x] + rest
  BY <1>1, SumOfParts
<1> QED
  BY <1>2

------------------------------------------------------------------------------
(* The guards on money.  Every item of a payment is positive and so is what   *)
(* they add up to, and every change of the rules was among those proposed.    *)
PayloadOK(payload, amount) ==
    /\ payload.kind = "payment" =>
            /\ amount > 0
            /\ \A to \in DOMAIN payload.pays : payload.pays[to] > 0
    /\ payload.kind = "admin" => payload.action \in AdminActions

PayloadsOK ==
    \A tx \in TxIds : PayloadOK(proposal[tx].payload, proposal[tx].amount)

LEMMA ProposedPayloads ==
    ASSUME StateOK, PayloadsOK, NEW proposer, Proposes(proposer)
    PROVE  PayloadsOK'
<1>1. ASSUME NEW payload, NEW amount, NEW private, PayloadOK(payload, amount),
             StoreProposal(proposer, payload, amount, private)
      PROVE  PayloadsOK'
  BY <1>1, ProposalStored DEF PayloadsOK
<1>2. ASSUME NEW t \in Transfers, NEW private,
             Propose(proposer, t.target, t.amount, private)
      PROVE  PayloadsOK'
  <2>1. PayloadOK([kind |-> "payment", pays |-> Single(t.target, t.amount)],
                  t.amount)
    BY <1>2 DEF Propose, PayloadOK, Single
  <2> QED
    BY <1>1, <1>2, <2>1 DEF Propose
<1>3. ASSUME NEW pays \in Batches, NEW private,
             ProposeBatch(proposer, pays, private)
      PROVE  PayloadsOK'
  <2>1. /\ DOMAIN pays \subseteq Address /\ pays \in [DOMAIN pays -> Int]
        /\ \A to \in DOMAIN pays : pays[to] > 0
    BY <1>3, WidthAssumption, VaultAssumption DEF ProposeBatch
  <2>2. IsFiniteSet(DOMAIN pays) /\ DOMAIN pays # {}
    BY <1>3, <2>1, FS_Subset, FS_EmptySet, VaultAssumption DEF ProposeBatch
  <2>3. SumFunction(pays) > 0
    BY <2>1, <2>2, SumIsPositive
  <2>4. PayloadOK([kind |-> "payment", pays |-> pays], SumFunction(pays))
    BY <2>1, <2>3 DEF PayloadOK
  <2> QED
    BY <1>1, <1>3, <2>4 DEF ProposeBatch
<1>4. ASSUME NEW call \in Calls, NEW private,
             ProposeCall(proposer, call, private)
      PROVE  PayloadsOK'
  <2>1. PayloadOK([kind |-> "call", call |-> call], 0)
    BY DEF PayloadOK
  <2> QED
    BY <1>1, <1>4, <2>1 DEF ProposeCall
<1>5. ASSUME NEW action \in AdminActions, ProposeAdmin(proposer, action)
      PROVE  PayloadsOK'
  <2>1. PayloadOK([kind |-> "admin", action |-> action], 0)
    BY DEF PayloadOK
  <2> QED
    BY <1>1, <1>5, <2>1 DEF ProposeAdmin
<1> QED
  BY <1>2, <1>3, <1>4, <1>5 DEF Proposes

LEMMA PaidStates == OpenSpec => [](TypeOK /\ PayloadsOK)
<1>1. Init => PayloadsOK
  BY DEF Init, Constructor, TxIds, PayloadsOK
<1>2. TypeOK /\ PayloadsOK /\ [OpenNext]_vars => PayloadsOK'
  <2>1. KeepsKinds /\ PayloadsOK => PayloadsOK'
    BY DEF KeepsKinds, PayloadsOK
  <2> QED
    BY <2>1, ProposedPayloads, OnlyProposingAddsPayloads, StateIsTyped
<1> QED
  BY <1>1, <1>2, OpenTypes, PTL DEF OpenSpec

------------------------------------------------------------------------------
(* Execute settles the proposal as it is stored, ApproveAndExecute with one   *)
(* approval more.                                                             *)
LEMMA SettlesAProposal ==
    ASSUME StateOK, NEW tx \in TxIds, Settles(tx)
    PROVE  \E p \in Proposal : /\ Settle(tx, p)
                               /\ p.payload = proposal[tx].payload
                               /\ p.amount = proposal[tx].amount
                               /\ UNCHANGED ledger
<1>1. CASE Execute(tx)
  BY <1>1 DEF Execute, StateOK
<1>2. ASSUME NEW signer \in Address, ApproveAndExecute(tx, signer),
             Settle(tx, OneMore(tx))
      PROVE  \E p \in Proposal : /\ Settle(tx, p)
                                 /\ p.payload = proposal[tx].payload
                                 /\ p.amount = proposal[tx].amount
                                 /\ UNCHANGED ledger
  <2>1. OneMore(tx) \in Proposal /\ UNCHANGED ledger
    BY <1>2, RecordApprovalType DEF ApproveAndExecute, RecordApproval
  <2>2. /\ OneMore(tx).payload = proposal[tx].payload
        /\ OneMore(tx).amount = proposal[tx].amount
    BY DEF OneMore, StateOK, Proposal
  <2> QED
    BY <1>2, <2>1, <2>2
<1> QED
  BY <1>1, <1>2 DEF Settles

(* Whatever the allowlist was when a payment was approved, the one that is in *)
(* force when it is settled decides who may receive it.                       *)
LEMMA ReceiversAreAllowed ==
    ASSUME StateOK, NEW p \in Proposal, NEW a \in Address, SettlePayment(p),
           instance.policy.allowlistOnly, balance'[a] > balance[a]
    PROVE  a \in instance.allowed
<1>1. p.payload.pays \in Payment /\ p.amount \in Nat
  BY DEF SettlePayment, Proposal, Payload, I128
<1>2. a \in DOMAIN p.payload.pays
  <2> SUFFICES ASSUME a \notin DOMAIN p.payload.pays PROVE FALSE
    OBVIOUS
  <2>1. balance'[a] = balance[a] + 0 - (IF a = Vault THEN p.amount ELSE 0)
    BY DEF SettlePayment
  <2> QED
    BY <1>1, <2>1 DEF StateOK
<1> QED
  BY <1>2 DEF SettlePayment, CheckRecipient

(* A payment that was approved before the allowlist was tightened still pays  *)
(* nobody outside it (check_recipient in run).                                *)
THEOREM PaymentsStayAllowed == Spec => PaymentsToAllowed
<1> DEFINE Allowed == \A tx \in TxIds, a \in Address :
            /\ JustExecuted(tx) /\ proposal[tx].payload.kind = "payment"
            /\ instance.policy.allowlistOnly
            /\ balance'[a] > balance[a]
            => a \in instance.allowed
<1>1. ASSUME TypeOK, [OpenNext]_vars, NEW tx \in TxIds, NEW a \in Address,
             JustExecuted(tx), proposal[tx].payload.kind = "payment",
             instance.policy.allowlistOnly, balance'[a] > balance[a]
      PROVE  a \in instance.allowed
  <2>1. StateOK /\ Settles(tx)
    BY <1>1, StateIsTyped, OnlySettlingExecutes
  <2>2. PICK p \in Proposal : /\ Settle(tx, p)
                              /\ p.payload = proposal[tx].payload
    BY <2>1, SettlesAProposal
  <2>3. SettlePayment(p)
    BY <1>1, <2>2 DEF Settle, SettleAdmin, SettleCall
  <2> QED
    BY <1>1, <2>1, <2>3, ReceiversAreAllowed
<1>2. TypeOK /\ [OpenNext]_vars => [Allowed]_vars
  BY <1>1
<1>3. OpenSpec => [][Allowed]_vars
  BY <1>2, OpenTypes, PTL DEF OpenSpec
<1> QED
  BY <1>3, SpecIsOpen DEF PaymentsToAllowed

------------------------------------------------------------------------------
(* The cap.  A window that has rolled is read once more by what is charged    *)
(* against it, and if the policy has been given a shorter length meanwhile    *)
(* the second reading forgets it: SpendingCap shows how.  So what is charged  *)
(* stays booked as long as no window is stored that is longer than the        *)
(* policy's.                                                                  *)
WindowFits ==
    window # NoWindow /\ instance.policy.spendingCap > 0 =>
        window.len <= WindowLen(instance.policy)

(* The limit and the cap cover the amount, and it is booked in full.          *)
Guarded(amount) ==
    /\ instance.policy.maxPerTx > 0 => amount <= instance.policy.maxPerTx
    /\ instance.policy.spendingCap > 0 =>
            /\ Used + amount <= instance.policy.spendingCap
            /\ WindowFits => /\ Used' >= Used + amount
                             /\ Used' <= instance.policy.spendingCap

LEMMA UsedType ==
    ASSUME NEW stored \in CapWindowRecord \cup {NoWindow}, NEW now \in U32,
           NEW policy, CapPolicy(policy)
    PROVE  WindowUsed(stored, <<>>, policy, now) \in Int
<1> DEFINE w == WindowNow(stored, <<>>, policy, now)
<1>1. w \in CapWindowRecord
  BY NoLegacySpending, WindowNowType
<1>2. WindowUsed(stored, <<>>, policy, now) = SatI128(w.spent + Carry(w, now))
  BY <1>1, UsedIsSpentAndCarry
<1>3. w.spent \in Int /\ Carry(w, now) \in Int
  BY <1>1, CarryType DEF CapWindowRecord, I128
<1> QED
  BY <1>2, <1>3, WidthAssumption DEF SatI128

LEMMA UsedIsInt == StateOK => Used \in Int
BY UsedType, InstancePolicy DEF StateOK, Used

LEMMA ChargeIsGuarded ==
    ASSUME StateOK, NEW amount \in Nat \ {0},
           CheckLimit(amount), ChargeWindow(amount),
           UNCHANGED <<instance, ledger>>
    PROVE  Guarded(amount)
<1>1. /\ CapPolicy(instance.policy) /\ ledger \in U32
      /\ window \in CapWindowRecord \cup {NoWindow}
      /\ \A b \in Nat : LegacySpent(<<>>, b) \in I128
      /\ instance.policy.spendingCap \in Int
  BY InstancePolicy, NoLegacySpending DEF StateOK, CapPolicy
<1>2. Used \in Int
  BY UsedIsInt
<1>3. ASSUME instance.policy.spendingCap > 0
      PROVE  /\ Used + amount <= instance.policy.spendingCap
             /\ WindowFits => /\ Used' = Used + amount
                              /\ Used' <= instance.policy.spendingCap
  <2>1. CanCharge(window, <<>>, instance.policy, ledger, amount)
    BY DEF ChargeWindow
  <2>2. Used' = WindowUsed(Charged(window, <<>>, instance.policy, ledger, amount),
                           <<>>, instance.policy, ledger)
    BY DEF Used, ChargeWindow
  <2>3. Used + amount <= instance.policy.spendingCap
    BY <1>1, <1>3, <2>1 DEF CanCharge, Used
  <2>4. ASSUME WindowFits
        PROVE  /\ Used' = Used + amount
               /\ Used' <= instance.policy.spendingCap
    <3>1. window # NoWindow => window.len <= WindowLen(instance.policy)
      BY <1>3, <2>4 DEF WindowFits
    <3> QED
      BY <1>1, <1>3, <2>1, <2>2, <3>1, ChargeIsBooked DEF Used
  <2> QED
    BY <2>3, <2>4
<1> QED
  BY <1>2, <1>3 DEF Guarded, CheckLimit

LEMMA LessIsGuarded ==
    ASSUME NEW amount \in Int, NEW less \in Int, less <= amount,
           Guarded(amount), Used \in Int, Used' \in Int, StateOK
    PROVE  Guarded(less)
<1>1. instance.policy.maxPerTx \in Int /\ instance.policy.spendingCap \in Int
  BY DEF StateOK, Instance, Policy
<1> QED
  BY <1>1 DEF Guarded

(* Settling takes out no more than it asked the guards for.                   *)
LEMMA SettlingIsGuarded ==
    ASSUME StateOK, StateOK', PayloadsOK, NEW tx \in TxIds,
           NEW p \in Proposal, p.payload = proposal[tx].payload,
           Settle(tx, p), UNCHANGED ledger, Outflow > 0
    PROVE  Guarded(Outflow)
<1>1. balance \in [Address -> Int] /\ Vault \in Address
  BY VaultAssumption DEF StateOK
<1>2. CASE SettleAdmin(p)
  <2>1. Outflow = balance[Vault] - balance[Vault]
    BY <1>2 DEF SettleAdmin, Outflow
  <2> QED
    BY <1>1, <2>1
<1>3. CASE SettleCall(p)
  <2>1. PICK to \in Address \ {Vault}, moved \in CallFlows :
            /\ balance' = [balance EXCEPT ![Vault] = @ - moved, ![to] = @ + moved]
            /\ moved > 0 => CheckLimit(moved) /\ ChargeWindow(moved)
    BY <1>3 DEF SettleCall
  <2>2. moved \in Int
    BY VaultAssumption
  <2>3. Outflow = moved
    BY <1>1, <2>1, <2>2 DEF Outflow
  <2> QED
    BY <1>3, <2>1, <2>2, <2>3, ChargeIsGuarded DEF SettleCall
<1>4. CASE SettlePayment(p)
  <2>1. p.payload.pays \in Payment /\ p.amount \in Nat
    BY <1>4 DEF SettlePayment, Proposal, Payload, I128
  <2> DEFINE back == IF Vault \in DOMAIN p.payload.pays
                     THEN p.payload.pays[Vault] ELSE 0
  <2>2. back \in Int /\ back >= 0
    BY <1>4, <2>1, PaymentType DEF SettlePayment, PayloadsOK, PayloadOK
  <2>3. Outflow = p.amount - back
    <3>1. balance'[Vault] = balance[Vault] + back - p.amount
      BY <1>1, <1>4 DEF SettlePayment
    <3> HIDE DEF back
    <3> QED
      BY <1>1, <2>1, <2>2, <3>1 DEF Outflow
  <2>4. Outflow \in Int /\ Outflow <= p.amount /\ p.amount \in Nat \ {0}
    <3> HIDE DEF back
    <3> QED
      BY <2>1, <2>2, <2>3
  <2>5. Guarded(p.amount)
    BY <1>4, <2>4, ChargeIsGuarded DEF SettlePayment
  <2>6. Used \in Int /\ Used' \in Int
    <3>1. /\ window' \in CapWindowRecord \cup {NoWindow} /\ ledger' \in U32
          /\ CapPolicy(instance'.policy)
      BY DEF StateOK, Instance, Policy, CapPolicy
    <3>2. Used' \in Int
      BY <3>1, UsedType DEF Used
    <3> QED
      BY <3>2, UsedIsInt
  <2> QED
    BY <2>4, <2>5, <2>6, LessIsGuarded
<1> QED
  BY <1>2, <1>3, <1>4 DEF Settle

(* Nothing but a settlement writes the window or the policy, or takes tokens  *)
(* out of the vault.                                                          *)
LEMMA OnlySettlingPays ==
    ASSUME StateOK, [OpenNext]_vars
    PROVE  \/ /\ Outflow <= 0
              /\ UNCHANGED <<window, instance.policy>>
           \/ \E tx \in TxIds : Settles(tx)
<1> DEFINE Still == Outflow <= 0 /\ UNCHANGED <<window, instance.policy>>
<1>1. balance \in [Address -> Int] /\ Vault \in Address
  BY VaultAssumption DEF StateOK
<1>2. UNCHANGED <<balance, window, instance.policy>> => Still
  BY <1>1 DEF Outflow
<1>3. ASSUME NEW tx \in TxIds, NEW signer \in Address
      PROVE  /\ Approve(tx, signer) => Still
             /\ \A zk \in ZkApproval : ApproveZk(tx, signer, zk) => Still
             /\ Cancel(tx, signer) => Still
  BY <1>2 DEF Approve, ApproveZk, Cancel
<1>4. ASSUME NEW tx \in TxIds, NEW zk \in ZkApproval
      PROVE  ApproveZkAnon(tx, zk) => Still
  BY <1>2 DEF ApproveZkAnon
<1>5. ASSUME NEW proposer, NEW payload, NEW amount, NEW private
      PROVE  StoreProposal(proposer, payload, amount, private) => Still
  BY <1>2 DEF StoreProposal, StateOK, Instance
<1>6. CloseLedger \/ UNCHANGED vars => Still
  BY <1>2 DEF CloseLedger, vars
<1>7. ASSUME NEW from \in Address, NEW amount \in Deposits,
             Deposit(from, amount)
      PROVE  Still
  <2>1. amount \in Nat /\ balance'[Vault] = balance[Vault] + amount
    BY <1>1, <1>7, VaultAssumption DEF Deposit
  <2> QED
    BY <1>1, <1>7, <2>1 DEF Deposit, Outflow
<1>8. ASSUME NEW tx \in TxIds, NEW signer \in Address,
             ApproveAndExecute(tx, signer)
      PROVE  Still \/ Settles(tx)
  BY <1>2, <1>8 DEF ApproveAndExecute, Settles
<1>9. ASSUME NEW tx \in TxIds, Execute(tx) PROVE Settles(tx)
  BY <1>9 DEF Settles
<1> QED
  BY <1>3, <1>4, <1>5, <1>6, <1>7, <1>8, <1>9, VaultAssumption
  DEF OpenNext, Next, Propose, ProposeBatch, ProposeCall, ProposeAdmin

(* Every outflow is within the limit and the cap as they are when it happens, *)
(* and booked against the cap unless a longer window is stored                *)
(* (check_limit and charge_window in run, before a payment and after a call). *)
THEOREM OutflowIsChecked == Spec => [][Outflow > 0 => Guarded(Outflow)]_vars
<1>1. ASSUME TypeOK, TypeOK', PayloadsOK, [OpenNext]_vars, Outflow > 0
      PROVE  Guarded(Outflow)
  <2>1. StateOK /\ StateOK'
    BY <1>1 DEF TypeOK, StateOK
  <2>2. Outflow \in Int
    BY <2>1, VaultAssumption DEF StateOK, Outflow
  <2>3. PICK tx \in TxIds : Settles(tx)
    BY <1>1, <2>1, <2>2, OnlySettlingPays
  <2> QED
    BY <1>1, <2>1, <2>3, SettlesAProposal, SettlingIsGuarded
<1>2. /\ TypeOK /\ PayloadsOK /\ TypeOK' /\ [OpenNext]_vars
      => [Outflow > 0 => Guarded(Outflow)]_vars
  BY <1>1
<1> QED
  BY <1>2, PaidStates, OpenTypes, SpecIsOpen, PTL DEF OpenSpec

------------------------------------------------------------------------------
(* The stored window and the policy know no other lengths than these.        *)
LengthsOK ==
    /\ window # NoWindow => window.len \in Lengths
    /\ instance.policy.spendingCap >= 0
    /\ instance.policy.spendingCap > 0 => WindowLen(instance.policy) \in Lengths

(* window_now keeps the length of the stored window or takes the policy's.    *)
LEMMA WindowNowLength ==
    ASSUME NEW stored, NEW legacy, NEW policy, NEW now
    PROVE  \/ WindowNow(stored, legacy, policy, now).len = WindowLen(policy)
           \/ /\ stored # NoWindow
              /\ WindowNow(stored, legacy, policy, now).len = stored.len
<1>1. \/ StoredWindow(stored, legacy, policy, now).len = WindowLen(policy)
      \/ /\ stored # NoWindow
         /\ StoredWindow(stored, legacy, policy, now) = stored
  BY DEF StoredWindow
<1> QED
  BY <1>1 DEF WindowNow

LEMMA ChargingKeepsLengths ==
    ASSUME StateOK, LengthsOK, NEW amount \in Nat, ChargeWindow(amount),
           UNCHANGED instance
    PROVE  LengthsOK'
<1> DEFINE w == WindowNow(window, <<>>, instance.policy, ledger)
<1>1. instance.policy.spendingCap \in Int /\ w \in CapWindowRecord
  BY InstancePolicy, NoLegacySpending, WindowNowType DEF StateOK, CapPolicy
<1>2. CASE instance.policy.spendingCap = 0
  BY <1>2 DEF ChargeWindow, Charged, LengthsOK
<1>3. CASE instance.policy.spendingCap # 0
  <2>1. instance.policy.spendingCap > 0
    BY <1>1, <1>3 DEF LengthsOK
  <2>2. window'.len = w.len
    BY <1>1, <1>3 DEF ChargeWindow, Charged, CapWindowRecord
  <2> QED
    BY <2>1, <2>2, WindowNowLength DEF LengthsOK
<1> QED
  BY <1>2, <1>3

LEMMA LengthStates == OpenSpec => [](TypeOK /\ LengthsOK)
<1>1. Init => LengthsOK
  BY DEF Init, Constructor, NoPolicy, LengthsOK
<1>2. ASSUME TypeOK, PayloadsOK, LengthsOK, [OpenNext]_vars PROVE LengthsOK'
  <2>1. StateOK
    BY <1>2, StateIsTyped
  <2>2. CASE UNCHANGED <<window, instance.policy>>
    BY <1>2, <2>2 DEF LengthsOK
  <2>3. ASSUME NEW tx \in TxIds, Settles(tx) PROVE LengthsOK'
    <3>1. PICK p \in Proposal : /\ Settle(tx, p)
                                /\ p.payload = proposal[tx].payload
      BY <2>1, <2>3, SettlesAProposal
    <3>2. CASE SettleAdmin(p)
      <4>1. UNCHANGED window /\ p.payload.action \in AdminActions
        BY <1>2, <3>1, <3>2 DEF SettleAdmin, PayloadsOK, PayloadOK
      <4>2. \/ instance'.policy = instance.policy
            \/ /\ p.payload.action.type = "SetPolicy"
               /\ instance'.policy = p.payload.action.policy
               /\ instance'.policy.spendingCap >= 0
        BY <2>1, <3>2 DEF SettleAdmin, ApplyAdmin, CheckAdmin, SetThreshold,
           AddSigner, RemoveSigner, SetPolicy, AllowRecipient,
           RevokeRecipient, AllowContract, RevokeContract, SetZkConfig, SetSignerCommitments,
           TransferOwnership, Upgrade, Retire, StateOK, Instance
      <4> QED
        BY <1>2, <4>1, <4>2 DEF LengthsOK, Lengths
    <3>3. CASE SettleCall(p)
      <4>1. PICK moved \in CallFlows :
                IF moved > 0 THEN ChargeWindow(moved) ELSE UNCHANGED window
        BY <3>3 DEF SettleCall
      <4>2. moved \in Int /\ UNCHANGED instance
        BY <3>3, VaultAssumption DEF SettleCall
      <4> QED
        BY <1>2, <2>1, <4>1, <4>2, ChargingKeepsLengths DEF LengthsOK
    <3>4. CASE SettlePayment(p)
      BY <1>2, <2>1, <3>4, ChargingKeepsLengths
      DEF SettlePayment, Proposal, I128
    <3> QED
      BY <3>1, <3>2, <3>3, <3>4 DEF Settle
  <2> QED
    BY <1>2, <2>1, <2>2, <2>3, OnlySettlingPays
<1> QED
  BY <1>1, <1>2, PaidStates, OpenTypes, PTL DEF OpenSpec

(* Every policy with a cap that may be proposed names the same window length. *)
OneLength == \A k, l \in Lengths : k = l

(* Under one window length, whatever leaves the vault is within the limit per *)
(* transaction and the cap of the moment, and the next reading of the window  *)
(* shows all of it.  A vault may change the length, and then the code does    *)
(* not keep the property (cap_resize).                                        *)
THEOREM OutflowIsGuarded == OneLength => (Spec => OutflowGuarded)
<1> SUFFICES ASSUME OneLength PROVE Spec => OutflowGuarded
  OBVIOUS
<1> DEFINE Kept == Outflow > 0 =>
            /\ instance.policy.maxPerTx > 0 =>
                    Outflow <= instance.policy.maxPerTx
            /\ instance.policy.spendingCap > 0 =>
                    /\ Used' >= Used + Outflow
                    /\ Used' <= instance.policy.spendingCap
<1>1. TypeOK /\ LengthsOK => WindowFits
  <2> SUFFICES ASSUME TypeOK, LengthsOK, window # NoWindow,
                      instance.policy.spendingCap > 0
               PROVE  window.len <= WindowLen(instance.policy)
    BY DEF WindowFits
  <2>1. window.len = WindowLen(instance.policy) /\ window.len \in Nat
    BY DEF OneLength, LengthsOK, TypeOK, CapWindowRecord, U32
  <2> QED
    BY <2>1
<1>2. WindowFits /\ [Outflow > 0 => Guarded(Outflow)]_vars => [Kept]_vars
  BY DEF Guarded
<1>3. Spec => [][Kept]_vars
  BY <1>1, <1>2, LengthStates, OutflowIsChecked, SpecIsOpen, PTL
<1> QED
  BY <1>3 DEF OutflowGuarded

------------------------------------------------------------------------------
(* What a window has used only fades while ledgers close: what is read now is *)
(* never less than what will be read of the same entry later.                 *)
LEMMA ProductsGrow ==
    ASSUME NEW p \in Nat, NEW a \in Nat, NEW b \in Nat, a <= b
    PROVE  p * a \in Nat /\ p * b \in Nat /\ p * a <= p * b
<1> DEFINE d == b - a
<1>1. d \in Nat /\ b = a + d
  OBVIOUS
<1> HIDE DEF d
<1>2. p * a \in Nat /\ p * d \in Nat /\ p * b = p * a + p * d
  BY <1>1
<1> QED
  BY <1>1, <1>2

LEMMA QuotientsGrow ==
    ASSUME NEW n \in Nat \ {0}, NEW a \in Nat, NEW b \in Nat, a <= b
    PROVE  a \div n <= b \div n
BY SMT

LEMMA CarryFades ==
    ASSUME NEW w \in CapWindowRecord, NEW a \in U32, NEW b \in U32, a <= b
    PROVE  Carry(w, b) <= Carry(w, a) /\ Carry(w, b) <= w.prev
<1> DEFINE Left(now) == w.len - AtMost(SubU32(now, w.opened), w.len)
           x == SatI128(w.prev * Left(a))
           y == SatI128(w.prev * Left(b))
<1>1. /\ w.prev \in Nat /\ w.len \in Nat /\ w.opened \in Nat
      /\ a \in Nat /\ b \in Nat
  BY DEF CapWindowRecord, U32, I128
<1>2. /\ Left(a) \in Nat /\ Left(b) \in Nat
      /\ Left(b) <= Left(a) /\ Left(b) <= w.len
  BY <1>1 DEF AtMost, SubU32
<1>3. CASE w.prev = 0 \/ w.len = 0
  BY <1>1, <1>3 DEF Carry
<1>4. CASE ~(w.prev = 0 \/ w.len = 0)
  <2>1. /\ w.prev * Left(a) \in Nat /\ w.prev * Left(b) \in Nat
        /\ w.prev * w.len \in Nat
        /\ w.prev * Left(b) <= w.prev * Left(a)
        /\ w.prev * Left(b) <= w.prev * w.len
    <3> HIDE DEF Left
    <3> QED
      BY <1>1, <1>2, ProductsGrow
  <2>2. x \in Nat /\ y \in Nat /\ y <= x /\ y <= w.prev * w.len
    <3> HIDE DEF Left
    <3> QED
      BY <2>1, WidthAssumption DEF SatI128
  <2>3. Carry(w, a) = x \div w.len /\ Carry(w, b) = y \div w.len
    BY <1>4 DEF Carry
  <2> HIDE DEF x, y, Left
  <2>4. /\ y \div w.len <= x \div w.len
        /\ y \div w.len <= (w.prev * w.len) \div w.len
    BY <1>1, <1>4, <2>1, <2>2, QuotientsGrow
  <2>5. (w.prev * w.len) \div w.len = w.prev
    BY <1>1, <1>4
  <2> QED
    BY <2>3, <2>4, <2>5
<1> QED
  BY <1>3, <1>4

LEMMA UsedFades ==
    ASSUME NEW policy, CapPolicy(policy),
           NEW stored \in CapWindowRecord \cup {NoWindow},
           NEW a \in U32, NEW b \in U32, a <= b
    PROVE  /\ WindowUsed(stored, <<>>, policy, a) \in I128
           /\ WindowUsed(stored, <<>>, policy, b)
                <= WindowUsed(stored, <<>>, policy, a)
           /\ WindowNow(stored, <<>>, policy, a).spent
                \in 0..WindowUsed(stored, <<>>, policy, a)
<1> DEFINE w  == StoredWindow(stored, <<>>, policy, a)
           wa == WindowNow(stored, <<>>, policy, a)
           wb == WindowNow(stored, <<>>, policy, b)
<1>1. wa \in CapWindowRecord /\ wb \in CapWindowRecord
  BY WindowNowType, NoLegacySpending
<1>2. /\ WindowUsed(stored, <<>>, policy, a) = SatI128(wa.spent + Carry(wa, a))
      /\ WindowUsed(stored, <<>>, policy, b) = SatI128(wb.spent + Carry(wb, b))
  BY <1>1, UsedIsSpentAndCarry
<1>3. /\ wa.spent \in I128 /\ wb.spent \in I128 /\ wa.prev \in I128 /\ wb.prev \in I128
      /\ Carry(wa, a) \in Nat /\ Carry(wb, b) \in Nat
  BY <1>1, CarryType DEF CapWindowRecord
<1>4. wb.spent + Carry(wb, b) <= wa.spent + Carry(wa, a)
  <2>1. CASE stored = NoWindow
    <3>1. wb.spent = 0 /\ wb.prev = 0
      BY <2>1 DEF WindowNow, StoredWindow, LegacySpent
    <3>2. Carry(wb, b) = 0
      BY <3>1 DEF Carry
    <3> QED
      BY <1>3, <3>1, <3>2 DEF I128
  <2>2. CASE stored # NoWindow
    <3> DEFINE ea == SubU32(a, stored.opened)
               eb == SubU32(b, stored.opened)
    <3>1. stored \in CapWindowRecord
      BY <2>2
    <3>2. ea \in Nat /\ eb \in Nat /\ ea <= eb /\ stored.len \in Nat
      BY <3>1 DEF CapWindowRecord, U32, SubU32
    <3>3. CASE eb >= SatU32(2 * stored.len)
      <4>1. wb.spent = 0 /\ wb.prev = 0
        BY <2>2, <3>3 DEF WindowNow, StoredWindow
      <4>2. Carry(wb, b) = 0
        BY <4>1 DEF Carry
      <4> QED
        BY <1>3, <4>1, <4>2 DEF I128
    <3>4. CASE ~(eb >= SatU32(2 * stored.len)) /\ eb >= stored.len /\ ea >= stored.len
      <4>1. ~(ea >= SatU32(2 * stored.len))
        BY <3>2, <3>4, WidthAssumption DEF SatU32
      <4>2. wa = wb
        BY <2>2, <3>4, <4>1 DEF WindowNow, StoredWindow
      <4>3. Carry(wb, b) <= Carry(wb, a)
        BY <1>1, CarryFades
      <4> QED
        BY <1>3, <4>2, <4>3 DEF I128
    <3>5. CASE ~(eb >= SatU32(2 * stored.len)) /\ eb >= stored.len /\ ~(ea >= stored.len)
      <4>1. ~(ea >= SatU32(2 * stored.len))
        BY <3>2, <3>5, WidthAssumption DEF SatU32
      <4>2. wa = stored
        BY <2>2, <3>5, <4>1 DEF WindowNow, StoredWindow
      <4>3. wb.spent = 0 /\ wb.prev = stored.spent
        BY <2>2, <3>5 DEF WindowNow, StoredWindow
      <4>4. Carry(wb, b) <= wb.prev
        BY <1>1, CarryFades
      <4> QED
        BY <1>3, <4>2, <4>3, <4>4 DEF I128
    <3>6. CASE ~(eb >= SatU32(2 * stored.len)) /\ ~(eb >= stored.len)
      <4>1. ~(ea >= SatU32(2 * stored.len)) /\ ~(ea >= stored.len)
        BY <3>2, <3>6, WidthAssumption DEF SatU32
      <4>2. wa = stored /\ wb = stored
        BY <2>2, <3>6, <4>1 DEF WindowNow, StoredWindow
      <4>3. Carry(wb, b) <= Carry(wb, a)
        BY <1>1, CarryFades
      <4> QED
        BY <1>3, <4>2, <4>3 DEF I128
    <3> QED
      BY <3>3, <3>4, <3>5, <3>6
  <2> QED
    BY <2>1, <2>2
<1> HIDE DEF wa, wb
<1>5. MaxI128 \in Nat
  BY WidthAssumption
<1> QED
  BY <1>2, <1>3, <1>4, <1>5 DEF SatI128, I128, wa

------------------------------------------------------------------------------
(* No policy in force has a negative cap: check_admin refuses it, whether it  *)
(* is proposed or applied, and nothing else writes a policy.                  *)
PolicyChecked ==
    instance.policy.maxPerTx >= 0 /\ instance.policy.spendingCap >= 0

LEMMA PolicyStaysChecked ==
    ASSUME StateOK, PolicyChecked, [Next]_vars
    PROVE  PolicyChecked'
<1>1. ASSUME NEW a, ApplyAdmin(a) PROVE PolicyChecked'
  <2>1. CASE SetPolicy(a)
    BY <1>1, <2>1 DEF ApplyAdmin, CheckAdmin, SetPolicy, StateOK, Instance,
                      PolicyChecked
  <2>2. CASE ~SetPolicy(a)
    <3>1. instance'.policy = instance.policy
      BY <1>1, <2>2 DEF ApplyAdmin, SetThreshold, AddSigner, RemoveSigner,
                        AllowRecipient, RevokeRecipient, AllowContract,
                        RevokeContract, SetZkConfig, SetSignerCommitments,
                        TransferOwnership, Upgrade, Retire, StateOK, Instance
    <3> QED
      BY <3>1 DEF PolicyChecked
  <2> QED
    BY <2>1, <2>2
<1>2. ASSUME NEW tx, NEW p, Settle(tx, p) PROVE PolicyChecked'
  BY <1>1, <1>2 DEF Settle, SettleAdmin, SettleCall, SettlePayment, PolicyChecked
<1>3. ASSUME NEW who, NEW payload, NEW amount, NEW private,
             StoreProposal(who, payload, amount, private)
      PROVE  PolicyChecked'
  BY <1>3 DEF StoreProposal, PolicyChecked, StateOK, Instance
<1>4. CASE UNCHANGED instance
  BY <1>4 DEF PolicyChecked
<1>5. UNCHANGED instance \/ PolicyChecked'
  BY <1>2, <1>3
  DEF Next, vars, CloseLedger, Deposit, Propose, ProposeBatch, ProposeCall,
      ProposeAdmin, Approve, ApproveZk, ApproveZkAnon, RecordApproval,
      Execute, ApproveAndExecute, Cancel
<1> QED
  BY <1>4, <1>5

(* The form: a figure the vault gave for what was used is what the window had *)
(* used then, and no ledger after this one.                                   *)
FormInv ==
    /\ FormTypeOK
    /\ readAt # NoWindow =>
         /\ readAt.ledger <= ledger
         /\ page.spent = WindowUsed(readAt.window, <<>>, readAt.policy, readAt.ledger)
    /\ PolicyChecked

LEMMA NoGuardsTyped == NoPolicy \in Policy /\ 0 \in I128
BY WidthAssumption DEF NoPolicy, Policy, I128, U32

LEMMA FormsInitially == Init /\ FormInit => FormInv
<1> SUFFICES ASSUME Init, FormInit PROVE FormInv
  OBVIOUS
<1>1. TypeOK
  BY InitTypeOK
<1>2. PolicyChecked
  BY DEF Init, Constructor, NoPolicy, PolicyChecked
<1> QED
  BY <1>1, <1>2, NoGuardsTyped DEF FormInit, FormInv, FormTypeOK

(* The three reads.                                                           *)
LEMMA LoadsStep ==
    ASSUME FormInv, LoadPolicy \/ LoadAllowed \/ LoadSpent
    PROVE  FormInv'
<1>1. StateOK /\ TypeOK /\ PolicyChecked
  BY StateIsTyped DEF FormInv, FormTypeOK
<1>2. TypeOK' /\ PolicyChecked' /\ ledger' = ledger
  BY <1>1 DEF LoadPolicy, LoadAllowed, LoadSpent, vars, TypeOK, TxIds, PolicyChecked
<1>3. /\ window \in CapWindowRecord \cup {NoWindow} /\ ledger \in U32
      /\ instance.policy \in Policy /\ CapPolicy(instance.policy)
      /\ instance.allowed \in SUBSET Address
  BY <1>1, InstancePolicy DEF StateOK, Instance
<1>4. ledger <= ledger
  BY <1>3 DEF U32
<1>5. page \in [policy : Policy, allowed : SUBSET Address, spent : I128]
  BY DEF FormInv, FormTypeOK
<1>6. CASE LoadPolicy
  <2>1. PICK answer \in {instance.policy, NoPolicy} : page' = [page EXCEPT !.policy = answer]
    BY <1>6 DEF LoadPolicy
  <2>2. /\ page' \in [policy : Policy, allowed : SUBSET Address, spent : I128]
        /\ page'.spent = page.spent /\ readAt' = readAt
    BY <1>3, <1>5, <1>6, <2>1, NoGuardsTyped DEF LoadPolicy
  <2> QED
    BY <1>2, <2>2 DEF FormInv, FormTypeOK
<1>7. CASE LoadAllowed
  <2>1. PICK answer \in {instance.allowed, {}} : page' = [page EXCEPT !.allowed = answer]
    BY <1>7 DEF LoadAllowed
  <2>2. /\ page' \in [policy : Policy, allowed : SUBSET Address, spent : I128]
        /\ page'.spent = page.spent /\ readAt' = readAt
    BY <1>3, <1>5, <1>7, <2>1 DEF LoadAllowed
  <2> QED
    BY <1>2, <2>2 DEF FormInv, FormTypeOK
<1>8. CASE page' = [page EXCEPT !.spent = Used] /\ readAt' = Now
  <2>1. Used \in I128
    BY <1>3, <1>4, UsedFades DEF Used
  <2>2. /\ page' \in [policy : Policy, allowed : SUBSET Address, spent : I128]
        /\ page'.spent = Used
    BY <1>5, <1>8, <2>1
  <2>3. /\ Now \in [policy : Policy, window : CapWindowRecord \cup {NoWindow}, ledger : U32]
        /\ Used = WindowUsed(Now.window, <<>>, Now.policy, Now.ledger)
        /\ Now.ledger = ledger
    BY <1>3 DEF Now, Used
  <2> QED
    BY <1>2, <1>4, <1>8, <2>2, <2>3 DEF FormInv, FormTypeOK
<1>9. CASE page' = [page EXCEPT !.spent = 0] /\ readAt' = NoWindow
  <2>1. page' \in [policy : Policy, allowed : SUBSET Address, spent : I128]
    BY <1>5, <1>9, NoGuardsTyped
  <2> QED
    BY <1>2, <1>9, <2>1 DEF FormInv, FormTypeOK
<1> QED
  BY <1>6, <1>7, <1>8, <1>9 DEF LoadSpent

(* What the form submits is a proposal like any other.                        *)
LEMMA SubmitProposes ==
    ASSUME TypeOK, NEW f \in Forms, NEW private \in Modes, Submit(f, private)
    PROVE  TypeOK' /\ ledger' = ledger /\ instance'.policy = instance.policy
<1>1. Author \in Address /\ private \in BOOLEAN /\ StateOK
  BY FormAssumption, VaultAssumption, StateIsTyped
<1>2. CASE /\ f.kind = "single"
           /\ \E to \in DOMAIN f.pays : Propose(Author, to, f.pays[to], private)
  <2>1. PICK t \in Transfers : f.pays = Single(t.target, t.amount)
    BY <1>2 DEF Forms
  <2>2. Propose(Author, t.target, t.amount, private)
    BY <1>2, <2>1 DEF Single
  <2>3. StateOK' /\ NotePassed /\ ledger' = ledger
    BY <1>1, <2>2, ProposeKeepsState DEF Propose, StoreProposal
  <2>4. instance'.policy = instance.policy
    BY <1>1, <2>2 DEF Propose, StoreProposal, StateOK, Instance
  <2> QED
    BY <2>3, <2>4, NotePassedType
<1>3. CASE f.kind = "batch" /\ ProposeBatch(Author, f.pays, private)
  <2>1. f.pays \in Batches
    BY <1>3 DEF Forms
  <2>2. StateOK' /\ NotePassed /\ ledger' = ledger
    BY <1>1, <1>3, <2>1, ProposeKeepsState DEF ProposeBatch, StoreProposal
  <2>3. instance'.policy = instance.policy
    BY <1>1, <1>3 DEF ProposeBatch, StoreProposal, StateOK, Instance
  <2> QED
    BY <2>2, <2>3, NotePassedType
<1>4. CASE f.kind = "call" /\ ProposeCall(Author, f.call, private)
  <2>1. f.call \in Calls
    BY <1>4 DEF Forms
  <2>2. StateOK' /\ NotePassed /\ ledger' = ledger
    BY <1>1, <1>4, <2>1, ProposeKeepsState DEF ProposeCall, StoreProposal
  <2>3. instance'.policy = instance.policy
    BY <1>1, <1>4 DEF ProposeCall, StoreProposal, StateOK, Instance
  <2> QED
    BY <2>2, <2>3, NotePassedType
<1> QED
  BY <1>2, <1>3, <1>4 DEF Submit

LEMMA FormsStep ==
    ASSUME FormInv, [FormNext]_all
    PROVE  FormInv'
<1>1. TypeOK /\ StateOK /\ PolicyChecked
  BY StateIsTyped DEF FormInv, FormTypeOK
<1>2. ASSUME NEW f \in Forms, NEW private \in Modes, Submit(f, private)
      PROVE  FormInv'
  <2>1. page' = page /\ readAt' = readAt
    BY <1>2 DEF Submit, form
  <2>2. TypeOK' /\ ledger' = ledger /\ instance'.policy = instance.policy
    BY <1>1, <1>2, SubmitProposes
  <2> QED
    BY <1>1, <2>1, <2>2 DEF PolicyChecked, FormInv, FormTypeOK
<1>3. CASE LoadPolicy \/ LoadAllowed \/ LoadSpent
  BY <1>3, LoadsStep
<1>4. ASSUME [Next]_vars, UNCHANGED form PROVE FormInv'
  <2>1. TypeOK'
    BY <1>1, <1>4, NextKeepsTypes DEF OpenNext
  <2>2. ledger <= ledger' /\ ledger \in Nat /\ ledger' \in Nat
        /\ (readAt # NoWindow => readAt.ledger \in Nat)
    <3>1. ledger' = ledger \/ ledger' = ledger + 1
      BY <1>4 DEF Next, vars, CloseLedger, Deposit, Propose, ProposeBatch,
                  ProposeCall, ProposeAdmin, StoreProposal, Approve, ApproveZk,
                  ApproveZkAnon, RecordApproval, Execute, ApproveAndExecute, Cancel
    <3> QED
      BY <1>1, <2>1, <3>1 DEF TypeOK, U32, FormInv, FormTypeOK
  <2>3. PolicyChecked'
    BY <1>1, <1>4, PolicyStaysChecked
  <2> QED
    BY <1>4, <2>1, <2>2, <2>3 DEF form, FormInv, FormTypeOK
<1> QED
  BY <1>2, <1>3, <1>4 DEF FormNext, Elsewhere, all

LEMMA WarningsAreRight == FormInv => WarnsAsTheVault
<1> SUFFICES ASSUME FormInv, PolicyHolds, NEW f \in Forms, f.kind # "call"
             PROVE  /\ OverLimit(f) <=> ~CheckLimit(SumFunction(f.pays))
                    /\ AllowedHolds =>
                          (OffList(f) <=> \E to \in DOMAIN f.pays : ~CheckRecipient(to))
                    /\ SpentHolds =>
                          /\ ~Chargeable(f.pays) => OverCap(f)
                          /\ readAt.ledger = ledger /\ OverCap(f) => ~Chargeable(f.pays)
  BY DEF WarnsAsTheVault
<1> DEFINE policy == instance.policy
           total  == SumFunction(f.pays)
           used   == WindowUsed(window, <<>>, policy, ledger)
           spent  == WindowNow(window, <<>>, policy, ledger).spent
<1>1. f.pays \in Payment
  BY DEF Forms, Payment
<1>2. total \in Int
  <2>1. /\ DOMAIN f.pays \subseteq Address
        /\ f.pays \in [DOMAIN f.pays -> (-MaxI128)..MaxI128]
    <3>1. CASE f.pays \in Batches
      BY <3>1, VaultAssumption
    <3>2. CASE \E t \in Transfers : f.pays = Single(t.target, t.amount)
      BY <3>2, VaultAssumption DEF Single
    <3> QED
      BY <1>1, <3>1, <3>2 DEF Payment
  <2>2. IsFiniteSet(DOMAIN f.pays)
    BY <2>1, VaultAssumption, FS_Subset
  <2>3. f.pays \in [DOMAIN f.pays -> Int]
    BY <2>1, WidthAssumption
  <2> QED
    BY <2>2, <2>3, SumIsInteger
<1>3. /\ StateOK /\ CapPolicy(policy) /\ policy \in Policy
      /\ window \in CapWindowRecord \cup {NoWindow}
      /\ ledger \in U32 /\ page.policy = policy /\ page.spent \in I128
  BY StateIsTyped, InstancePolicy
  DEF FormInv, FormTypeOK, PolicyHolds, StateOK, Instance
<1>4. /\ policy.spendingCap \in I128 /\ policy.maxPerTx \in I128 /\ MaxI128 \in Nat
  BY <1>3, WidthAssumption DEF Policy, FormInv, PolicyChecked, I128
<1>5. /\ Chargeable(f.pays) <=>
            \/ policy.spendingCap = 0
            \/ /\ used + total <= MaxI128 /\ used + total <= policy.spendingCap
               /\ spent + total <= MaxI128
      /\ CheckLimit(total) <=> (policy.maxPerTx > 0 => total <= policy.maxPerTx)
      /\ (\A to \in DOMAIN f.pays : CheckRecipient(to)) <=>
            (policy.allowlistOnly => DOMAIN f.pays \subseteq instance.allowed)
  BY DEF Chargeable, CanCharge, CheckLimit, CheckRecipient
<1>6. /\ OverLimit(f) <=> policy.maxPerTx > 0 /\ total > policy.maxPerTx
      /\ OverCap(f) <=>
            policy.spendingCap > 0 /\ total > policy.spendingCap - page.spent
      /\ OffList(f) <=>
            policy.allowlistOnly /\ ~(DOMAIN f.pays \subseteq page.allowed)
  BY <1>3 DEF OverLimit, OverCap, OffList, Total
<1>7. ASSUME SpentHolds
      PROVE  /\ used \in I128 /\ spent \in 0..used /\ used <= page.spent
             /\ readAt.ledger = ledger => page.spent = used
  <2>1. /\ readAt.ledger \in U32 /\ readAt.ledger <= ledger
        /\ page.spent = WindowUsed(window, <<>>, policy, readAt.ledger)
    BY <1>7 DEF SpentHolds, FormInv, FormTypeOK
  <2>2. ledger <= ledger
    BY <1>3 DEF U32
  <2> QED
    BY <1>3, <2>1, <2>2, UsedFades
<1>8. OverLimit(f) <=> ~CheckLimit(total)
  <2> HIDE DEF total, policy
  <2> QED
    BY <1>2, <1>4, <1>5, <1>6 DEF I128
<1>9. AllowedHolds => (OffList(f) <=> ~(\A to \in DOMAIN f.pays : CheckRecipient(to)))
  BY <1>5, <1>6 DEF AllowedHolds
<1>10. ASSUME SpentHolds PROVE ~Chargeable(f.pays) => OverCap(f)
  <2> HIDE DEF total, used, spent, policy
  <2> QED
    BY <1>2, <1>3, <1>4, <1>5, <1>6, <1>7, <1>10 DEF I128
<1>11. ASSUME SpentHolds, readAt.ledger = ledger, OverCap(f) PROVE ~Chargeable(f.pays)
  <2> HIDE DEF total, used, spent, policy
  <2> QED
    BY <1>2, <1>3, <1>4, <1>5, <1>6, <1>7, <1>11 DEF I128
<1> QED
  BY <1>8, <1>9, <1>10, <1>11

(* Whichever of its reads failed and however old they are, every warning of   *)
(* the form whose own reads still hold is right, for any policy, window, batch*)
(* and ledger; and when only time has gone by since the window was read, it   *)
(* warns too much rather than too little (guardWarnings, check_limit,         *)
(* check_recipient, charge_window).                                           *)
THEOREM FormsWarnInTime == FormSpec => []WarnsAsTheVault
<1>1. Init /\ FormInit => FormInv
  BY FormsInitially
<1>2. FormInv /\ [FormNext]_all => FormInv'
  BY FormsStep
<1>3. FormInv => WarnsAsTheVault
  BY WarningsAreRight
<1> QED
  BY <1>1, <1>2, <1>3, PTL DEF FormSpec

------------------------------------------------------------------------------
(* The budget of the whole vault.  Its cap is the counter of SpendingCap: of  *)
(* the policy the counter reads two fields, and without a cap not even the    *)
(* length, for which the running one then stands.                             *)
NoCap    == [spendingCap |-> 0, capWindow |-> CapLength]
CapOf(p) == IF p.spendingCap > 0
            THEN [spendingCap |-> p.spendingCap, capWindow |-> p.capWindow]
            ELSE NoCap
Caps == {NoCap} \cup
        {CapOf(a.policy) : a \in {b \in AdminActions : /\ b.type = "SetPolicy"
                                                      /\ b.policy.spendingCap >= 0}}

(* A vault made by this version, whose first ledger is 0.                     *)
Counter == INSTANCE SpendingCapProofs WITH
    policy <- CapOf(instance.policy), legacy <- <<>>, paidBy <- charged,
    Policies <- Caps, Amounts <- I128 \ {0}, Legacies <- {<<>>},
    FirstLedger <- 0

(* All caps that may be proposed have one window length, and the products of  *)
(* charge_window fit (Steady of the counter).                                 *)
SteadyCaps ==
    /\ OneLength
    /\ 2 * CapLength <= MaxU32
    /\ \A a \in AdminActions :
            a.type = "SetPolicy" => a.policy.spendingCap * CapLength <= MaxI128

LEMMA CapLengthIsOne ==
    ASSUME OneLength
    PROVE  /\ CapLength \in 1..MaxU32
           /\ \A len \in Lengths : len = CapLength
<1>1. ASSUME NEW a \in AdminActions, a.type = "SetPolicy"
      PROVE  WindowLen(a.policy) \in 1..MaxU32
  <2>1. a \in AdminAction
    BY VaultAssumption
  <2>2. a.policy \in Policy
    BY <1>1, <2>1 DEF AdminAction
  <2> QED
    BY <2>2, WidthAssumption DEF Policy, WindowLen, U32
<1>2. Lengths \subseteq 1..MaxU32
  BY <1>1 DEF Lengths
<1>3. CASE Lengths = {}
  BY <1>3, WidthAssumption DEF CapLength
<1>4. CASE Lengths # {}
  <2>1. CapLength \in Lengths
    BY <1>4 DEF CapLength
  <2> QED
    BY <1>2, <2>1 DEF OneLength
<1> QED
  BY <1>3, <1>4

LEMMA CapsAreTyped ==
    ASSUME SteadyCaps, NEW cap \in Caps
    PROVE  /\ cap \in [spendingCap : I128, capWindow : U32]
           /\ WindowLen(cap) = CapLength
           /\ cap.spendingCap * CapLength <= MaxI128
<1>1. /\ CapLength \in 1..MaxU32 /\ \A len \in Lengths : len = CapLength
      /\ MaxI128 \in Nat /\ MaxU32 \in Nat
  BY CapLengthIsOne, WidthAssumption DEF SteadyCaps
<1>2. CASE cap = NoCap
  <2>1. /\ cap.spendingCap = 0 /\ cap.capWindow = CapLength
        /\ cap \in [spendingCap : I128, capWindow : U32]
    BY <1>1, <1>2 DEF NoCap, I128, U32
  <2> QED
    BY <1>1, <2>1 DEF WindowLen
<1>3. ASSUME cap # NoCap
      PROVE  /\ cap \in [spendingCap : I128, capWindow : U32]
             /\ WindowLen(cap) = CapLength
             /\ cap.spendingCap * CapLength <= MaxI128
  <2>1. PICK a \in AdminActions : /\ a.type = "SetPolicy"
                                  /\ a.policy.spendingCap >= 0
                                  /\ cap = CapOf(a.policy)
    BY <1>3 DEF Caps
  <2>2. a.policy \in Policy
    <3>1. a \in AdminAction
      BY VaultAssumption
    <3> QED
      BY <2>1, <3>1 DEF AdminAction
  <2>3. /\ a.policy.spendingCap > 0
        /\ cap = [spendingCap |-> a.policy.spendingCap,
                  capWindow |-> a.policy.capWindow]
    BY <1>3, <2>1, <2>2 DEF CapOf
  <2>4. /\ cap.spendingCap = a.policy.spendingCap
        /\ cap.capWindow = a.policy.capWindow
        /\ cap \in [spendingCap : I128, capWindow : U32]
    BY <1>1, <2>2, <2>3 DEF Policy, I128
  <2>5. WindowLen(a.policy) = CapLength
    BY <1>1, <2>1, <2>3 DEF Lengths
  <2>6. WindowLen(cap) = CapLength
    BY <2>4, <2>5 DEF WindowLen
  <2>7. cap.spendingCap * CapLength <= MaxI128
    BY <2>1, <2>4 DEF SteadyCaps
  <2> QED
    BY <2>4, <2>6, <2>7
<1> QED
  BY <1>2, <1>3

(* What the counter assumes holds of the vault's.                             *)
LEMMA CapsFit ==
    ASSUME SteadyCaps
    PROVE  /\ Counter!WidthAssumption
           /\ Counter!CapAssumption
           /\ Counter!Steady(CapLength)
<1>1. Counter!WidthAssumption
  BY WidthAssumption DEF Counter!WidthAssumption, Counter!CapWindowRecord,
     Counter!U32, Counter!I128, CapWindowRecord, U32, I128
<1>2. Counter!CapAssumption
  <2>1. Caps \subseteq [spendingCap : Counter!I128, capWindow : Counter!U32]
    BY CapsAreTyped DEF Counter!I128, Counter!U32, I128, U32
  <2>2. I128 \ {0} \subseteq Counter!I128 \ {0}
    BY DEF Counter!I128, I128
  <2>3. 0 \in Nat /\ MaxLedger \in 0..MaxU32
    BY VaultAssumption, WidthAssumption
  <2> QED
    BY <2>1, <2>2, <2>3 DEF Counter!CapAssumption
<1>3. Counter!Steady(CapLength)
  <2>1. \A cap \in Caps : Counter!WindowLen(cap) = CapLength
    BY CapsAreTyped DEF Counter!WindowLen, WindowLen
  <2> QED
    BY <2>1, CapsAreTyped DEF Counter!Steady, SteadyCaps
<1> QED
  BY <1>1, <1>2, <1>3

(* The counter of the vault is the one studied: the policy enters only with   *)
(* its cap and its length.                                                    *)
LEMMA SameCounter ==
    ASSUME NEW policy, policy.spendingCap > 0, NEW stored, NEW now, NEW amount
    PROVE  LET cap == CapOf(policy)
           IN  /\ Counter!CanCharge(stored, <<>>, cap, now, amount)
                    <=> CanCharge(stored, <<>>, policy, now, amount)
               /\ Counter!Charged(stored, <<>>, cap, now, amount)
                    = Charged(stored, <<>>, policy, now, amount)
<1> DEFINE cap == CapOf(policy)
<1>1. cap.spendingCap = policy.spendingCap /\ cap.capWindow = policy.capWindow
  BY DEF CapOf
<1> HIDE DEF cap
<1>2. Counter!WindowLen(cap) = WindowLen(policy)
  BY <1>1 DEF Counter!WindowLen, WindowLen
<1>3. Counter!StoredWindow(stored, <<>>, cap, now) = StoredWindow(stored, <<>>, policy, now)
  BY <1>2 DEF Counter!StoredWindow, StoredWindow, Counter!LegacySpent, LegacySpent
<1>4. Counter!WindowNow(stored, <<>>, cap, now) = WindowNow(stored, <<>>, policy, now)
  BY <1>2, <1>3
  DEF Counter!WindowNow, WindowNow, Counter!SatU32, SatU32, Counter!SubU32, SubU32
<1>5. Counter!WindowUsed(stored, <<>>, cap, now) = WindowUsed(stored, <<>>, policy, now)
  BY <1>4
  DEF Counter!WindowUsed, WindowUsed, Counter!SatI128, SatI128, Counter!SubU32, SubU32,
      Counter!AtMost, AtMost
<1>6. Counter!CanCharge(stored, <<>>, cap, now, amount)
        <=> CanCharge(stored, <<>>, policy, now, amount)
  BY <1>1, <1>4, <1>5 DEF Counter!CanCharge, CanCharge
<1>7. Counter!Charged(stored, <<>>, cap, now, amount)
        = Charged(stored, <<>>, policy, now, amount)
  BY <1>1, <1>4 DEF Counter!Charged, Charged
<1> QED
  BY <1>6, <1>7 DEF cap

(* One transaction settles one proposal.                                      *)
LEMMA OnePays ==
    ASSUME StateOK, NEW tx \in TxIds, Settles(tx)
    PROVE  /\ proposal[tx].payload.kind = "payment"
                => ChargedNow = IF Capped THEN proposal[tx].amount ELSE 0
           /\ proposal[tx].payload.kind # "payment"
                => ChargedNow = LeavesNow
<1>1. PICK p \in Proposal : Settle(tx, p)
  BY SettlesAProposal
<1>2. \A t \in TxIds : t # tx => ~Pays(t)
  BY <1>1, SettledProposals DEF Pays, JustExecuted
<1>3. Pays(tx) <=> proposal[tx].payload.kind = "payment"
  BY SettlesWhatIsOpen DEF Pays
<1>4. CASE Pays(tx)
  <2>1. (CHOOSE t \in TxIds : Pays(t)) = tx
    BY <1>2, <1>4
  <2> QED
    BY <1>3, <1>4, <2>1 DEF ChargedNow
<1>5. CASE ~Pays(tx)
  BY <1>2, <1>3, <1>5 DEF ChargedNow, LeavesNow
<1> QED
  BY <1>4, <1>5

(* What is charged is charged in full; without a charge the window stays.     *)
Charges ==
    \/ ChargedNow = 0 /\ UNCHANGED window
    \/ /\ Capped
       /\ ChargedNow \in I128 \ {0}
       /\ ChargeWindow(ChargedNow)
       /\ UNCHANGED instance

LEMMA ChargeFits ==
    ASSUME StateOK, Capped, NEW amount \in Nat, ChargeWindow(amount)
    PROVE  amount \in I128
<1> DEFINE w == WindowNow(window, <<>>, instance.policy, ledger)
<1>1. w \in CapWindowRecord
  BY InstancePolicy, NoLegacySpending, WindowNowType DEF StateOK
<1>2. w.spent \in Nat /\ w.spent + amount <= MaxI128
  BY <1>1, WidthAssumption DEF ChargeWindow, CanCharge, Capped, CapWindowRecord, I128
<1> HIDE DEF w
<1> QED
  BY <1>2, WidthAssumption DEF I128

LEMMA UncappedCharge ==
    ASSUME LengthsOK, NEW amount, ChargeWindow(amount), ~Capped, StateOK
    PROVE  UNCHANGED window
<1>1. instance.policy.spendingCap = 0
  BY InstancePolicy DEF LengthsOK, Capped, CapPolicy
<1> QED
  BY <1>1 DEF ChargeWindow, Charged

LEMMA SettlingCharges ==
    ASSUME StateOK, PayloadsOK, LengthsOK, NEW tx \in TxIds, Settles(tx)
    PROVE  Charges /\ LeavesNow \in Nat /\ LeavesNow <= ChargedNow /\ ChargedNow \in Nat
<1>1. balance \in [Address -> Int] /\ Vault \in Address
  BY VaultAssumption DEF StateOK
<1>2. PICK p \in Proposal : /\ Settle(tx, p)
                            /\ p.payload = proposal[tx].payload
                            /\ p.amount = proposal[tx].amount
  BY SettlesAProposal
<1>3. CASE SettleAdmin(p)
  <2>1. Outflow = 0 /\ UNCHANGED window
    BY <1>1, <1>3 DEF SettleAdmin, Outflow
  <2>2. LeavesNow = 0
    BY <2>1 DEF LeavesNow, TookOut
  <2>3. ChargedNow = 0
    BY <1>2, <1>3, <2>2, OnePays DEF SettleAdmin
  <2> QED
    BY <2>1, <2>2, <2>3 DEF Charges
<1>4. CASE SettleCall(p)
  <2>1. PICK to \in Address \ {Vault}, moved \in CallFlows :
            /\ balance' = [balance EXCEPT ![Vault] = @ - moved, ![to] = @ + moved]
            /\ IF moved > 0 THEN ChargeWindow(moved) ELSE UNCHANGED window
    BY <1>4 DEF SettleCall
  <2>2. moved \in Int /\ UNCHANGED instance
    BY <1>4, VaultAssumption DEF SettleCall
  <2>3. Outflow = moved
    BY <1>1, <2>1, <2>2 DEF Outflow
  <2>4. ChargedNow = LeavesNow
    BY <1>2, <1>4, OnePays DEF SettleCall
  <2>5. LeavesNow = IF Capped /\ moved > 0 THEN moved ELSE 0
    BY <2>3 DEF LeavesNow, TookOut
  <2>6. LeavesNow \in Nat
    BY <2>2, <2>5
  <2>7. CASE Capped /\ moved > 0
    BY <2>1, <2>2, <2>4, <2>5, <2>6, <2>7, ChargeFits DEF Charges
  <2>8. CASE ~(Capped /\ moved > 0)
    BY <2>1, <2>4, <2>5, <2>8, UncappedCharge DEF Charges
  <2> QED
    BY <2>4, <2>6, <2>7, <2>8
<1>5. CASE SettlePayment(p)
  <2>1. /\ p.payload.pays \in Payment /\ p.amount \in Nat /\ p.amount > 0
        /\ \A to \in DOMAIN p.payload.pays : p.payload.pays[to] > 0
        /\ ChargeWindow(p.amount) /\ UNCHANGED instance
    BY <1>2, <1>5 DEF SettlePayment, Proposal, Payload, I128, PayloadsOK, PayloadOK
  <2> DEFINE back == IF Vault \in DOMAIN p.payload.pays
                     THEN p.payload.pays[Vault] ELSE 0
  <2>2. back \in Int /\ back >= 0
    BY <2>1, PaymentType
  <2>3. Outflow = p.amount - back
    <3>1. balance'[Vault] = balance[Vault] + back - p.amount
      BY <1>1, <1>5 DEF SettlePayment
    <3> HIDE DEF back
    <3> QED
      BY <1>1, <2>1, <2>2, <3>1 DEF Outflow
  <2> HIDE DEF back
  <2>4. TookOut \in Nat /\ TookOut <= p.amount
    BY <2>1, <2>2, <2>3 DEF TookOut
  <2>5. ChargedNow = IF Capped THEN p.amount ELSE 0
    BY <1>2, <1>5, OnePays DEF SettlePayment
  <2>6. LeavesNow \in Nat /\ LeavesNow <= ChargedNow /\ ChargedNow \in Nat
    BY <2>1, <2>4, <2>5 DEF LeavesNow
  <2>7. CASE Capped
    BY <2>1, <2>5, <2>6, <2>7, ChargeFits DEF Charges
  <2>8. CASE ~Capped
    BY <2>1, <2>5, <2>6, <2>8, UncappedCharge DEF Charges
  <2> QED
    BY <2>6, <2>7, <2>8
<1> QED
  BY <1>2, <1>3, <1>4, <1>5 DEF Settle

LEMMA LedgerMoves ==
    ASSUME [Next]_vars
    PROVE  \/ UNCHANGED ledger
           \/ /\ ledger' = ledger + 1 /\ ledger < MaxLedger
              /\ UNCHANGED <<instance, proposal, window, balance>>
<1>1. ASSUME NEW proposer, NEW payload, NEW amount, NEW private
      PROVE  StoreProposal(proposer, payload, amount, private) => UNCHANGED ledger
  BY DEF StoreProposal
<1>2. ASSUME NEW proposer \in Proposers
      PROVE  /\ \A t \in Transfers, private \in Modes :
                    Propose(proposer, t.target, t.amount, private) => UNCHANGED ledger
             /\ \A pays \in Batches, private \in Modes :
                    ProposeBatch(proposer, pays, private) => UNCHANGED ledger
             /\ \A call \in Calls, private \in Modes :
                    ProposeCall(proposer, call, private) => UNCHANGED ledger
             /\ \A action \in AdminActions :
                    ProposeAdmin(proposer, action) => UNCHANGED ledger
  BY <1>1 DEF Propose, ProposeBatch, ProposeCall, ProposeAdmin
<1>3. ASSUME NEW tx \in TxIds, NEW signer \in Address
      PROVE  /\ Approve(tx, signer) => UNCHANGED ledger
             /\ ApproveAndExecute(tx, signer) => UNCHANGED ledger
             /\ \A zk \in Submissions : ApproveZk(tx, signer, zk) => UNCHANGED ledger
             /\ Cancel(tx, signer) => UNCHANGED ledger
  BY DEF Approve, ApproveAndExecute, ApproveZk, Cancel, RecordApproval
<1>4. ASSUME NEW tx \in TxIds
      PROVE  /\ Execute(tx) => UNCHANGED ledger
             /\ \A zk \in Submissions : ApproveZkAnon(tx, zk) => UNCHANGED ledger
  BY DEF Execute, ApproveZkAnon, RecordApproval
<1>5. \A from, amount : Deposit(from, amount) => UNCHANGED ledger
  BY DEF Deposit
<1>6. UNCHANGED vars => UNCHANGED ledger
  BY DEF vars
<1>7. CloseLedger => /\ ledger' = ledger + 1 /\ ledger < MaxLedger
                     /\ UNCHANGED <<instance, proposal, window, balance>>
  BY DEF CloseLedger
<1> QED
  BY <1>2, <1>3, <1>4, <1>5, <1>6, <1>7 DEF Next

(* Only an executed SetPolicy writes the policy, and not a negative cap.      *)
LEMMA PolicyMoves ==
    ASSUME StateOK, PayloadsOK, NEW tx \in TxIds, Settles(tx), StateOK'
    PROVE  \/ instance'.policy = instance.policy
           \/ CapOf(instance'.policy) \in Caps /\ ChargedNow = 0 /\ UNCHANGED window
<1>1. PICK p \in Proposal : Settle(tx, p) /\ p.payload = proposal[tx].payload
  BY SettlesAProposal
<1>2. CASE SettleAdmin(p)
  <2>1. p.payload.action \in AdminActions /\ UNCHANGED <<window, balance>>
    BY <1>1, <1>2 DEF SettleAdmin, PayloadsOK, PayloadOK
  <2>2. \/ instance'.policy = instance.policy
        \/ /\ p.payload.action.type = "SetPolicy"
           /\ instance'.policy = p.payload.action.policy
           /\ p.payload.action.policy.spendingCap >= 0
    BY <1>2 DEF SettleAdmin, ApplyAdmin, CheckAdmin, SetThreshold,
       AddSigner, RemoveSigner, SetPolicy, AllowRecipient,
       RevokeRecipient, AllowContract, RevokeContract, SetZkConfig, SetSignerCommitments,
       TransferOwnership, Upgrade, Retire, StateOK, Instance
  <2>3. ChargedNow = 0
    <3>1. balance[Vault] \in Int
      BY VaultAssumption DEF StateOK
    <3>2. LeavesNow = 0
      BY <2>1, <3>1 DEF LeavesNow, TookOut, Outflow
    <3> QED
      BY <1>1, <1>2, <3>2, OnePays DEF SettleAdmin
  <2>4. ASSUME NEW a \in AdminActions, a.type = "SetPolicy", a.policy.spendingCap >= 0
        PROVE  CapOf(a.policy) \in Caps
    BY <2>4 DEF Caps
  <2> QED
    BY <2>1, <2>2, <2>3, <2>4
<1>3. CASE SettleCall(p) \/ SettlePayment(p)
  BY <1>3 DEF SettleCall, SettlePayment
<1> QED
  BY <1>1, <1>2, <1>3 DEF Settle

(* Without a settlement nothing is charged.                                   *)
LEMMA NothingCharged ==
    ASSUME StateOK, StateOK', [OpenNext]_vars, \A tx \in TxIds : ~Settles(tx)
    PROVE  /\ ChargedNow = 0 /\ LeavesNow = 0
           /\ UNCHANGED <<window, instance.policy>>
<1>1. Outflow <= 0 /\ UNCHANGED <<window, instance.policy>>
  BY OnlySettlingPays
<1>2. \A tx \in TxIds : ~Pays(tx)
  BY OnlySettlingExecutes DEF Pays
<1>3. Outflow \in Int
  BY VaultAssumption DEF StateOK, Outflow
<1> QED
  BY <1>1, <1>2, <1>3 DEF ChargedNow, LeavesNow, TookOut

(* A history of numbers to which a number is added in this ledger.            *)
LEMMA NothingNoted ==
    ASSUME NEW h \in [0..MaxLedger -> Nat]
    PROVE  Noted(h, 0) = h
<1>1. \A l \in 0..MaxLedger : h[l] + 0 = h[l]
  OBVIOUS
<1> QED
  BY <1>1 DEF Noted

(* Every step of the vault is one of the counter, or none of its business:    *)
(* it ticks, is charged, or is given another policy.                          *)
LEMMA StepCounts ==
    ASSUME StateOK, StateOK', PayloadsOK, LengthsOK, LengthsOK', SteadyCaps,
           Counter!CapInv(CapLength), [BudgetNext]_budget
    PROVE  [Counter!Next]_(Counter!vars)
<1>1. /\ ledger \in 0..MaxLedger /\ charged \in [0..MaxLedger -> Nat]
      /\ highest \in Nat /\ MaxI128 \in Nat
      /\ CapOf(instance.policy) \in Caps
      /\ CapOf(instance.policy).spendingCap <= highest
  BY WidthAssumption DEF Counter!CapInv, Counter!TypeOK, Counter!CapsOK, Counter!I128
<1>2. /\ instance.policy.spendingCap \in Nat /\ instance'.policy.spendingCap \in Nat
      /\ \A policy : policy.spendingCap \in Nat =>
                CapOf(policy).spendingCap = policy.spendingCap
  <2>1. instance.policy.spendingCap \in Int /\ instance'.policy.spendingCap \in Int
    BY DEF StateOK, Instance, Policy
  <2>2. \A policy : policy.spendingCap \in Nat =>
                CapOf(policy).spendingCap = policy.spendingCap
    BY DEF CapOf, NoCap
  <2> QED
    BY <2>1, <2>2 DEF LengthsOK
<1>3. instance'.policy = instance.policy /\ BudgetNext => highest' = highest
  BY <1>1, <1>2 DEF BudgetNext
<1>4. ChargedNow = 0 /\ BudgetNext => charged' = charged
  BY <1>1, NothingNoted DEF BudgetNext
<1>5. CASE UNCHANGED budget
  BY <1>5 DEF budget, vars, Counter!vars
<1>6. ASSUME BudgetNext, \A tx \in TxIds : ~Settles(tx)
      PROVE  [Counter!Next]_(Counter!vars)
  <2>1. Next /\ [Next]_vars /\ [OpenNext]_vars
    BY <1>6 DEF BudgetNext, OpenNext
  <2>2. UNCHANGED <<window, instance.policy, charged, highest>>
    BY <1>3, <1>4, <1>6, <2>1, NothingCharged
  <2>3. CapOf(instance'.policy) = CapOf(instance.policy)
    BY <2>2
  <2>4. CASE UNCHANGED ledger
    BY <2>2, <2>3, <2>4 DEF Counter!vars
  <2>5. CASE ledger' = ledger + 1 /\ ledger < MaxLedger
    BY <2>2, <2>3, <2>5 DEF Counter!Next, Counter!Tick
  <2> QED
    BY <2>1, <2>4, <2>5, LedgerMoves
<1>7. ASSUME BudgetNext, NEW tx \in TxIds, Settles(tx)
      PROVE  [Counter!Next]_(Counter!vars)
  <2>1. UNCHANGED ledger
    BY <1>7, SettlesAProposal
  <2>2. CASE ChargedNow = 0 /\ UNCHANGED window /\ instance'.policy = instance.policy
    <3>1. UNCHANGED <<charged, highest>>
      BY <1>3, <1>4, <1>7, <2>2
    <3>2. CapOf(instance'.policy) = CapOf(instance.policy)
      BY <2>2
    <3> QED
      BY <2>1, <2>2, <3>1, <3>2 DEF Counter!vars
  <2>3. CASE ChargedNow = 0 /\ UNCHANGED window /\ CapOf(instance'.policy) \in Caps
    <3>1. charged' = charged
      BY <1>4, <1>7, <2>3
    <3>2. highest' = IF CapOf(instance'.policy).spendingCap > highest
                     THEN CapOf(instance'.policy).spendingCap ELSE highest
      BY <1>2, <1>7 DEF BudgetNext
    <3>3. Counter!SetPolicy(CapOf(instance'.policy))
      BY <2>1, <2>3, <3>1, <3>2 DEF Counter!SetPolicy
    <3> QED
      BY <2>3, <3>3 DEF Counter!Next
  <2>4. CASE /\ Capped /\ ChargedNow \in I128 \ {0}
             /\ ChargeWindow(ChargedNow) /\ UNCHANGED instance
    <3> DEFINE amount == ChargedNow
               cap    == CapOf(instance.policy)
    <3>1. /\ Counter!CanCharge(window, <<>>, cap, ledger, amount)
          /\ window' = Counter!Charged(window, <<>>, cap, ledger, amount)
      BY <2>4, SameCounter DEF ChargeWindow, Capped
    <3>2. cap.spendingCap # 0
      BY <1>2, <2>4 DEF Capped
    <3>3. charged' = [l \in 0..MaxLedger |->
                IF l < ledger THEN charged[l] ELSE charged[l] + amount]
      BY <1>7 DEF BudgetNext, Noted
    <3>4. UNCHANGED <<ledger, cap, highest>>
      BY <1>3, <1>7, <2>1, <2>4
    <3> HIDE DEF amount, cap
    <3>5. Counter!Charge(amount)
      BY <3>1, <3>2, <3>3, <3>4 DEF Counter!Charge, cap
    <3>6. amount \in I128 \ {0}
      BY <2>4 DEF amount
    <3> QED
      BY <3>5, <3>6 DEF Counter!Next
  <2> QED
    BY <1>7, <2>2, <2>3, <2>4, SettlingCharges, PolicyMoves DEF Charges
<1> QED
  BY <1>5, <1>6, <1>7

------------------------------------------------------------------------------
(* In any stretch of ledgers no more left than was charged.                   *)
LeftOK ==
    /\ left \in [0..MaxLedger -> Nat]
    /\ \A first, last \in 0..MaxLedger : first <= last =>
            Stretch(left, first, last) <= Stretch(charged, first, last)

BudgetOK == Counter!CapInv(CapLength) /\ Counter!FadeBound /\ LeftOK

LEMMA NotedStretch ==
    ASSUME NEW h \in [0..MaxLedger -> Nat], NEW n \in Nat, ledger \in Nat,
           NEW first \in 0..MaxLedger, NEW last \in 0..MaxLedger, first <= last
    PROVE  /\ Stretch(h, first, last) \in Int
           /\ Stretch(Noted(h, n), first, last)
                = Stretch(h, first, last) + (IF ledger \in first..last THEN n ELSE 0)
<1>1. /\ h[last] \in Nat /\ MaxLedger \in Nat
      /\ first # 0 => first - 1 \in 0..MaxLedger /\ h[first - 1] \in Nat
  BY VaultAssumption
<1>2. \A l \in 0..MaxLedger : Noted(h, n)[l] = IF l < ledger THEN h[l] ELSE h[l] + n
  BY DEF Noted
<1>3. CASE first = 0
  BY <1>1, <1>2, <1>3 DEF Stretch
<1>4. CASE first # 0
  BY <1>1, <1>2, <1>4 DEF Stretch
<1> QED
  BY <1>3, <1>4

LEMMA LeftStaysCovered ==
    ASSUME LeftOK, charged \in [0..MaxLedger -> Nat], ledger \in Nat, BudgetNext,
           LeavesNow \in Nat, ChargedNow \in Nat, LeavesNow <= ChargedNow
    PROVE  LeftOK'
<1>1. left' = Noted(left, LeavesNow) /\ charged' = Noted(charged, ChargedNow)
  BY DEF BudgetNext
<1>2. left' \in [0..MaxLedger -> Nat]
  BY <1>1 DEF LeftOK, Noted
<1>3. ASSUME NEW first \in 0..MaxLedger, NEW last \in 0..MaxLedger, first <= last
      PROVE  Stretch(left', first, last) <= Stretch(charged', first, last)
  <2>1. /\ Stretch(left, first, last) \in Int
        /\ Stretch(left', first, last) = Stretch(left, first, last)
                + (IF ledger \in first..last THEN LeavesNow ELSE 0)
    BY <1>1, <1>3, NotedStretch DEF LeftOK
  <2>2. /\ Stretch(charged, first, last) \in Int
        /\ Stretch(charged', first, last) = Stretch(charged, first, last)
                + (IF ledger \in first..last THEN ChargedNow ELSE 0)
    BY <1>1, <1>3, NotedStretch
  <2>3. Stretch(left, first, last) <= Stretch(charged, first, last)
    BY <1>3 DEF LeftOK
  <2> QED
    BY <2>1, <2>2, <2>3
<1>4. \A first, last \in 0..MaxLedger : first <= last =>
            Stretch(left', first, last) <= Stretch(charged', first, last)
  BY <1>3
<1> QED
  BY <1>2, <1>4 DEF LeftOK, Stretch

LEMMA StepKeepsBudget ==
    ASSUME StateOK, StateOK', PayloadsOK, LengthsOK, LengthsOK', SteadyCaps,
           BudgetOK, [BudgetNext]_budget
    PROVE  BudgetOK'
<1>1. Counter!CapInv(CapLength) /\ Counter!FadeBound
  BY DEF BudgetOK
<1>2. Counter!WidthAssumption /\ Counter!CapAssumption /\ Counter!Steady(CapLength)
  BY CapsFit
<1>3. [Counter!Next]_(Counter!vars)
  BY <1>1, StepCounts
<1>4. Counter!CapInv(CapLength)' /\ Counter!FadeBound'
  BY <1>1, <1>2, <1>3, Counter!StepKeepsCap
<1>5. LeftOK'
  <2>1. charged \in [0..MaxLedger -> Nat] /\ ledger \in Nat
    BY <1>1 DEF Counter!CapInv, Counter!TypeOK
  <2>2. CASE UNCHANGED budget
    BY <2>2 DEF budget, BudgetOK, LeftOK, Stretch
  <2>3. CASE BudgetNext
    <3>1. /\ LeavesNow \in Nat /\ ChargedNow \in Nat
          /\ LeavesNow <= ChargedNow
      BY <2>3, NothingCharged, SettlingCharges DEF BudgetNext, OpenNext
    <3> QED
      BY <2>1, <2>3, <3>1, LeftStaysCovered DEF BudgetOK
  <2> QED
    BY <2>2, <2>3
<1> QED
  BY <1>4, <1>5 DEF BudgetOK

LEMMA BudgetBegins ==
    ASSUME SteadyCaps, BudgetInit
    PROVE  BudgetOK /\ Counter!Init
<1>1. /\ ledger = 0 /\ instance.policy = NoPolicy /\ window = NoWindow
      /\ highest = 0
  BY DEF BudgetInit, Init, Constructor, NoPolicy
<1>2. /\ charged = [l \in 0..MaxLedger |-> 0]
      /\ left = [l \in 0..MaxLedger |-> 0]
  BY DEF BudgetInit
<1>3. CapOf(instance.policy) = NoCap /\ NoCap \in Caps /\ NoCap.spendingCap = 0
  BY <1>1 DEF CapOf, NoCap, NoPolicy, Caps
<1>4. charged = [l \in 0..MaxLedger |->
                    IF 0 \in 1..l + 1
                    THEN Counter!LegacySpent(<<>>, (0 - 1) \div Counter!WindowLen(NoCap))
                    ELSE 0]
  BY <1>2
<1>5. Counter!Init
  BY <1>1, <1>3, <1>4 DEF Counter!Init
<1>6. Counter!WidthAssumption /\ Counter!CapAssumption /\ Counter!Steady(CapLength)
  BY CapsFit
<1>7. Counter!CapInv(CapLength) /\ Counter!FadeBound
  BY <1>5, <1>6, Counter!InitCap
<1>8. LeftOK
  <2>1. left = charged /\ left \in [0..MaxLedger -> Nat] /\ ledger \in Nat
    BY <1>1, <1>2
  <2>2. \A first, last \in 0..MaxLedger :
            first <= last => Stretch(left, first, last) \in Int
    BY <2>1, NotedStretch
  <2> QED
    BY <2>1, <2>2 DEF LeftOK
<1> QED
  BY <1>5, <1>7, <1>8 DEF BudgetOK

LEMMA BudgetIsOfTheVault == BudgetSpec => Spec
<1>1. BudgetInit => Init
  BY DEF BudgetInit
<1>2. [BudgetNext]_budget => [Next]_vars
  BY DEF BudgetNext, budget
<1> QED
  BY <1>1, <1>2, PTL DEF BudgetSpec, Spec

LEMMA BudgetStates ==
    ASSUME SteadyCaps
    PROVE  BudgetSpec => [](StateOK /\ PayloadsOK /\ LengthsOK /\ BudgetOK)
<1>1. BudgetSpec => [](StateOK /\ PayloadsOK /\ LengthsOK)
  <2>1. TypeOK => StateOK
    BY DEF TypeOK, StateOK
  <2> QED
    BY <2>1, BudgetIsOfTheVault, SpecIsOpen, PaidStates, LengthStates, PTL
<1>2. BudgetInit => BudgetOK
  BY BudgetBegins
<1>3. /\ StateOK /\ PayloadsOK /\ LengthsOK /\ StateOK' /\ LengthsOK'
      /\ BudgetOK /\ [BudgetNext]_budget
      => BudgetOK'
  BY StepKeepsBudget
<1> QED
  BY <1>1, <1>2, <1>3, PTL DEF BudgetSpec

(* Whatever is proposed, approved and settled, by whomever and in whatever    *)
(* order: what it does to the cap is the behaviour of the counter.            *)
THEOREM VaultKeepsTheCounter == SteadyCaps => (BudgetSpec => Counter!Spec)
<1> SUFFICES ASSUME SteadyCaps PROVE BudgetSpec => Counter!Spec
  OBVIOUS
<1>1. BudgetInit => Counter!Init
  BY BudgetBegins
<1>2. /\ StateOK /\ PayloadsOK /\ LengthsOK /\ StateOK' /\ LengthsOK'
      /\ BudgetOK /\ [BudgetNext]_budget
      => [Counter!Next]_(Counter!vars)
  BY StepCounts DEF BudgetOK
<1> QED
  BY <1>1, <1>2, BudgetStates, PTL DEF BudgetSpec, Counter!Spec

(* What the whole vault is charged in any stretch of ledgers within one       *)
(* window length is bounded by the cap and the fade (charge_window in run).   *)
THEOREM ChargesFade == SteadyCaps => (BudgetSpec => []Counter!FadeBound)
<1> SUFFICES ASSUME SteadyCaps PROVE BudgetSpec => []Counter!FadeBound
  OBVIOUS
<1>1. BudgetOK => Counter!FadeBound
  BY DEF BudgetOK
<1> QED
  BY <1>1, BudgetStates, PTL

(* What left is covered by what was charged, stretch by stretch.              *)
LEMMA BudgetCovers ==
    ASSUME SteadyCaps, BudgetOK
    PROVE  LeavesWithinBudget
<1> SUFFICES ASSUME NEW first \in 0..ledger, NEW last \in first..ledger,
                    last - first < CapLength
             PROVE  Stretch(left, first, last) * CapLength
                        <= highest * (CapLength + last - first) + CapLength - 1
  BY DEF LeavesWithinBudget
<1>1. /\ ledger \in 0..MaxLedger /\ MaxLedger \in Nat /\ highest \in Nat
      /\ charged \in [0..MaxLedger -> Nat] /\ left \in [0..MaxLedger -> Nat]
      /\ CapOf(instance.policy) \in Caps /\ CapLength \in Nat
  <2>1. CapLength \in Nat /\ MaxLedger \in Nat /\ MaxI128 \in Nat
    BY WidthAssumption, VaultAssumption, CapLengthIsOne DEF SteadyCaps
  <2>2. Counter!TypeOK /\ LeftOK
    BY DEF BudgetOK, Counter!CapInv
  <2> QED
    BY <2>1, <2>2 DEF Counter!TypeOK, Counter!I128, LeftOK
<1>2. first \in 0..MaxLedger /\ last \in 0..MaxLedger /\ first <= last
  BY <1>1
<1>3. /\ Stretch(left, first, last) \in Int /\ Stretch(charged, first, last) \in Int
      /\ Stretch(left, first, last) <= Stretch(charged, first, last)
  <2>1. 0 \in Nat /\ ledger \in Nat
    BY <1>1
  <2>2. Stretch(left, first, last) \in Int /\ Stretch(charged, first, last) \in Int
    BY <1>1, <1>2, <2>1, NotedStretch
  <2> QED
    BY <1>2, <2>2 DEF BudgetOK, LeftOK
<1>4. Counter!WindowLen(CapOf(instance.policy)) = CapLength
  BY <1>1, CapsAreTyped DEF Counter!WindowLen, WindowLen
<1>5. Counter!Total(first, last) = Stretch(charged, first, last)
  BY <1>1, <1>2 DEF Counter!Total, Counter!Before, Stretch
<1>6. Stretch(charged, first, last) * CapLength
        <= highest * (CapLength + last - first) + CapLength - 1
  BY <1>4, <1>5 DEF BudgetOK, Counter!FadeBound
<1> DEFINE l == Stretch(left, first, last)
           c == Stretch(charged, first, last)
           d == c - l
<1>7. d \in Nat /\ l \in Int /\ c = l + d
  BY <1>3
<1> HIDE DEF l, c, d
<1>8. c * CapLength = l * CapLength + d * CapLength /\ d * CapLength \in Nat
      /\ l * CapLength \in Int
  BY <1>1, <1>7
<1>9. l * CapLength <= c * CapLength /\ c * CapLength \in Int
  BY <1>8
<1>10. highest * (CapLength + last - first) + CapLength - 1 \in Int
  BY <1>1, <1>2
<1> QED
  BY <1>6, <1>8, <1>9, <1>10 DEF l, c

(* And so is what leaves it: at no ledger is the budget refilled at once,     *)
(* neither by a roll nor by an executed SetPolicy that keeps the length.      *)
THEOREM BudgetIsNeverRefilled == SteadyCaps => (BudgetSpec => []LeavesWithinBudget)
<1> SUFFICES ASSUME SteadyCaps PROVE BudgetSpec => []LeavesWithinBudget
  OBVIOUS
<1>1. BudgetOK => LeavesWithinBudget
  BY BudgetCovers
<1> QED
  BY <1>1, BudgetStates, PTL

(* The entry under DataKey::Window is what the payments and calls executed in *)
(* its two windows add up to: no way to settle forgets to charge, and none    *)
(* charges twice.                                                             *)
THEOREM VaultKeepsItsBook ==
    SteadyCaps => (BudgetSpec => []Counter!BookMatchesHistory)
<1> SUFFICES ASSUME SteadyCaps PROVE BudgetSpec => []Counter!BookMatchesHistory
  OBVIOUS
<1>1. BudgetOK => Counter!BookMatchesHistory
  BY DEF BudgetOK, Counter!CapInv, Counter!WindowOK, Counter!Tells,
         Counter!BookMatchesHistory
<1> QED
  BY <1>1, BudgetStates, PTL
==============================================================================
