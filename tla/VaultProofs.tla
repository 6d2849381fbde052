----------------------------- MODULE VaultProofs -----------------------------
(* VaultInstance for every set of addresses, every input and every bound: its *)
(* type invariant, and the quorum behind everything it settles.               *)
EXTENDS VaultInstance, FiniteSetTheorems, TLAPS

------------------------------------------------------------------------------
(* The cap window: its operators stay within the types of the contract.       *)

(* The part of a policy the window reads.                                     *)
CapPolicy(policy) ==
    /\ policy.capWindow \in U32
    /\ policy.spendingCap \in Int

(* A length is never zero: 0 in the policy means the default.                 *)
LEMMA WindowLenType ==
    ASSUME NEW policy, CapPolicy(policy)
    PROVE  WindowLen(policy) \in U32 \ {0}
BY WidthAssumption DEF WindowLen, CapPolicy, U32

(* Rounding a ledger down to a multiple of the length does not exceed it.     *)
LEMMA BucketStart ==
    ASSUME NEW now \in Nat, NEW len \in Nat \ {0}
    PROVE  (now \div len) * len \in 0..now
BY SMT

(* window_now returns a well-formed window.                                   *)
LEMMA WindowNowType ==
    ASSUME NEW policy, CapPolicy(policy), NEW now \in U32, NEW legacy,
           \A b \in Nat : LegacySpent(legacy, b) \in I128,
           NEW stored \in CapWindowRecord \cup {NoWindow}
    PROVE  WindowNow(stored, legacy, policy, now) \in CapWindowRecord
<1> DEFINE w == StoredWindow(stored, legacy, policy, now)
           len == WindowLen(policy)
<1>1. len \in U32 \ {0}
  BY WindowLenType
<1>2. w \in CapWindowRecord
  <2>1. CASE stored # NoWindow
    BY <2>1 DEF StoredWindow
  <2>2. CASE stored = NoWindow
    <3>1. (now \div len) * len \in 0..now /\ now \div len \in Nat
      BY <1>1, BucketStart DEF U32
    <3>2. LegacySpent(legacy, now \div len) \in I128
      BY <3>1
    <3>3. (now \div len) * len \in U32 /\ 0 \in I128
      BY <3>1, WidthAssumption DEF U32, I128
    <3> QED
      BY <1>1, <2>2, <3>2, <3>3 DEF StoredWindow, CapWindowRecord
  <2> QED
    BY <2>1, <2>2
<1>3. /\ 0 \in I128
      /\ SatU32(w.opened + w.len) \in U32
      /\ w.spent \in I128
  BY <1>2, WidthAssumption DEF SatU32, U32, I128, CapWindowRecord
<1>4. CASE SubU32(now, w.opened) >= SatU32(2 * w.len)
  BY <1>1, <1>3, <1>4 DEF WindowNow, CapWindowRecord
<1>5. CASE /\ ~(SubU32(now, w.opened) >= SatU32(2 * w.len))
           /\ SubU32(now, w.opened) >= w.len
  BY <1>1, <1>3, <1>5 DEF WindowNow, CapWindowRecord
<1>6. CASE /\ ~(SubU32(now, w.opened) >= SatU32(2 * w.len))
           /\ ~(SubU32(now, w.opened) >= w.len)
  BY <1>2, <1>6 DEF WindowNow
<1> QED
  BY <1>4, <1>5, <1>6

(* charge_window stores a well-formed window, when it accepts.                *)
LEMMA ChargedType ==
    ASSUME NEW policy, CapPolicy(policy), NEW now \in U32, NEW legacy,
           \A b \in Nat : LegacySpent(legacy, b) \in I128,
           NEW stored \in CapWindowRecord \cup {NoWindow},
           NEW amount \in Nat,
           CanCharge(stored, legacy, policy, now, amount)
    PROVE  Charged(stored, legacy, policy, now, amount)
                \in CapWindowRecord \cup {NoWindow}
<1> DEFINE w == WindowNow(stored, legacy, policy, now)
<1>1. w \in CapWindowRecord
  BY WindowNowType
<1>2. CASE policy.spendingCap = 0
  BY <1>2 DEF Charged
<1>3. CASE policy.spendingCap # 0
  <2>1. w.spent + amount \in I128
    BY <1>1, <1>3, WidthAssumption DEF CanCharge, I128, CapWindowRecord
  <2>2. [w EXCEPT !.spent = @ + amount] \in CapWindowRecord
    BY <1>1, <2>1 DEF CapWindowRecord
  <2> QED
    BY <1>3, <2>2 DEF Charged
<1> QED
  BY <1>2, <1>3

(* What the window before still counts: a window charged for in one ledger    *)
(* carries the same amount along before and after.                            *)
Carry(w, now) ==
    IF w.prev = 0 \/ w.len = 0 THEN 0
    ELSE SatI128(w.prev * (w.len - AtMost(SubU32(now, w.opened), w.len)))
            \div w.len

LEMMA ProductIsNatural ==
    ASSUME NEW a \in Nat, NEW b \in Nat PROVE a * b \in Nat
OBVIOUS

LEMMA QuotientIsNatural ==
    ASSUME NEW a \in Nat, NEW b \in Nat \ {0} PROVE a \div b \in Nat
OBVIOUS

LEMMA CarryType ==
    ASSUME NEW w \in CapWindowRecord, NEW now \in U32
    PROVE  Carry(w, now) \in Nat
<1> DEFINE left == w.len - AtMost(SubU32(now, w.opened), w.len)
<1>1. /\ w.prev \in Nat /\ w.len \in Nat /\ w.opened \in Nat /\ now \in Nat
  BY DEF CapWindowRecord, U32, I128
<1>2. left \in Nat
  BY <1>1 DEF AtMost, SubU32
<1>3. SatI128(w.prev * left) \in Nat
  <2>1. w.prev * left \in Nat
    <3> HIDE DEF left
    <3> QED
      BY <1>1, <1>2, ProductIsNatural
  <2> QED
    BY <2>1, WidthAssumption DEF SatI128
<1>4. w.len # 0 => SatI128(w.prev * left) \div w.len \in Nat
  <2> HIDE DEF left
  <2> QED
    BY <1>1, <1>3, QuotientIsNatural
<1> QED
  BY <1>4 DEF Carry

LEMMA UsedIsSpentAndCarry ==
    ASSUME NEW policy, NEW now \in U32, NEW legacy, NEW stored,
           NEW w \in CapWindowRecord,
           WindowNow(stored, legacy, policy, now) = w
    PROVE  WindowUsed(stored, legacy, policy, now)
                = SatI128(w.spent + Carry(w, now))
<1>1. w.spent \in I128
  BY DEF CapWindowRecord
<1>2. CASE w.prev = 0 \/ w.len = 0
  <2>1. SatI128(w.spent + 0) = w.spent
    BY <1>1, WidthAssumption DEF SatI128, I128
  <2> QED
    BY <1>2, <2>1 DEF WindowUsed, Carry
<1>3. CASE ~(w.prev = 0 \/ w.len = 0)
  BY <1>3 DEF WindowUsed, Carry
<1> QED
  BY <1>2, <1>3

(* A window just read and written back is read as it was written, in the same *)
(* ledger and under the same policy, unless it is a window that rolled from a *)
(* length to a shorter one.                                                   *)
LEMMA ReadBack ==
    ASSUME NEW policy, CapPolicy(policy), NEW now \in U32, NEW legacy,
           \A b \in Nat : LegacySpent(legacy, b) \in I128,
           NEW stored \in CapWindowRecord \cup {NoWindow},
           stored # NoWindow => stored.len <= WindowLen(policy),
           NEW again \in CapWindowRecord,
           again.opened = WindowNow(stored, legacy, policy, now).opened,
           again.len = WindowNow(stored, legacy, policy, now).len
    PROVE  WindowNow(again, legacy, policy, now) = again
<1> DEFINE w == StoredWindow(stored, legacy, policy, now)
           len == WindowLen(policy)
           elapsed == SubU32(now, w.opened)
<1>1. len \in U32 \ {0}
  BY WindowLenType
<1>2. StoredWindow(again, legacy, policy, now) = again
  BY WidthAssumption DEF StoredWindow
<1>3. /\ w.opened \in U32 /\ w.len \in U32 /\ w.len <= len
      /\ stored = NoWindow => w.len = len /\ w.opened \in 0..now
  <2>1. CASE stored # NoWindow
    BY <2>1 DEF StoredWindow, CapWindowRecord
  <2>2. CASE stored = NoWindow
    <3> DEFINE start == (now \div len) * len
    <3>1. start \in 0..now
      BY <1>1, BucketStart DEF U32
    <3>2. w.opened = start /\ w.len = len
      BY <2>2 DEF StoredWindow
    <3> HIDE DEF w, len, start
    <3> QED
      BY <1>1, <3>1, <3>2, WidthAssumption DEF U32
  <2> QED
    BY <2>1, <2>2
<1>4. now \in Nat /\ now <= MaxU32 /\ MaxU32 \in Nat \ {0}
  BY WidthAssumption DEF U32
<1>5. SubU32(now, again.opened) < SatU32(2 * again.len)
      /\ SubU32(now, again.opened) < again.len
  <2>1. CASE elapsed >= SatU32(2 * w.len)
    <3>1. again.opened = now /\ again.len = len
      BY <2>1 DEF WindowNow
    <3> QED
      BY <1>1, <1>4, <3>1 DEF SubU32, SatU32, U32
  <2>2. CASE ~(elapsed >= SatU32(2 * w.len)) /\ elapsed >= w.len
    <3>1. again.opened = SatU32(w.opened + w.len) /\ again.len = len
      BY <2>2 DEF WindowNow
    <3>2. now - (w.opened + w.len) < w.len
      BY <1>3, <1>4, <2>2 DEF SubU32, SatU32, U32
    <3>3. SubU32(now, again.opened) < len
      BY <1>1, <1>3, <1>4, <3>1, <3>2 DEF SubU32, SatU32, U32
    <3> QED
      BY <1>1, <1>3, <1>4, <3>1, <3>3 DEF SubU32, SatU32, U32
  <2>3. CASE ~(elapsed >= SatU32(2 * w.len)) /\ ~(elapsed >= w.len)
    <3>1. again.opened = w.opened /\ again.len = w.len
      BY <2>3 DEF WindowNow
    <3> QED
      BY <1>3, <1>4, <2>3, <3>1 DEF SubU32, SatU32, U32
  <2> QED
    BY <2>1, <2>2, <2>3
<1>6. SubU32(now, again.opened) \in Int /\ SatU32(2 * again.len) \in Int
      /\ again.len \in Int
  BY <1>4 DEF CapWindowRecord, U32, SubU32, SatU32
<1> QED
  BY <1>2, <1>5, <1>6 DEF WindowNow

(* What charge_window accepts is booked in full and stays within the cap.     *)
LEMMA ChargeIsBooked ==
    ASSUME NEW policy, CapPolicy(policy), NEW now \in U32, NEW legacy,
           \A b \in Nat : LegacySpent(legacy, b) \in I128,
           NEW stored \in CapWindowRecord \cup {NoWindow},
           stored # NoWindow => stored.len <= WindowLen(policy),
           NEW amount \in Nat \ {0}, policy.spendingCap > 0,
           CanCharge(stored, legacy, policy, now, amount)
    PROVE  LET after == Charged(stored, legacy, policy, now, amount)
           IN  /\ WindowUsed(after, legacy, policy, now)
                    = WindowUsed(stored, legacy, policy, now) + amount
               /\ WindowUsed(after, legacy, policy, now) <= policy.spendingCap
<1> DEFINE w == WindowNow(stored, legacy, policy, now)
           after == Charged(stored, legacy, policy, now, amount)
           carry == Carry(w, now)
           used == WindowUsed(stored, legacy, policy, now)
<1>1. w \in CapWindowRecord
  BY WindowNowType
<1>2. /\ used + amount <= MaxI128
      /\ used + amount <= policy.spendingCap
      /\ w.spent + amount <= MaxI128
  BY DEF CanCharge, CapPolicy
<1>3. w.spent \in Nat /\ MaxI128 \in Nat
  BY <1>1, WidthAssumption DEF CapWindowRecord, I128
<1>4. after = [w EXCEPT !.spent = @ + amount]
  BY DEF Charged, CapPolicy
<1>5. /\ after \in CapWindowRecord
      /\ after.spent = w.spent + amount
      /\ after.opened = w.opened /\ after.len = w.len /\ after.prev = w.prev
  <2>1. w.spent + amount \in I128
    BY <1>2, <1>3 DEF I128
  <2> QED
    BY <1>1, <1>4, <2>1 DEF CapWindowRecord
<1>6. WindowNow(after, legacy, policy, now) = after
  BY <1>5, ReadBack
<1>7. carry \in Nat /\ Carry(after, now) = carry
  BY <1>1, <1>5, CarryType DEF Carry
<1>8. used = SatI128(w.spent + carry)
  BY <1>1, UsedIsSpentAndCarry
<1>9. WindowUsed(after, legacy, policy, now)
        = SatI128(w.spent + amount + carry)
  <2>1. WindowUsed(after, legacy, policy, now)
            = SatI128(after.spent + Carry(after, now))
    BY <1>5, <1>6, UsedIsSpentAndCarry
  <2> QED
    BY <1>5, <1>7, <2>1
<1>10. w.spent + carry + amount <= MaxI128 /\ used = w.spent + carry
  <2> HIDE DEF used, carry, w
  <2> QED
    BY <1>2, <1>3, <1>7, <1>8 DEF SatI128
<1>11. SatI128(w.spent + amount + carry) = used + amount
  <2> HIDE DEF used, carry, w
  <2> QED
    BY <1>3, <1>7, <1>10 DEF SatI128
<1> QED
  BY <1>2, <1>9, <1>11

------------------------------------------------------------------------------
(* The variables other than the history of passing, which NotePassed fixes.   *)
StateOK ==
    /\ ledger \in U32
    /\ instance \in Instance
    /\ proposal \in [TxIds -> Proposal]
    /\ approval \subseteq TxIds \X Address
    /\ nullifier \subseteq Nullifier
    /\ cancelled \subseteq TxIds
    /\ lastApproval \in [TxIds -> U32 \cup {Absent}]
    /\ window \in CapWindowRecord \cup {NoWindow}
    /\ balance \in [Address -> Int]
    /\ voters \in [TxIds -> SUBSET (Address \cup Commitment)]

LEMMA StateIsTyped == TypeOK => StateOK
BY DEF TypeOK, StateOK

(* A vault of this version has booked nothing under the old keys.             *)
LEMMA NoLegacySpending == \A b \in Nat : LegacySpent(<<>>, b) \in I128
<1>1. \A b \in Nat : b \notin DOMAIN <<>>
  OBVIOUS
<1> QED
  BY <1>1, WidthAssumption DEF LegacySpent, I128

LEMMA InstancePolicy == ASSUME StateOK PROVE CapPolicy(instance.policy)
BY WidthAssumption DEF StateOK, Instance, Policy, CapPolicy

LEMMA ChargeWindowType ==
    ASSUME StateOK, NEW amount \in Nat, ChargeWindow(amount)
    PROVE  window' \in CapWindowRecord \cup {NoWindow}
BY ChargedType, InstancePolicy, NoLegacySpending DEF ChargeWindow, StateOK

LEMMA InitTypeOK == Init => TypeOK
<1> SUFFICES ASSUME Init PROVE TypeOK
  OBVIOUS
<1>1. PICK f \in Foundings : Constructor(f)
  BY DEF Init
<1>2. f \in Founding
  BY <1>1, VaultAssumption
<1>3. /\ 0 \in U32 /\ 0 \in Nat /\ 0 \in Int
      /\ NoPolicy \in Policy
  BY WidthAssumption DEF U32, NoPolicy, Policy
<1>4. {f.signers[i] : i \in 1..Len(f.signers)} \subseteq Address
  BY <1>2 DEF Founding
<1>5. instance \in Instance /\ instance.nextTx = 0
  BY <1>1, <1>2, <1>3, <1>4 DEF Constructor, Instance, Founding
<1>6. TxIds = {}
  BY <1>5 DEF TxIds
<1>7. /\ proposal \in [{} -> Proposal]
      /\ lastApproval \in [{} -> U32 \cup {Absent}]
      /\ voters \in [{} -> SUBSET (Address \cup Commitment)]
      /\ passedAt \in [{} -> U32 \cup {NotPassed}]
  BY DEF Init
<1>8. balance \in [Address -> Int]
  BY VaultAssumption DEF Init
<1> QED
  BY <1>3, <1>5, <1>6, <1>7, <1>8 DEF TypeOK, Init

(* store_proposal adds one well-formed proposal under the next id.            *)
LEMMA StoreProposalType ==
    ASSUME StateOK, NEW proposer \in Address, NEW payload \in Payload,
           NEW amount \in I128, NEW private \in BOOLEAN,
           StoreProposal(proposer, payload, amount, private)
    PROVE  StateOK'
<1> DEFINE n == instance.nextTx
<1>1. n \in Nat
  BY DEF StateOK, Instance
<1>2. instance' \in Instance /\ instance'.nextTx = n + 1
  BY <1>1 DEF StateOK, StoreProposal, Instance
<1>3. TxIds' = 0..n /\ TxIds \subseteq TxIds' /\ TxIds = (0..n) \ {n}
  BY <1>1, <1>2 DEF TxIds
<1>4. proposal' \in [TxIds' -> Proposal]
  <2> DEFINE new == [proposer |-> proposer, payload |-> payload,
                     amount |-> amount, privateMode |-> private,
                     approvalCount |-> 0, executed |-> FALSE,
                     createdAt |-> ledger]
  <2>1. new \in Proposal
    BY DEF StateOK, Proposal
  <2>2. proposal' = Extend(proposal, new)
    BY DEF StoreProposal
  <2> HIDE DEF new
  <2> QED
    BY <1>3, <2>1, <2>2 DEF Extend, StateOK
<1>5. lastApproval' \in [TxIds' -> U32 \cup {Absent}]
  BY <1>3 DEF StoreProposal, Extend, StateOK
<1>6. voters' \in [TxIds' -> SUBSET (Address \cup Commitment)]
  BY <1>3 DEF StoreProposal, Extend, StateOK
<1> QED
  BY <1>2, <1>3, <1>4, <1>5, <1>6 DEF StateOK, StoreProposal

(* An approval touches one proposal, its stamp and its voters.                *)
LEMMA RecordApprovalType ==
    ASSUME StateOK, NEW tx \in TxIds, NEW voter \in Address \cup Commitment,
           RecordApproval(tx, voter)
    PROVE  /\ OneMore(tx) \in Proposal
           /\ NoteApproval(tx) \in [TxIds -> U32 \cup {Absent}]
           /\ lastApproval' \in [TxIds -> U32 \cup {Absent}]
           /\ voters' \in [TxIds -> SUBSET (Address \cup Commitment)]
<1>1. OneMore(tx) \in Proposal
  BY DEF StateOK, OneMore, Proposal
<1>2. NoteApproval(tx) \in [TxIds -> U32 \cup {Absent}]
  BY DEF StateOK, NoteApproval
<1>3. voters' \in [TxIds -> SUBSET (Address \cup Commitment)]
  BY DEF StateOK, RecordApproval
<1> QED
  BY <1>1, <1>2, <1>3 DEF RecordApproval

(* apply_admin leaves a well-formed configuration and no new ids.             *)
LEMMA ApplyAdminType ==
    ASSUME StateOK, NEW a \in AdminAction, ApplyAdmin(a)
    PROVE  instance' \in Instance /\ instance'.nextTx = instance.nextTx
<1>1. instance \in Instance /\ ledger \in U32
  BY DEF StateOK
<1>2. CASE SetThreshold(a)
  BY <1>1, <1>2 DEF SetThreshold, AdminAction, Instance
<1>3. CASE AddSigner(a)
  BY <1>1, <1>3 DEF AddSigner, Retire, AdminAction, Instance
<1>4. CASE RemoveSigner(a)
  BY <1>1, <1>4 DEF RemoveSigner, Retire, AdminAction, Instance
<1>5. CASE SetPolicy(a)
  BY <1>1, <1>5 DEF SetPolicy, AdminAction, Instance
<1>6. CASE AllowRecipient(a) \/ RevokeRecipient(a)
  BY <1>1, <1>6 DEF AllowRecipient, RevokeRecipient, AdminAction, Instance
<1>7. CASE AllowContract(a) \/ RevokeContract(a)
  BY <1>1, <1>7 DEF AllowContract, RevokeContract, AdminAction, Instance
<1>8. CASE SetZkConfig(a)
  BY <1>1, <1>8 DEF SetZkConfig, Retire, AdminAction, Instance
<1>9. CASE SetSignerCommitments(a)
  BY <1>1, <1>9 DEF SetSignerCommitments, Retire, AdminAction, Instance
<1>10. CASE TransferOwnership(a)
  BY <1>1, <1>10 DEF TransferOwnership, AdminAction, Instance
<1>11. CASE Upgrade(a)
  BY <1>1, <1>11 DEF Upgrade, Retire, AdminAction, Instance
<1> QED
  BY <1>2, <1>3, <1>4, <1>5, <1>6, <1>7, <1>8, <1>9, <1>10, <1>11
  DEF ApplyAdmin

LEMMA PaymentType ==
    ASSUME NEW pays \in Payment, NEW a \in DOMAIN pays
    PROVE  pays[a] \in Int
<1>1. (-MaxI128)..MaxI128 \subseteq Int
  BY WidthAssumption
<1>2. CASE pays \in Batches
  BY <1>1, <1>2, VaultAssumption
<1>3. CASE \E t \in Transfers : pays = Single(t.target, t.amount)
  <2>1. PICK t \in Transfers : pays = [to \in {t.target} |-> t.amount]
    BY <1>3 DEF Single
  <2>2. t.amount \in Int
    BY <1>1, VaultAssumption
  <2> QED
    BY <2>1, <2>2
<1> QED
  BY <1>2, <1>3 DEF Payment

(* Whatever a proposal does when it is settled, the state stays well-formed.  *)
LEMMA SettleType ==
    ASSUME StateOK, NEW tx \in TxIds, NEW p \in Proposal, Settle(tx, p)
    PROVE  /\ instance' \in Instance
           /\ TxIds' = TxIds
           /\ proposal' \in [TxIds -> Proposal]
           /\ window' \in CapWindowRecord \cup {NoWindow}
           /\ balance' \in [Address -> Int]
<1>1. proposal' \in [TxIds -> Proposal]
  <2>1. [p EXCEPT !.executed = TRUE] \in Proposal
    BY DEF Proposal
  <2> QED
    BY <2>1 DEF StateOK, Settle
<1>2. CASE SettleAdmin(p)
  <2>1. p.payload.action \in AdminAction
    BY <1>2 DEF SettleAdmin, Proposal, Payload
  <2>2. instance' \in Instance /\ instance'.nextTx = instance.nextTx
    BY <1>2, <2>1, ApplyAdminType DEF SettleAdmin
  <2> QED
    BY <1>1, <1>2, <2>2 DEF SettleAdmin, StateOK, TxIds
<1>3. CASE SettleCall(p)
  <2>1. PICK to \in Address \ {Vault}, moved \in CallFlows :
            /\ balance' = [balance EXCEPT ![Vault] = @ - moved, ![to] = @ + moved]
            /\ IF moved > 0
               THEN /\ CheckLimit(moved)
                    /\ ChargeWindow(moved)
                    /\ CheckRecipient(p.payload.call.contract)
               ELSE UNCHANGED window
    BY <1>3 DEF SettleCall
  <2>2. moved \in Int
    BY VaultAssumption
  <2>3. balance' \in [Address -> Int]
    BY <2>1, <2>2, VaultAssumption DEF StateOK
  <2>4. window' \in CapWindowRecord \cup {NoWindow}
    <3>1. CASE moved > 0
      BY <2>1, <2>2, <3>1, ChargeWindowType
    <3>2. CASE ~(moved > 0)
      BY <2>1, <3>2 DEF StateOK
    <3> QED
      BY <3>1, <3>2
  <2> QED
    BY <1>1, <1>3, <2>3, <2>4 DEF SettleCall, StateOK, TxIds
<1>4. CASE SettlePayment(p)
  <2>1. p.payload.pays \in Payment /\ p.amount \in Nat
    BY <1>4 DEF SettlePayment, Proposal, Payload, I128
  <2>2. window' \in CapWindowRecord \cup {NoWindow}
    BY <1>4, <2>1, ChargeWindowType DEF SettlePayment
  <2>3. balance' \in [Address -> Int]
    BY <1>4, <2>1, PaymentType DEF SettlePayment, StateOK
  <2> QED
    BY <1>1, <1>4, <2>2, <2>3 DEF SettlePayment, StateOK, TxIds
<1> QED
  BY <1>2, <1>3, <1>4 DEF Settle

(* The history of passing is well-formed after any step that keeps the rest.  *)
LEMMA NotePassedType ==
    ASSUME TypeOK, StateOK', NotePassed
    PROVE  TypeOK'
<1>1. DOMAIN proposal' = TxIds'
  BY DEF StateOK
<1>2. passedAt' \in [TxIds' -> U32 \cup {NotPassed}]
  BY <1>1 DEF NotePassed, TypeOK
<1> QED
  BY <1>2 DEF TypeOK, StateOK

(* The steps of Next, without the history.                                    *)
LEMMA ProposeKeepsState ==
    ASSUME StateOK, NEW proposer \in Address, NEW private \in BOOLEAN
    PROVE  /\ \A t \in Transfers :
                Propose(proposer, t.target, t.amount, private) => StateOK'
           /\ \A pays \in Batches : ProposeBatch(proposer, pays, private) => StateOK'
           /\ \A call \in Calls : ProposeCall(proposer, call, private) => StateOK'
           /\ \A action \in AdminActions : ProposeAdmin(proposer, action) => StateOK'
<1>1. 0 \in I128
  BY WidthAssumption DEF I128
<1>2. ASSUME NEW t \in Transfers, Propose(proposer, t.target, t.amount, private)
      PROVE  StateOK'
  <2>1. t.amount \in I128
    BY <1>2, VaultAssumption, WidthAssumption DEF Propose, I128
  <2>2. [kind |-> "payment", pays |-> Single(t.target, t.amount)] \in Payload
    BY DEF Payload, Payment
  <2> QED
    BY <1>2, <2>1, <2>2, StoreProposalType DEF Propose
<1>3. ASSUME NEW pays \in Batches, ProposeBatch(proposer, pays, private)
      PROVE  StateOK'
  <2>1. [kind |-> "payment", pays |-> pays] \in Payload
    BY DEF Payload, Payment
  <2> QED
    BY <1>3, <2>1, StoreProposalType DEF ProposeBatch
<1>4. ASSUME NEW call \in Calls, ProposeCall(proposer, call, private)
      PROVE  StateOK'
  <2>1. [kind |-> "call", call |-> call] \in Payload
    BY VaultAssumption DEF Payload
  <2> QED
    BY <1>1, <1>4, <2>1, StoreProposalType DEF ProposeCall
<1>5. ASSUME NEW action \in AdminActions, ProposeAdmin(proposer, action)
      PROVE  StateOK'
  <2>1. [kind |-> "admin", action |-> action] \in Payload
    BY VaultAssumption DEF Payload
  <2> QED
    BY <1>1, <1>5, <2>1, StoreProposalType DEF ProposeAdmin
<1> QED
  BY <1>2, <1>3, <1>4, <1>5

LEMMA ApproveKeepsState ==
    ASSUME StateOK, NEW tx \in TxIds
    PROVE  /\ \A signer \in Address : Approve(tx, signer) => StateOK'
           /\ \A signer \in Address, zk \in ZkApproval :
                ApproveZk(tx, signer, zk) => StateOK'
           /\ \A zk \in ZkApproval : ApproveZkAnon(tx, zk) => StateOK'
<1>1. ASSUME NEW signer \in Address, Approve(tx, signer)
      PROVE  StateOK'
  <2>1. /\ OneMore(tx) \in Proposal
        /\ lastApproval' \in [TxIds -> U32 \cup {Absent}]
        /\ voters' \in [TxIds -> SUBSET (Address \cup Commitment)]
    BY <1>1, RecordApprovalType DEF Approve
  <2> QED
    BY <1>1, <2>1 DEF Approve, RecordApproval, StateOK, TxIds
<1>2. ASSUME NEW zk \in ZkApproval
      PROVE  zk.nullifier \in Nullifier /\ zk.nullifier.leaf \in Commitment
  BY DEF ZkApproval, Nullifier
<1>3. ASSUME NEW signer \in Address, NEW zk \in ZkApproval,
             ApproveZk(tx, signer, zk)
      PROVE  StateOK'
  <2>1. /\ OneMore(tx) \in Proposal
        /\ lastApproval' \in [TxIds -> U32 \cup {Absent}]
        /\ voters' \in [TxIds -> SUBSET (Address \cup Commitment)]
    BY <1>2, <1>3, RecordApprovalType DEF ApproveZk
  <2> QED
    BY <1>2, <1>3, <2>1 DEF ApproveZk, RecordApproval, StateOK, TxIds
<1>4. ASSUME NEW zk \in ZkApproval, ApproveZkAnon(tx, zk)
      PROVE  StateOK'
  <2>1. /\ OneMore(tx) \in Proposal
        /\ lastApproval' \in [TxIds -> U32 \cup {Absent}]
        /\ voters' \in [TxIds -> SUBSET (Address \cup Commitment)]
    BY <1>2, <1>4, RecordApprovalType DEF ApproveZkAnon
  <2> QED
    BY <1>2, <1>4, <2>1 DEF ApproveZkAnon, RecordApproval, StateOK, TxIds
<1> QED
  BY <1>1, <1>3, <1>4

LEMMA SettlingKeepsState ==
    ASSUME StateOK, NEW tx \in TxIds
    PROVE  /\ Execute(tx) => StateOK'
           /\ \A signer \in Address : ApproveAndExecute(tx, signer) => StateOK'
           /\ \A caller \in Address : Cancel(tx, caller) => StateOK'
<1>1. ASSUME Execute(tx) PROVE StateOK'
  <2>1. proposal[tx] \in Proposal
    BY DEF StateOK
  <2> QED
    BY <1>1, <2>1, SettleType DEF Execute, StateOK
<1>2. ASSUME NEW signer \in Address, ApproveAndExecute(tx, signer)
      PROVE  StateOK'
  <2>1. /\ OneMore(tx) \in Proposal
        /\ lastApproval' \in [TxIds -> U32 \cup {Absent}]
        /\ voters' \in [TxIds -> SUBSET (Address \cup Commitment)]
    BY <1>2, RecordApprovalType DEF ApproveAndExecute
  <2>2. /\ instance' \in Instance
        /\ TxIds' = TxIds
        /\ proposal' \in [TxIds -> Proposal]
        /\ window' \in CapWindowRecord \cup {NoWindow}
        /\ balance' \in [Address -> Int]
    <3>1. CASE Settle(tx, OneMore(tx))
      BY <2>1, <3>1, SettleType
    <3>2. CASE /\ proposal' = [proposal EXCEPT ![tx] = OneMore(tx)]
               /\ UNCHANGED <<instance, window, balance>>
      BY <2>1, <3>2 DEF StateOK, TxIds
    <3> QED
      BY <1>2, <3>1, <3>2 DEF ApproveAndExecute
  <2>3. /\ UNCHANGED <<ledger, cancelled, nullifier>>
        /\ approval' = approval \cup {<<tx, signer>>}
    BY <1>2 DEF ApproveAndExecute, RecordApproval
  <2> QED
    BY <2>1, <2>2, <2>3 DEF StateOK
<1>3. ASSUME NEW caller \in Address, Cancel(tx, caller)
      PROVE  StateOK'
  BY <1>3 DEF Cancel, StateOK, TxIds
<1> QED
  BY <1>1, <1>2, <1>3

LEMMA EnvironmentKeepsState ==
    ASSUME StateOK
    PROVE  /\ CloseLedger => StateOK'
           /\ \A from \in Address, amount \in Deposits :
                Deposit(from, amount) => StateOK'
<1>1. ASSUME CloseLedger PROVE StateOK'
  <2>1. ledger' \in U32
    BY <1>1, VaultAssumption, WidthAssumption DEF CloseLedger, StateOK, U32
  <2>2. UNCHANGED <<instance, proposal, approval, nullifier, cancelled,
                    lastApproval, window, balance, voters>>
    BY <1>1 DEF CloseLedger
  <2> QED
    BY <2>1, <2>2 DEF StateOK, TxIds
<1>2. ASSUME NEW from \in Address, NEW amount \in Deposits, Deposit(from, amount)
      PROVE  StateOK'
  BY <1>2, VaultAssumption DEF Deposit, StateOK, TxIds
<1> QED
  BY <1>1, <1>2

(* The vault whatever proofs are submitted: Submissions only says which a run *)
(* tries, and another module may compose the vault with provers of its own.   *)
OpenNext ==
    \/ Next
    \/ \E tx \in TxIds, zk \in ZkApproval :
        \/ ApproveZkAnon(tx, zk)
        \/ \E signer \in Address : ApproveZk(tx, signer, zk)

OpenSpec == Init /\ [][OpenNext]_vars

LEMMA SpecIsOpen == Spec => OpenSpec
<1>1. [Next]_vars => [OpenNext]_vars
  BY DEF OpenNext
<1> QED
  BY <1>1, PTL DEF Spec, OpenSpec

(* No action forgets the history.                                             *)
LEMMA EveryStepNotes == OpenNext => NotePassed
BY DEF OpenNext, Next, CloseLedger, Deposit, Propose, ProposeBatch,
       ProposeCall, ProposeAdmin, StoreProposal, Approve, ApproveZk,
       ApproveZkAnon, RecordApproval, Execute, ApproveAndExecute, Cancel

LEMMA NextKeepsTypes ==
    ASSUME TypeOK, [OpenNext]_vars PROVE TypeOK'
<1>1. StateOK
  BY StateIsTyped
<1>2. CASE OpenNext
  <2>1. /\ Proposers \subseteq Address /\ Modes \subseteq BOOLEAN
        /\ Submissions \subseteq ZkApproval
    BY VaultAssumption
  <2>2. StateOK'
    BY <1>1, <1>2, <2>1, EnvironmentKeepsState, ProposeKeepsState,
       ApproveKeepsState, SettlingKeepsState
    DEF OpenNext, Next
  <2> QED
    BY <1>2, <2>2, EveryStepNotes, NotePassedType
<1>3. CASE UNCHANGED vars
  BY <1>3 DEF vars, TypeOK, TxIds
<1> QED
  BY <1>2, <1>3

LEMMA OpenTypes == OpenSpec => []TypeOK
<1>1. TypeOK /\ [OpenNext]_vars => TypeOK'
  BY NextKeepsTypes
<1> QED
  BY <1>1, InitTypeOK, PTL DEF OpenSpec

(* Every reachable state is well-formed: no call leaves an entry, a counter   *)
(* or a window outside the type the contract stores it in.                    *)
THEOREM TypeCorrect == Spec => []TypeOK
BY OpenTypes, SpecIsOpen, PTL

------------------------------------------------------------------------------
(* Admin actions: each retires what is open, or leaves the electorate alone.  *)
KeepsElectorate ==
    /\ instance'.signers = instance.signers
    /\ instance'.zk = instance.zk
    /\ instance'.retired = instance.retired

RetiresAll == instance'.retired = instance.nextTx

LEMMA AdminRetiresOrKeeps ==
    ASSUME StateOK, NEW a \in AdminAction, ApplyAdmin(a)
    PROVE  KeepsElectorate \/ RetiresAll
<1>1. instance \in Instance
  BY DEF StateOK
<1>2. CASE SetThreshold(a) \/ SetPolicy(a) \/ TransferOwnership(a)
  BY <1>1, <1>2 DEF SetThreshold, SetPolicy, TransferOwnership, Instance,
                    KeepsElectorate
<1>3. CASE \/ AllowRecipient(a) \/ RevokeRecipient(a)
           \/ AllowContract(a) \/ RevokeContract(a)
  BY <1>1, <1>3 DEF AllowRecipient, RevokeRecipient, AllowContract,
                    RevokeContract, Instance, KeepsElectorate
<1>4. CASE AddSigner(a) \/ RemoveSigner(a)
  BY <1>1, <1>4 DEF AddSigner, RemoveSigner, Retire, Instance, RetiresAll
<1>5. CASE SetZkConfig(a) \/ SetSignerCommitments(a) \/ Upgrade(a)
  BY <1>1, <1>5 DEF SetZkConfig, SetSignerCommitments, Upgrade, Retire,
                    Instance, RetiresAll
<1> QED
  BY <1>2, <1>3, <1>4, <1>5 DEF ApplyAdmin

LEMMA SettleRetiresOrKeeps ==
    ASSUME StateOK, NEW tx \in TxIds, NEW p \in Proposal, Settle(tx, p)
    PROVE  KeepsElectorate \/ RetiresAll
<1>1. CASE SettleAdmin(p)
  <2>1. p.payload.action \in AdminAction
    BY <1>1 DEF SettleAdmin, Proposal, Payload
  <2> QED
    BY <1>1, <2>1, AdminRetiresOrKeeps DEF SettleAdmin
<1>2. CASE SettleCall(p) \/ SettlePayment(p)
  BY <1>2 DEF SettleCall, SettlePayment, KeepsElectorate
<1> QED
  BY <1>1, <1>2 DEF Settle

------------------------------------------------------------------------------
(* The inductive invariant behind the quorum: counts are exact, and what is   *)
(* counted is backed by an entry of one of the two double-vote ledgers.       *)
BallotsOK ==
    /\ \A tx \in TxIds : IsFiniteSet(voters[tx])
    /\ VotesAreDistinct
    /\ BallotsBacked

(* A step that touches no vote and keeps the electorate or retires everything *)
(* keeps the ballots.                                                         *)
LEMMA BallotsUndisturbed ==
    ASSUME StateOK, StateOK', BallotsOK, TxIds' = TxIds,
           UNCHANGED <<approval, nullifier, voters>>,
           \A t \in TxIds :
                /\ proposal'[t].approvalCount = proposal[t].approvalCount
                /\ proposal'[t].privateMode = proposal[t].privateMode,
           KeepsElectorate \/ RetiresAll
    PROVE  BallotsOK'
<1>1. /\ (\A t \in TxIds : IsFiniteSet(voters[t]))'
      /\ VotesAreDistinct'
  BY DEF BallotsOK, VotesAreDistinct
<1>2. CASE KeepsElectorate
  BY <1>1, <1>2 DEF BallotsOK, BallotsBacked, KeepsElectorate, CurrentSet,
                    Electorate, Verified
<1>3. CASE RetiresAll
  <2>1. \A t \in TxIds' : ~CurrentSet(t)'
    BY <1>3 DEF RetiresAll, CurrentSet, TxIds, StateOK, Instance
  <2> QED
    BY <1>1, <2>1 DEF BallotsOK, BallotsBacked
<1> QED
  BY <1>2, <1>3

(* A new ballot of a voter not yet counted makes the count one larger.        *)
LEMMA BallotCounted ==
    ASSUME StateOK, BallotsOK, NEW tx \in TxIds, NEW v,
           v \notin voters[tx],
           voters' = [voters EXCEPT ![tx] = @ \cup {v}],
           TxIds' = TxIds,
           proposal'[tx].approvalCount = proposal[tx].approvalCount + 1,
           \A t \in TxIds \ {tx} :
                proposal'[t].approvalCount = proposal[t].approvalCount
    PROVE  /\ \A t \in TxIds' : IsFiniteSet(voters'[t])
           /\ VotesAreDistinct'
           /\ Cardinality(voters'[tx]) = proposal[tx].approvalCount + 1
<1>1. /\ IsFiniteSet(voters[tx] \cup {v})
      /\ Cardinality(voters[tx] \cup {v}) = Cardinality(voters[tx]) + 1
  BY FS_AddElement DEF BallotsOK
<1>2. /\ voters'[tx] = voters[tx] \cup {v}
      /\ \A t \in TxIds \ {tx} : voters'[t] = voters[t]
  BY DEF StateOK
<1> QED
  BY <1>1, <1>2 DEF BallotsOK, VotesAreDistinct

(* A voter who is not in the ledger that stands for the vote is not counted.  *)
LEMMA UnmarkedNotCounted ==
    ASSUME StateOK, BallotsOK, NEW tx \in TxIds, CurrentSet(tx), NEW v
    PROVE  /\ ~Verified(tx) /\ <<tx, v>> \notin approval => v \notin voters[tx]
           /\ Verified(tx) /\ [leaf |-> v, tx |-> tx, lift |-> 0] \notin nullifier
                => v \notin voters[tx]
BY DEF BallotsOK, BallotsBacked

(* An approval that adds an unmarked member of the electorate, and its mark.  *)
LEMMA BallotsExtended ==
    ASSUME StateOK, BallotsOK, NEW tx \in TxIds, NEW v,
           CurrentSet(tx), v \in Electorate(tx), v \notin voters[tx],
           IF Verified(tx)
           THEN [leaf |-> v, tx |-> tx, lift |-> 0] \in nullifier'
           ELSE <<tx, v>> \in approval',
           approval \subseteq approval', nullifier \subseteq nullifier',
           voters' = [voters EXCEPT ![tx] = @ \cup {v}],
           proposal' = [proposal EXCEPT ![tx] = OneMore(tx)],
           UNCHANGED instance
    PROVE  BallotsOK'
<1>1. TxIds' = TxIds
  BY DEF TxIds
<1>2. /\ proposal'[tx].approvalCount = proposal[tx].approvalCount + 1
      /\ \A t \in TxIds \ {tx} : proposal'[t] = proposal[t]
      /\ \A t \in TxIds : proposal'[t].privateMode = proposal[t].privateMode
  BY DEF StateOK, OneMore, Proposal
<1>3. /\ (\A t \in TxIds : IsFiniteSet(voters[t]))'
      /\ VotesAreDistinct'
  BY <1>1, <1>2, BallotCounted
<1>4. BallotsBacked'
  <2> SUFFICES ASSUME NEW t \in TxIds, CurrentSet(t), NEW u \in voters'[t]
               PROVE  /\ u \in Electorate(t)
                      /\ IF Verified(t)
                         THEN [leaf |-> u, tx |-> t, lift |-> 0] \in nullifier'
                         ELSE <<t, u>> \in approval'
    BY <1>1, <1>2 DEF BallotsBacked, CurrentSet, Electorate, Verified
  <2>1. CASE u \in voters[t]
    BY <2>1 DEF BallotsOK, BallotsBacked
  <2>2. CASE u \notin voters[t]
    <3>1. t = tx /\ u = v
      BY <2>2 DEF StateOK
    <3> QED
      BY <3>1
  <2> QED
    BY <2>1, <2>2
<1> QED
  BY <1>3, <1>4 DEF BallotsOK

LEMMA InitBallots == Init => BallotsOK
<1> SUFFICES ASSUME Init PROVE BallotsOK
  OBVIOUS
<1>1. TxIds = {}
  BY DEF Init, Constructor, TxIds
<1> QED
  BY <1>1 DEF BallotsOK, VotesAreDistinct, BallotsBacked

(* A new proposal has no ballots and disturbs nobody else's.                  *)
LEMMA StoreKeepsBallots ==
    ASSUME StateOK, BallotsOK, NEW proposer, NEW payload, NEW amount,
           NEW private, StoreProposal(proposer, payload, amount, private)
    PROVE  BallotsOK'
<1> DEFINE n == instance.nextTx
<1>1. /\ n \in Nat
      /\ instance' = [instance EXCEPT !.nextTx = n + 1]
  BY DEF StateOK, Instance, StoreProposal
<1>2. /\ TxIds' = 0..n
      /\ TxIds = (0..n) \ {n}
      /\ KeepsElectorate
  BY <1>1 DEF TxIds, StateOK, Instance, KeepsElectorate
<1>3. \A t \in TxIds : proposal'[t] = proposal[t] /\ voters'[t] = voters[t]
  BY <1>2 DEF StoreProposal, Extend
<1>4. proposal'[n].approvalCount = 0 /\ voters'[n] = {}
  BY <1>1 DEF StoreProposal, Extend
<1>5. \A t \in TxIds' : t \in TxIds \/ t = n
  BY <1>2
<1>6. (\A t \in TxIds : IsFiniteSet(voters[t]))' /\ VotesAreDistinct'
  BY <1>3, <1>4, <1>5, FS_EmptySet DEF BallotsOK, VotesAreDistinct
<1>7. BallotsBacked'
  <2> SUFFICES ASSUME NEW t \in TxIds', CurrentSet(t)', NEW v \in voters'[t]
               PROVE  /\ v \in Electorate(t)'
                      /\ IF Verified(t)'
                         THEN [leaf |-> v, tx |-> t, lift |-> 0] \in nullifier'
                         ELSE <<t, v>> \in approval'
    BY DEF BallotsBacked
  <2>1. t \in TxIds
    BY <1>4, <1>5
  <2> QED
    BY <1>2, <1>3, <2>1 DEF BallotsOK, BallotsBacked, KeepsElectorate,
        CurrentSet, Electorate, Verified, StoreProposal
<1> QED
  BY <1>6, <1>7 DEF BallotsOK

LEMMA ApproveKeepsBallots ==
    ASSUME StateOK, BallotsOK, NEW tx \in TxIds, NEW signer \in Address,
           Approve(tx, signer)
    PROVE  BallotsOK'
<1>1. /\ CurrentSet(tx) /\ ~Verified(tx)
      /\ signer \in Electorate(tx)
      /\ <<tx, signer>> \notin approval
  BY DEF Approve, CanApprove, Signer, Verified, Electorate
<1>2. signer \notin voters[tx]
  BY <1>1, UnmarkedNotCounted
<1> QED
  BY <1>1, <1>2, BallotsExtended DEF Approve, RecordApproval

(* A proof that check_proof accepts names a leaf of the configured root and   *)
(* spends the canonical nullifier of that leaf and this proposal.             *)
LEMMA AcceptedProof ==
    ASSUME StateOK, NEW tx \in TxIds, NEW zk \in ZkApproval,
           CanApprovePrivately(tx, zk), instance.zk # NoZk
    PROVE  /\ zk.nullifier = [leaf |-> zk.nullifier.leaf, tx |-> tx, lift |-> 0]
           /\ zk.nullifier.leaf \in instance.zk.root
<1>1. zk.nullifier \in Nullifier
  BY DEF ZkApproval
<1>2. /\ zk.nullifier.lift = 0 /\ zk.nullifier.tx = tx
      /\ zk.nullifier.leaf \in instance.zk.root
  BY DEF CanApprovePrivately, CheckProof, Provable, Canonical, OwnRoot,
         OwnProposal, OwnNullifier
<1> QED
  BY <1>1, <1>2 DEF Nullifier

LEMMA ApproveZkKeepsBallots ==
    ASSUME StateOK, BallotsOK, NEW tx \in TxIds, NEW signer \in Address,
           NEW zk \in ZkApproval, ApproveZk(tx, signer, zk)
    PROVE  BallotsOK'
<1>1. /\ CurrentSet(tx) /\ proposal[tx].privateMode
      /\ CanApprovePrivately(tx, zk)
      /\ zk.nullifier \notin nullifier
      /\ Signer(signer) /\ <<tx, signer>> \notin approval
  BY DEF ApproveZk, CanApprovePrivately
<1>2. CASE instance.zk = NoZk
  <2>1. ~Verified(tx) /\ signer \in Electorate(tx)
    BY <1>1, <1>2 DEF Verified, Electorate, Signer
  <2>2. signer \notin voters[tx]
    BY <1>1, <2>1, UnmarkedNotCounted
  <2> QED
    BY <1>1, <1>2, <2>1, <2>2, BallotsExtended DEF ApproveZk, RecordApproval
<1>3. CASE instance.zk # NoZk
  <2> DEFINE leaf == zk.nullifier.leaf
  <2>1. /\ Verified(tx) /\ leaf \in Electorate(tx)
        /\ zk.nullifier = [leaf |-> leaf, tx |-> tx, lift |-> 0]
    BY <1>1, <1>3, AcceptedProof DEF Verified, Electorate
  <2>2. leaf \notin voters[tx]
    BY <1>1, <2>1, UnmarkedNotCounted
  <2>3. voters' = [voters EXCEPT ![tx] = @ \cup {leaf}]
    BY <1>3 DEF ApproveZk, RecordApproval
  <2> QED
    BY <1>1, <2>1, <2>2, <2>3, BallotsExtended DEF ApproveZk
<1> QED
  BY <1>2, <1>3

LEMMA ApproveZkAnonKeepsBallots ==
    ASSUME StateOK, BallotsOK, NEW tx \in TxIds, NEW zk \in ZkApproval,
           ApproveZkAnon(tx, zk)
    PROVE  BallotsOK'
<1> DEFINE leaf == zk.nullifier.leaf
<1>1. /\ CurrentSet(tx) /\ proposal[tx].privateMode /\ instance.zk # NoZk
      /\ CanApprovePrivately(tx, zk)
      /\ zk.nullifier \notin nullifier
  BY DEF ApproveZkAnon, CanApprovePrivately
<1>2. /\ Verified(tx) /\ leaf \in Electorate(tx)
      /\ zk.nullifier = [leaf |-> leaf, tx |-> tx, lift |-> 0]
  BY <1>1, AcceptedProof DEF Verified, Electorate
<1>3. leaf \notin voters[tx]
  BY <1>1, <1>2, UnmarkedNotCounted
<1> QED
  BY <1>1, <1>2, <1>3, BallotsExtended DEF ApproveZkAnon, RecordApproval

(* Settling changes no count but, in approve_and_execute, by the approval     *)
(* that comes with it.                                                        *)
LEMMA SettledProposals ==
    ASSUME StateOK, NEW tx \in TxIds, NEW p \in Proposal, Settle(tx, p)
    PROVE  /\ proposal'[tx] = [p EXCEPT !.executed = TRUE]
           /\ proposal'[tx].approvalCount = p.approvalCount
           /\ proposal'[tx].privateMode = p.privateMode
           /\ \A t \in TxIds \ {tx} : proposal'[t] = proposal[t]
BY DEF StateOK, Settle, Proposal

LEMMA ExecuteKeepsBallots ==
    ASSUME StateOK, StateOK', BallotsOK, NEW tx \in TxIds, Execute(tx)
    PROVE  BallotsOK'
<1>1. proposal[tx] \in Proposal /\ Settle(tx, proposal[tx])
  BY DEF StateOK, Execute
<1>2. \A t \in TxIds :
        /\ proposal'[t].approvalCount = proposal[t].approvalCount
        /\ proposal'[t].privateMode = proposal[t].privateMode
  BY <1>1, SettledProposals
<1>3. KeepsElectorate \/ RetiresAll
  BY <1>1, SettleRetiresOrKeeps
<1>4. TxIds' = TxIds
  BY <1>1, SettleType
<1> QED
  BY <1>2, <1>3, <1>4, BallotsUndisturbed DEF Execute

LEMMA ApproveAndExecuteKeepsBallots ==
    ASSUME StateOK, StateOK', BallotsOK, NEW tx \in TxIds,
           NEW signer \in Address, ApproveAndExecute(tx, signer)
    PROVE  BallotsOK'
<1>1. /\ CurrentSet(tx) /\ ~Verified(tx)
      /\ signer \in Electorate(tx)
      /\ <<tx, signer>> \notin approval
      /\ approval' = approval \cup {<<tx, signer>>}
      /\ voters' = [voters EXCEPT ![tx] = @ \cup {signer}]
      /\ nullifier' = nullifier
  BY DEF ApproveAndExecute, CanApprove, Signer, Verified, Electorate,
         RecordApproval
<1>2. signer \notin voters[tx]
  BY <1>1, UnmarkedNotCounted
<1>3. CASE /\ proposal' = [proposal EXCEPT ![tx] = OneMore(tx)]
           /\ UNCHANGED <<instance, window, balance>>
  BY <1>1, <1>2, <1>3, BallotsExtended
<1>4. CASE Settle(tx, OneMore(tx))
  <2>1. OneMore(tx) \in Proposal
    BY RecordApprovalType DEF ApproveAndExecute
  <2>2. /\ OneMore(tx).approvalCount = proposal[tx].approvalCount + 1
        /\ OneMore(tx).privateMode = proposal[tx].privateMode
    BY DEF OneMore, StateOK, Proposal
  <2>3. /\ proposal'[tx].approvalCount = proposal[tx].approvalCount + 1
        /\ \A t \in TxIds : proposal'[t].privateMode = proposal[t].privateMode
        /\ \A t \in TxIds \ {tx} : proposal'[t] = proposal[t]
    BY <1>4, <2>1, <2>2, SettledProposals
  <2>4. TxIds' = TxIds
    BY <1>4, <2>1, SettleType
  <2>5. (\A t \in TxIds : IsFiniteSet(voters[t]))' /\ VotesAreDistinct'
    BY <1>1, <1>2, <2>3, <2>4, BallotCounted
  <2>6. BallotsBacked'
    <3>1. CASE RetiresAll
      BY <2>4, <3>1 DEF RetiresAll, CurrentSet, TxIds, StateOK, Instance,
                        BallotsBacked
    <3>2. CASE KeepsElectorate
      <4> SUFFICES ASSUME NEW t \in TxIds, CurrentSet(t), NEW u \in voters'[t]
                   PROVE  /\ u \in Electorate(t)
                          /\ IF Verified(t)
                             THEN [leaf |-> u, tx |-> t, lift |-> 0] \in nullifier'
                             ELSE <<t, u>> \in approval'
        BY <2>3, <2>4, <3>2 DEF BallotsBacked, CurrentSet, Electorate,
                                Verified, KeepsElectorate
      <4>1. CASE u \in voters[t]
        BY <1>1, <4>1 DEF BallotsOK, BallotsBacked
      <4>2. CASE u \notin voters[t]
        <5>1. t = tx /\ u = signer
          BY <1>1, <4>2 DEF StateOK
        <5> QED
          BY <1>1, <5>1
      <4> QED
        BY <4>1, <4>2
    <3> QED
      BY <1>4, <2>1, <3>1, <3>2, SettleRetiresOrKeeps
  <2> QED
    BY <2>5, <2>6 DEF BallotsOK
<1> QED
  BY <1>3, <1>4 DEF ApproveAndExecute

LEMMA EnvironmentKeepsBallots ==
    ASSUME StateOK, StateOK', BallotsOK,
           \/ CloseLedger
           \/ \E from \in Address, amount \in Deposits : Deposit(from, amount)
           \/ \E tx \in TxIds, caller \in Address : Cancel(tx, caller)
    PROVE  BallotsOK'
<1>1. UNCHANGED <<instance, proposal, approval, nullifier, voters>>
  BY DEF CloseLedger, Deposit, Cancel
<1>2. TxIds' = TxIds /\ KeepsElectorate
  BY <1>1 DEF TxIds, KeepsElectorate
<1> QED
  BY <1>1, <1>2, BallotsUndisturbed

LEMMA NextKeepsBallots ==
    ASSUME StateOK, StateOK', BallotsOK, [OpenNext]_vars
    PROVE  BallotsOK'
<1>1. ASSUME NEW tx \in TxIds, NEW signer \in Address
      PROVE  /\ Approve(tx, signer) => BallotsOK'
             /\ ApproveAndExecute(tx, signer) => BallotsOK'
             /\ \A zk \in ZkApproval : ApproveZk(tx, signer, zk) => BallotsOK'
             /\ Cancel(tx, signer) => BallotsOK'
  BY ApproveKeepsBallots, ApproveAndExecuteKeepsBallots,
     ApproveZkKeepsBallots, EnvironmentKeepsBallots
<1>2. ASSUME NEW tx \in TxIds
      PROVE  /\ Execute(tx) => BallotsOK'
             /\ \A zk \in ZkApproval : ApproveZkAnon(tx, zk) => BallotsOK'
  BY ExecuteKeepsBallots, ApproveZkAnonKeepsBallots
<1>3. ASSUME NEW proposer, NEW private
      PROVE  /\ \A t \in Transfers :
                    Propose(proposer, t.target, t.amount, private) => BallotsOK'
             /\ \A pays \in Batches :
                    ProposeBatch(proposer, pays, private) => BallotsOK'
             /\ \A call \in Calls :
                    ProposeCall(proposer, call, private) => BallotsOK'
             /\ \A action \in AdminActions :
                    ProposeAdmin(proposer, action) => BallotsOK'
  BY StoreKeepsBallots DEF Propose, ProposeBatch, ProposeCall, ProposeAdmin
<1>4. \/ CloseLedger
      \/ \E from \in Address, amount \in Deposits : Deposit(from, amount)
      => BallotsOK'
  BY EnvironmentKeepsBallots
<1>5. CASE UNCHANGED vars
  BY <1>5 DEF vars, BallotsOK, VotesAreDistinct, BallotsBacked, TxIds,
      CurrentSet, Electorate, Verified
<1> QED
  BY <1>1, <1>2, <1>3, <1>4, <1>5, VaultAssumption DEF OpenNext, Next

LEMMA OpenBallots == OpenSpec => [](StateOK /\ BallotsOK)
<1>1. Init => BallotsOK
  BY InitBallots
<1>2. StateOK /\ StateOK' /\ BallotsOK /\ [OpenNext]_vars => BallotsOK'
  BY NextKeepsBallots
<1>3. OpenSpec => []StateOK
  <2>1. TypeOK => StateOK
    BY StateIsTyped
  <2> QED
    BY <2>1, OpenTypes, PTL
<1> QED
  BY <1>1, <1>2, <1>3, PTL DEF OpenSpec

LEMMA SafeStates == Spec => [](StateOK /\ BallotsOK)
BY OpenBallots, SpecIsOpen, PTL

(* approval_count never counts a voter twice, on any of the three ways to     *)
(* approve and however they are interleaved.                                  *)
THEOREM VotesCountedOnce == Spec => []VotesAreDistinct
<1>1. BallotsOK => VotesAreDistinct
  BY DEF BallotsOK
<1> QED
  BY <1>1, SafeStates, PTL

(* Each vote on a proposal that is still alive was cast by a member of        *)
(* today's electorate and is recorded where it stops a second one.            *)
THEOREM VotesStayBacked == Spec => []BallotsBacked
<1>1. BallotsOK => BallotsBacked
  BY DEF BallotsOK
<1> QED
  BY <1>1, SafeStates, PTL

------------------------------------------------------------------------------
(* A proposal becomes executed in execute, or in approve_and_execute when the *)
(* approval made it ready, and in no other step.                              *)
LEMMA ApprovingExecutesNothing ==
    ASSUME StateOK, NEW tx \in TxIds, NEW t \in TxIds,
           proposal' = [proposal EXCEPT ![tx] = OneMore(tx)]
    PROVE  ~JustExecuted(t)
BY DEF StateOK, OneMore, Proposal, JustExecuted

LEMMA StoringExecutesNothing ==
    ASSUME StateOK, NEW t \in TxIds, NEW proposer, NEW payload, NEW amount,
           NEW private, StoreProposal(proposer, payload, amount, private)
    PROVE  ~JustExecuted(t)
<1>1. t \in 0..instance.nextTx /\ t # instance.nextTx
  BY DEF StateOK, Instance, TxIds
<1>2. proposal'[t] = proposal[t]
  BY <1>1 DEF StoreProposal, Extend
<1> QED
  BY <1>2 DEF JustExecuted

Settles(tx) ==
    \/ Execute(tx)
    \/ \E signer \in Address :
        /\ ApproveAndExecute(tx, signer)
        /\ Passed(OneMore(tx))
        /\ Unlocked(OneMore(tx), NoteApproval(tx)[tx])
        /\ Settle(tx, OneMore(tx))

LEMMA OnlySettlingExecutes ==
    ASSUME StateOK, [OpenNext]_vars, NEW t \in TxIds, JustExecuted(t)
    PROVE  Settles(t)
<1>1. ASSUME NEW tx \in TxIds, NEW signer \in Address
      PROVE  /\ ~Approve(tx, signer)
             /\ \A zk \in ZkApproval : ~ApproveZk(tx, signer, zk)
             /\ ~Cancel(tx, signer)
  BY ApprovingExecutesNothing DEF Approve, ApproveZk, Cancel, JustExecuted
<1>2. ASSUME NEW tx \in TxIds, NEW zk \in ZkApproval
      PROVE  ~ApproveZkAnon(tx, zk)
  BY ApprovingExecutesNothing DEF ApproveZkAnon
<1>3. ASSUME NEW proposer, NEW private
      PROVE  /\ \A p \in Transfers :
                    ~Propose(proposer, p.target, p.amount, private)
             /\ \A pays \in Batches : ~ProposeBatch(proposer, pays, private)
             /\ \A call \in Calls : ~ProposeCall(proposer, call, private)
             /\ \A action \in AdminActions : ~ProposeAdmin(proposer, action)
  BY StoringExecutesNothing DEF Propose, ProposeBatch, ProposeCall, ProposeAdmin
<1>4. /\ ~CloseLedger
      /\ \A from \in Address, amount \in Deposits : ~Deposit(from, amount)
      /\ ~UNCHANGED vars
  BY DEF CloseLedger, Deposit, vars, JustExecuted
<1>5. ASSUME NEW tx \in TxIds, Execute(tx)
      PROVE  tx = t
  <2>1. proposal[tx] \in Proposal /\ Settle(tx, proposal[tx])
    BY <1>5 DEF StateOK, Execute
  <2> QED
    BY <2>1, SettledProposals DEF JustExecuted
<1>6. ASSUME NEW tx \in TxIds, NEW signer \in Address,
             ApproveAndExecute(tx, signer)
      PROVE  Settles(t)
  <2>1. OneMore(tx) \in Proposal
    BY <1>6, RecordApprovalType DEF ApproveAndExecute
  <2>2. /\ Passed(OneMore(tx))
        /\ Unlocked(OneMore(tx), NoteApproval(tx)[tx])
        /\ Settle(tx, OneMore(tx))
    BY <1>6, ApprovingExecutesNothing DEF ApproveAndExecute
  <2>3. tx = t
    BY <2>1, <2>2, SettledProposals DEF JustExecuted
  <2> QED
    BY <1>6, <2>2, <2>3 DEF Settles
<1> QED
  BY <1>1, <1>2, <1>3, <1>4, <1>5, <1>6, VaultAssumption
  DEF OpenNext, Next, Settles

LEMMA SettlingHasQuorum ==
    ASSUME StateOK, BallotsOK, NEW tx \in TxIds, Settles(tx)
    PROVE  /\ Cardinality(voters'[tx]) >= instance.threshold
           /\ voters'[tx] \subseteq Electorate(tx)
<1>1. CASE Execute(tx)
  <2>1. voters' = voters /\ CurrentSet(tx) /\ Passed(proposal[tx])
    BY <1>1 DEF Execute
  <2> QED
    BY <2>1 DEF Passed, BallotsOK, VotesAreDistinct, BallotsBacked
<1>2. ASSUME NEW signer \in Address, ApproveAndExecute(tx, signer),
             Passed(OneMore(tx)), Settle(tx, OneMore(tx))
      PROVE  /\ Cardinality(voters'[tx]) >= instance.threshold
             /\ voters'[tx] \subseteq Electorate(tx)
  <2>1. /\ CurrentSet(tx) /\ ~Verified(tx)
        /\ signer \in Electorate(tx)
        /\ <<tx, signer>> \notin approval
        /\ voters'[tx] = voters[tx] \cup {signer}
    BY <1>2 DEF ApproveAndExecute, CanApprove, Signer, Verified, Electorate,
                RecordApproval, StateOK
  <2>2. signer \notin voters[tx]
    BY <2>1, UnmarkedNotCounted
  <2>3. Cardinality(voters'[tx]) = proposal[tx].approvalCount + 1
    BY <2>1, <2>2, FS_AddElement DEF BallotsOK, VotesAreDistinct
  <2>4. OneMore(tx).approvalCount = proposal[tx].approvalCount + 1
    BY DEF OneMore, StateOK, Proposal
  <2> QED
    BY <1>2, <2>1, <2>3, <2>4 DEF Passed, BallotsOK, BallotsBacked
<1> QED
  BY <1>1, <1>2 DEF Settles

LEMMA OpenQuorum == OpenSpec => SettledByQuorum
<1> DEFINE Quorate == \A tx \in TxIds : JustExecuted(tx) =>
                /\ Cardinality(voters'[tx]) >= instance.threshold
                /\ voters'[tx] \subseteq Electorate(tx)
<1>1. StateOK /\ BallotsOK /\ [OpenNext]_vars => [Quorate]_vars
  BY OnlySettlingExecutes, SettlingHasQuorum
<1>2. OpenSpec => [][Quorate]_vars
  BY <1>1, OpenBallots, PTL DEF OpenSpec
<1> QED
  BY <1>2 DEF SettledByQuorum

(* Whatever is settled, by execute or by the approval that completes it, has  *)
(* been approved by a threshold of distinct voters who may all still vote.    *)
THEOREM QuorumNeeded == Spec => SettledByQuorum
BY OpenQuorum, SpecIsOpen

------------------------------------------------------------------------------
(* What a proposal is about is written once, when it is filed.                *)
KeepsKinds ==
    /\ TxIds' = TxIds
    /\ \A t \in TxIds : /\ proposal'[t].payload = proposal[t].payload
                        /\ proposal'[t].amount = proposal[t].amount
                        /\ proposal'[t].privateMode = proposal[t].privateMode

Proposes(proposer) ==
    \/ \E private \in Modes :
        \/ \E t \in Transfers :
                Propose(proposer, t.target, t.amount, private)
        \/ \E pays \in Batches : ProposeBatch(proposer, pays, private)
        \/ \E call \in Calls : ProposeCall(proposer, call, private)
    \/ \E action \in AdminActions : ProposeAdmin(proposer, action)

LEMMA ProposalStored ==
    ASSUME StateOK, NEW proposer, NEW payload, NEW amount, NEW private,
           StoreProposal(proposer, payload, amount, private)
    PROVE  /\ \A t \in TxIds' : t \in TxIds \/ t = instance.nextTx
           /\ \A t \in TxIds : proposal'[t] = proposal[t]
           /\ proposal'[instance.nextTx].payload = payload
           /\ proposal'[instance.nextTx].amount = amount
           /\ proposal'[instance.nextTx].privateMode = private
<1>1. /\ instance.nextTx \in Nat
      /\ TxIds' = 0..instance.nextTx
      /\ TxIds = (0..instance.nextTx) \ {instance.nextTx}
  BY DEF StateOK, Instance, StoreProposal, TxIds
<1> QED
  BY <1>1 DEF StoreProposal, Extend

LEMMA ApprovingKeepsKinds ==
    ASSUME StateOK, NEW tx \in TxIds, UNCHANGED instance,
           proposal' = [proposal EXCEPT ![tx] = OneMore(tx)]
    PROVE  KeepsKinds
<1>1. /\ OneMore(tx).payload = proposal[tx].payload
      /\ OneMore(tx).amount = proposal[tx].amount
      /\ OneMore(tx).privateMode = proposal[tx].privateMode
  BY DEF StateOK, OneMore, Proposal
<1> QED
  BY <1>1 DEF StateOK, KeepsKinds, TxIds

LEMMA SettlingKeepsKinds ==
    ASSUME StateOK, NEW tx \in TxIds, NEW p \in Proposal, Settle(tx, p),
           p.payload = proposal[tx].payload, p.amount = proposal[tx].amount,
           p.privateMode = proposal[tx].privateMode
    PROVE  KeepsKinds
<1>1. proposal'[tx].payload = p.payload /\ proposal'[tx].amount = p.amount
  BY DEF StateOK, Settle, Proposal
<1>2. \A t \in TxIds \ {tx} : proposal'[t] = proposal[t]
  BY SettledProposals
<1>3. proposal'[tx].privateMode = p.privateMode /\ TxIds' = TxIds
  BY SettledProposals, SettleType
<1> QED
  BY <1>1, <1>2, <1>3 DEF KeepsKinds

LEMMA OnlyProposingAddsPayloads ==
    ASSUME StateOK, [OpenNext]_vars
    PROVE  KeepsKinds \/ \E proposer \in Proposers : Proposes(proposer)
<1>1. ASSUME NEW tx \in TxIds, NEW signer \in Address
      PROVE  /\ Approve(tx, signer) => KeepsKinds
             /\ \A zk \in ZkApproval : ApproveZk(tx, signer, zk) => KeepsKinds
             /\ Cancel(tx, signer) => KeepsKinds
  BY ApprovingKeepsKinds DEF Approve, ApproveZk, Cancel, KeepsKinds, TxIds
<1>2. ASSUME NEW tx \in TxIds, NEW zk \in ZkApproval
      PROVE  ApproveZkAnon(tx, zk) => KeepsKinds
  BY ApprovingKeepsKinds DEF ApproveZkAnon
<1>3. \/ CloseLedger
      \/ \E from \in Address, amount \in Deposits : Deposit(from, amount)
      \/ UNCHANGED vars
      => KeepsKinds
  BY DEF CloseLedger, Deposit, vars, KeepsKinds, TxIds
<1>4. ASSUME NEW tx \in TxIds, Execute(tx) PROVE KeepsKinds
  BY <1>4, SettlingKeepsKinds DEF Execute, StateOK
<1>5. ASSUME NEW tx \in TxIds, NEW signer \in Address,
             ApproveAndExecute(tx, signer)
      PROVE  KeepsKinds
  <2>1. OneMore(tx) \in Proposal
    BY <1>5, RecordApprovalType DEF ApproveAndExecute
  <2>2. /\ OneMore(tx).payload = proposal[tx].payload
        /\ OneMore(tx).amount = proposal[tx].amount
        /\ OneMore(tx).privateMode = proposal[tx].privateMode
    BY DEF OneMore, StateOK, Proposal
  <2> QED
    BY <1>5, <2>1, <2>2, SettlingKeepsKinds, ApprovingKeepsKinds
    DEF ApproveAndExecute
<1> QED
  BY <1>1, <1>2, <1>3, <1>4, <1>5, VaultAssumption
  DEF OpenNext, Next, Proposes
==============================================================================
