--------------------------- MODULE CoSignersProofs ---------------------------
(* CoSigners for every set of wallets: whatever their pages hold of the vault,*)
(* whichever reads failed and whichever calls are lost, the vault they drive  *)
(* is the vault of VaultInstance, and a note of an approval is never made for *)
(* nothing.                                                                   *)
EXTENDS CoSigners, VaultProofs

------------------------------------------------------------------------------
(* What every step of the vault leaves alone, or retires.                     *)
Onward ==
    /\ TxIds \subseteq TxIds'
    /\ \A t \in TxIds : proposal'[t].privateMode = proposal[t].privateMode
    /\ approval \subseteq approval'
    /\ nullifier \subseteq nullifier'
    /\ KeepsElectorate \/ RetiresAll

LEMMA ProposingIsOnward ==
    ASSUME StateOK, NEW proposer, NEW payload, NEW amount, NEW private,
           StoreProposal(proposer, payload, amount, private)
    PROVE  Onward
<1>1. /\ instance.nextTx \in Nat
      /\ TxIds = 0..(instance.nextTx - 1) /\ TxIds' = 0..instance.nextTx
      /\ KeepsElectorate
  BY DEF StateOK, Instance, StoreProposal, TxIds, KeepsElectorate
<1>2. TxIds \subseteq TxIds'
  BY <1>1
<1>3. \A t \in TxIds : proposal'[t] = proposal[t]
  BY ProposalStored
<1> QED
  BY <1>1, <1>2, <1>3 DEF StoreProposal, Onward

LEMMA ApprovingIsOnward ==
    ASSUME StateOK, NEW tx \in TxIds, UNCHANGED instance,
           proposal' = [proposal EXCEPT ![tx] = OneMore(tx)],
           approval \subseteq approval', nullifier \subseteq nullifier'
    PROVE  Onward
BY ApprovingKeepsKinds DEF KeepsKinds, KeepsElectorate, Onward

LEMMA SettlingIsOnward ==
    ASSUME StateOK, NEW tx \in TxIds, NEW p \in Proposal, Settle(tx, p),
           p.privateMode = proposal[tx].privateMode,
           approval \subseteq approval', nullifier \subseteq nullifier'
    PROVE  Onward
<1>1. /\ TxIds' = TxIds
      /\ \A t \in TxIds : proposal'[t].privateMode = proposal[t].privateMode
  BY SettledProposals, SettleType
<1> QED
  BY <1>1, SettleRetiresOrKeeps DEF Onward

LEMMA EveryStepIsOnward ==
    ASSUME StateOK, [OpenNext]_vars PROVE Onward
<1>1. ASSUME NEW tx \in TxIds, NEW signer \in Address
      PROVE  /\ Approve(tx, signer) => Onward
             /\ \A zk \in ZkApproval : ApproveZk(tx, signer, zk) => Onward
             /\ Cancel(tx, signer) => Onward
  BY ApprovingIsOnward
  DEF Approve, ApproveZk, Cancel, Onward, KeepsElectorate, TxIds
<1>2. ASSUME NEW tx \in TxIds, NEW zk \in ZkApproval
      PROVE  ApproveZkAnon(tx, zk) => Onward
  BY ApprovingIsOnward DEF ApproveZkAnon
<1>3. ASSUME NEW proposer, NEW payload, NEW amount, NEW private
      PROVE  StoreProposal(proposer, payload, amount, private) => Onward
  BY ProposingIsOnward
<1>4. \/ CloseLedger
      \/ \E from \in Address, amount \in Deposits : Deposit(from, amount)
      \/ UNCHANGED vars
      => Onward
  BY DEF CloseLedger, Deposit, vars, Onward, KeepsElectorate, TxIds
<1>5. ASSUME NEW tx \in TxIds, Execute(tx) PROVE Onward
  BY <1>5, SettlingIsOnward DEF Execute, StateOK
<1>6. ASSUME NEW tx \in TxIds, NEW signer \in Address,
             ApproveAndExecute(tx, signer)
      PROVE  Onward
  <2>1. /\ OneMore(tx) \in Proposal
        /\ OneMore(tx).privateMode = proposal[tx].privateMode
    <3>1. OneMore(tx) \in Proposal
      BY <1>6, RecordApprovalType DEF ApproveAndExecute
    <3> QED
      BY <3>1 DEF OneMore, StateOK, Proposal
  <2> QED
    BY <1>6, <2>1, SettlingIsOnward, ApprovingIsOnward DEF ApproveAndExecute
<1> QED
  BY <1>1, <1>2, <1>3, <1>4, <1>5, <1>6, VaultAssumption
  DEF OpenNext, Next, Propose, ProposeBatch, ProposeCall, ProposeAdmin

------------------------------------------------------------------------------
(* The calls under way are about proposals that exist, and the votes among    *)
(* them carry the nullifier of the wallet and of that proposal.               *)
OwnNull(u, tx) == [leaf |-> Leaf[u], tx |-> tx, lift |-> 0]

CallOK(u) ==
    call[u] # Idle =>
        /\ call[u].tx \in TxIds
        /\ call[u].kind \in {"named", "anonymous"} =>
                call[u].zk.nullifier = OwnNull(u, call[u].tx)

WebOK == WebTypeOK /\ \A u \in User : CallOK(u)

(* What happens to the vault is a step of the vault.                          *)
LEMMA PerformedIsAStep ==
    ASSUME WebOK, NEW u \in User, Performed(u)
    PROVE  OpenNext /\ call[u] # Idle
<1>1. call[u] # Idle
  BY DEF Performed, Idle
<1>2. call[u].tx \in TxIds /\ u \in Address
  BY <1>1, CoSignerAssumption DEF WebOK, CallOK
<1>3. call[u].kind \in {"named", "anonymous"} => call[u].zk \in ZkApproval
  BY DEF WebOK, WebTypeOK, Pending, Idle, Kinds
<1> QED
  BY <1>1, <1>2, <1>3 DEF Performed, OpenNext, Next

LEMMA WebStepIsAStep ==
    ASSUME WebOK, [WebNext]_all
    PROVE  [OpenNext]_vars
<1>1. CASE Elsewhere
  BY <1>1 DEF Elsewhere, OpenNext, Next
<1>2. ASSUME NEW u \in User, Lands(u) \/ LandsUnheard(u)
      PROVE  OpenNext
  BY <1>2, PerformedIsAStep DEF Lands, LandsUnheard
<1>3. ASSUME NEW u \in User, NEW tx \in TxIds, Click(u, tx) \/ ClickCancel(u, tx)
      PROVE  UNCHANGED vars
  BY <1>3 DEF Click, ClickApprove, ClickApproveZk, ClickExecute, ClickCancel,
              Submit, chain
<1>4. ASSUME NEW u \in User, Load(u) \/ LoadPartly(u) \/ Fails(u)
      PROVE  UNCHANGED vars
  BY <1>4 DEF Load, LoadPartly, Fails, chain
<1>5. CASE UNCHANGED all
  BY <1>5 DEF all
<1> QED
  BY <1>1, <1>2, <1>3, <1>4, <1>5 DEF WebNext

------------------------------------------------------------------------------
(* The page's copies, its calls and its notes stay well-formed.               *)
PageOK(u) ==
    page[u] # NoPage =>
        /\ page[u].config \in Instance
        /\ DOMAIN page[u].proposal \subseteq TxIds
        /\ DOMAIN page[u].unlock = DOMAIN page[u].proposal

LEMMA GlanceType ==
    ASSUME TypeOK, NEW failed \in SUBSET Reads,
           NEW listed \in SUBSET Listed, NEW known \in SUBSET Listed
    PROVE  /\ Glance(failed, listed, known).config \in Instance
           /\ DOMAIN Glance(failed, listed, known).proposal = listed
           /\ DOMAIN Glance(failed, listed, known).unlock = listed
           /\ listed \subseteq TxIds
<1> DEFINE policy      == IF "policy" \in failed THEN NoPolicy ELSE instance.policy
           zk          == IF "zk" \in failed THEN NoZk ELSE instance.zk
           commitments == IF "commitments" \in failed THEN {}
                          ELSE instance.commitments
           retired     == IF "retired" \in failed THEN 0 ELSE instance.retired
           seen        == [instance EXCEPT !.policy = policy, !.zk = zk,
                                !.commitments = commitments, !.retired = retired]
<1>1. Glance(failed, listed, known).config = seen
  BY DEF Glance
<1>2. /\ policy \in Policy /\ zk \in ZkConfig \cup {NoZk}
      /\ commitments \in SUBSET Commitment /\ retired \in Nat
  <2>1. NoPolicy \in Policy
    BY WidthAssumption DEF U32, NoPolicy, Policy
  <2> QED
    BY <2>1 DEF TypeOK, Instance
<1> HIDE DEF policy, zk, commitments, retired
<1>3. seen \in Instance
  BY <1>2 DEF TypeOK, Instance
<1> HIDE DEF seen
<1> QED
  BY <1>1, <1>3 DEF Glance, Listed

LEMMA VoteProofType ==
    ASSUME WebOK, NEW u \in User, NEW tx \in TxIds, page[u] # NoPage
    PROVE  VoteProof(u, tx) \in ZkApproval
<1>1. page[u].config \in Instance /\ tx \in Nat
  BY DEF WebOK, WebTypeOK, TypeOK, Instance, TxIds
<1>2. OwnNull(u, tx) \in Nullifier
  BY <1>1, CoSignerAssumption DEF OwnNull, Nullifier
<1>3. /\ page[u].config.commitments \in SUBSET Commitment
      /\ IF page[u].config.zk = NoZk THEN Derived \in VaultId
         ELSE page[u].config.zk.vaultId \in VaultId
  BY <1>1, CoSignerAssumption DEF Instance, ZkConfig
<1> QED
  BY <1>1, <1>2, <1>3
  DEF VoteProof, ZkApproval, PublicInputs, OwnNull

LEMMA ClickingKeepsCalls ==
    ASSUME WebOK, NEW u \in User, NEW tx \in TxIds,
           Click(u, tx) \/ ClickCancel(u, tx)
    PROVE  /\ call' \in [User -> Pending]
           /\ (\A w \in User : CallOK(w))'
           /\ UNCHANGED <<vars, page, marked>>
<1>1. UNCHANGED <<vars, page, marked>> /\ TxIds' = TxIds /\ tx \in Nat
  BY DEF Click, ClickApprove, ClickApproveZk, ClickExecute, ClickCancel,
         Submit, chain, vars, TxIds, WebOK, WebTypeOK, TypeOK, Instance
<1>2. ASSUME NEW kind \in Kinds, Submit(u, tx, kind)
      PROVE  /\ call' \in [User -> Pending]
             /\ (\A w \in User : CallOK(w))'
  <2>1. [kind |-> kind, tx |-> tx] \in Pending
    BY <1>1 DEF Pending
  <2> QED
    BY <1>1, <1>2, <2>1 DEF Submit, WebOK, WebTypeOK, CallOK, Kinds
<1>3. CASE ClickApproveZk(u, tx)
  <2> DEFINE kind == IF page[u].config.zk = NoZk THEN "named" ELSE "anonymous"
             new == [kind |-> kind, tx |-> tx, zk |-> VoteProof(u, tx)]
  <2>1. page[u] # NoPage /\ call' = [call EXCEPT ![u] = new]
    BY <1>3 DEF ClickApproveZk, CanVote, Shows
  <2>2. new \in Pending
    BY <1>1, <2>1, VoteProofType DEF Pending
  <2>3. VoteProof(u, tx).nullifier = OwnNull(u, tx)
    BY DEF VoteProof, OwnNull
  <2>4. /\ call' \in [User -> Pending]
        /\ call'[u] = new
        /\ \A w \in User \ {u} : call'[w] = call[w]
    <3> HIDE DEF new
    <3> QED
      BY <2>1, <2>2 DEF WebOK, WebTypeOK
  <2>5. CallOK(u)'
    BY <1>1, <2>3, <2>4 DEF CallOK
  <2>6. \A w \in User \ {u} : CallOK(w)'
    BY <1>1, <2>4 DEF WebOK, CallOK
  <2> QED
    BY <1>1, <2>4, <2>5, <2>6
<1> QED
  BY <1>1, <1>2, <1>3 DEF Click, ClickApprove, ClickExecute, ClickCancel, Kinds

LEMMA AnsweringKeepsCalls ==
    ASSUME WebOK, NEW u \in User, call' = [call EXCEPT ![u] = Idle],
           TxIds \subseteq TxIds'
    PROVE  /\ call' \in [User -> Pending]
           /\ (\A w \in User : CallOK(w))'
<1>1. /\ call' \in [User -> Pending] /\ call'[u] = Idle
      /\ \A w \in User \ {u} : call'[w] = call[w]
  BY DEF WebOK, WebTypeOK, Pending
<1> QED
  BY <1>1 DEF WebOK, CallOK

LEMMA NextKeepsWeb ==
    ASSUME WebOK, [WebNext]_all
    PROVE  WebOK'
<1>1. [OpenNext]_vars /\ TypeOK /\ TypeOK' /\ TxIds \subseteq TxIds'
  BY WebStepIsAStep, NextKeepsTypes, StateIsTyped, EveryStepIsOnward
  DEF WebOK, WebTypeOK, Onward
<1>2. \A u \in User : PageOK(u)
  BY DEF WebOK, WebTypeOK, PageOK
<1>3. UNCHANGED page => \A u \in User : PageOK(u)'
  BY <1>1, <1>2 DEF PageOK
<1>4. ASSUME \A u \in User : PageOK(u)', \A u \in User : CallOK(u)',
             call' \in [User -> Pending], marked' \subseteq TxIds' \X User
      PROVE  WebOK'
  BY <1>1, <1>4 DEF WebOK, WebTypeOK, PageOK
<1>5. CASE UNCHANGED web
  BY <1>1, <1>3, <1>4, <1>5 DEF web, WebOK, WebTypeOK, CallOK
<1>6. ASSUME NEW u \in User, Load(u) \/ LoadPartly(u) PROVE WebOK'
  <2>1. UNCHANGED <<vars, call, marked>> /\ TxIds' = TxIds
    BY <1>6 DEF Load, LoadPartly, chain, vars, TxIds
  <2>2. PICK failed \in SUBSET Reads, listed \in SUBSET Listed, known \in SUBSET Listed :
            page' = [page EXCEPT ![u] = Glance(failed, listed, known)]
    BY <1>6, CoSignerAssumption DEF Load, LoadPartly, Answered
  <2>3. \A w \in User : PageOK(w)'
    <3> DEFINE seen == Glance(failed, listed, known)
    <3>1. /\ seen.config \in Instance /\ DOMAIN seen.proposal \subseteq TxIds
          /\ DOMAIN seen.unlock = DOMAIN seen.proposal
      BY <1>1, GlanceType
    <3> HIDE DEF seen
    <3>2. \A w \in User : page'[w] = seen \/ page'[w] = page[w]
      BY <2>2 DEF seen
    <3> QED
      BY <1>2, <2>1, <3>1, <3>2 DEF PageOK
  <2> QED
    BY <1>4, <2>1, <2>3 DEF WebOK, WebTypeOK, CallOK
<1>7. ASSUME NEW u \in User, NEW tx \in TxIds, Click(u, tx) \/ ClickCancel(u, tx)
      PROVE  WebOK'
  BY <1>1, <1>3, <1>4, <1>7, ClickingKeepsCalls DEF WebOK, WebTypeOK
<1>8. ASSUME NEW u \in User, Lands(u) \/ LandsUnheard(u) \/ Fails(u)
      PROVE  WebOK'
  <2>1. call' = [call EXCEPT ![u] = Idle] /\ UNCHANGED page
    BY <1>8 DEF Lands, LandsUnheard, Fails
  <2>2. marked' \subseteq TxIds' \X User
    <3>1. CASE UNCHANGED marked
      BY <1>1, <3>1 DEF WebOK, WebTypeOK
    <3>2. CASE Performed(u) /\ marked' = marked \cup {<<call[u].tx, u>>}
      <4>1. call[u].tx \in TxIds
        BY <3>2, PerformedIsAStep DEF WebOK, CallOK
      <4> QED
        BY <1>1, <3>2, <4>1 DEF WebOK, WebTypeOK
    <3> QED
      BY <1>8, <3>1, <3>2 DEF Lands, LandsUnheard, Fails
  <2> QED
    BY <1>1, <1>3, <1>4, <2>1, <2>2, AnsweringKeepsCalls
<1>9. Elsewhere \/ UNCHANGED all => UNCHANGED web
  BY DEF Elsewhere, all
<1> QED
  BY <1>5, <1>6, <1>7, <1>8, <1>9 DEF WebNext

LEMMA InitWeb == Init /\ WebInit => WebOK
<1>1. Init => TypeOK
  BY InitTypeOK
<1> QED
  BY <1>1 DEF WebInit, WebOK, WebTypeOK, CallOK, Pending

LEMMA WebStates == WebSpec => []WebOK
<1>1. WebOK /\ [WebNext]_all => WebOK'
  BY NextKeepsWeb
<1> QED
  BY <1>1, InitWeb, PTL DEF WebSpec

(* The vault, the copies the pages hold, their calls and their notes are well *)
(* formed, however the calls of several people interleave.                    *)
THEOREM CoSignersTypeCorrect == WebSpec => []WebTypeOK
<1>1. WebOK => WebTypeOK
  BY DEF WebOK
<1> QED
  BY <1>1, WebStates, PTL

(* Several pages on stale copies are no more than callers of the vault: their *)
(* runs are its runs, under whatever proofs they submit.                      *)
THEOREM PagesRunTheVault == WebSpec => OpenSpec
<1>1. WebOK /\ [WebNext]_all => [OpenNext]_vars
  BY WebStepIsAStep
<1> QED
  BY <1>1, WebStates, PTL DEF WebSpec, OpenSpec

(* So nothing a page decides from a stale copy, and no call that is lost or   *)
(* lands unheard, settles a proposal without a threshold of the electorate.   *)
THEOREM PagesNeedAQuorum == WebSpec => []VotesAreDistinct /\ SettledByQuorum
<1>1. BallotsOK => VotesAreDistinct
  BY DEF BallotsOK
<1> QED
  BY <1>1, PagesRunTheVault, OpenBallots, OpenQuorum, PTL

------------------------------------------------------------------------------
(* A note that a wallet has approved a proposal is only made when the vault   *)
(* holds the entry that refuses its vote a second time.                       *)
NotesOK ==
    \A tx \in TxIds, u \in User :
        <<tx, u>> \in marked =>
            IF proposal[tx].privateMode
            THEN OwnNull(u, tx) \in nullifier
            ELSE <<tx, u>> \in approval

LEMMA VoteLeavesItsEntry ==
    ASSUME WebOK, NEW u \in User, Performed(u), call[u].kind \in Votes
    PROVE  IF proposal[call[u].tx].privateMode
           THEN OwnNull(u, call[u].tx) \in nullifier'
           ELSE <<call[u].tx, u>> \in approval'
<1>1. CASE call[u].kind \in {"approve", "settle"}
  BY <1>1 DEF Performed, Approve, ApproveAndExecute, CanApprove
<1>2. CASE call[u].kind \in {"named", "anonymous"}
  <2>1. call[u] # Idle /\ call[u].zk.nullifier = OwnNull(u, call[u].tx)
    BY <1>2, PerformedIsAStep DEF WebOK, CallOK
  <2> QED
    BY <1>2, <2>1 DEF Performed, ApproveZk, ApproveZkAnon, CanApprovePrivately
<1> QED
  BY <1>1, <1>2 DEF Votes

LEMMA NextKeepsNotes ==
    ASSUME WebOK, NotesOK, [WebNext]_all PROVE NotesOK'
<1>1. StateOK /\ Onward
  BY WebStepIsAStep, StateIsTyped, EveryStepIsOnward DEF WebOK, WebTypeOK
<1>2. ASSUME NEW tx \in TxIds', NEW u \in User, <<tx, u>> \in marked
      PROVE  /\ tx \in TxIds
             /\ IF proposal'[tx].privateMode
                THEN OwnNull(u, tx) \in nullifier'
                ELSE <<tx, u>> \in approval'
  <2>1. tx \in TxIds
    BY <1>2 DEF WebOK, WebTypeOK
  <2> QED
    BY <1>1, <1>2, <2>1 DEF NotesOK, Onward
<1>3. CASE UNCHANGED marked
  BY <1>2, <1>3 DEF NotesOK
<1>4. ASSUME NEW u \in User, Performed(u), call[u].kind \in Votes,
             marked' = marked \cup {<<call[u].tx, u>>}
      PROVE  NotesOK'
  <2>1. call[u].tx \in TxIds
    BY <1>4, PerformedIsAStep DEF WebOK, CallOK
  <2>2. proposal'[call[u].tx].privateMode = proposal[call[u].tx].privateMode
    BY <1>1, <2>1 DEF Onward
  <2> QED
    BY <1>2, <1>4, <2>2, VoteLeavesItsEntry DEF NotesOK
<1>5. ASSUME NEW u \in User, Lands(u) \/ LandsUnheard(u) \/ Fails(u)
      PROVE  NotesOK'
  BY <1>3, <1>4, <1>5 DEF Lands, LandsUnheard, Fails
<1>6. ASSUME NEW u \in User, NEW tx \in TxIds,
             Click(u, tx) \/ ClickCancel(u, tx)
      PROVE  UNCHANGED marked
  BY <1>6 DEF Click, ClickApprove, ClickApproveZk, ClickExecute, ClickCancel
<1>7. Elsewhere \/ UNCHANGED all => UNCHANGED marked
  BY DEF Elsewhere, all, web
<1>8. ASSUME NEW u \in User, Load(u) \/ LoadPartly(u) PROVE UNCHANGED marked
  BY <1>8 DEF Load, LoadPartly
<1> QED
  BY <1>3, <1>5, <1>6, <1>7, <1>8 DEF WebNext

LEMMA NotedStates == WebSpec => [](WebOK /\ NotesOK)
<1>1. Init /\ WebInit => NotesOK
  BY DEF WebInit, NotesOK
<1>2. WebOK /\ NotesOK /\ [WebNext]_all => NotesOK'
  BY NextKeepsNotes
<1> QED
  BY <1>1, <1>2, WebStates, PTL DEF WebSpec

(* Every proposal on which a vote can still be counted is in the count that   *)
(* a page shows its owner once all its reads have answered, whichever failed  *)
(* before and whichever of its calls were lost or landed unheard              *)
(* (markApproved in doApprove and doApproveZk).                               *)
THEOREM NothingIsMissed == WebSpec => []NothingMissed
<1>1. WebOK /\ NotesOK => NothingMissed
  <2> SUFFICES ASSUME WebOK, NotesOK, NEW u \in User, page[u] # NoPage,
                      Current(u), NEW tx \in Listed, NeedsVote(u, tx)
               PROVE  tx \in Awaiting(u)
    BY DEF NothingMissed
  <2>1. /\ tx \in TxIds /\ Open(tx) /\ CurrentSet(tx)
        /\ instance.retired \in Nat
    BY DEF NeedsVote, CanApprove, Listed, WebOK, WebTypeOK, TypeOK, Instance
  <2>2. <<tx, u>> \notin marked
    BY <2>1 DEF NotesOK, NeedsVote, CanApprove, OwnNull
  <2>3. /\ DOMAIN page[u].proposal = Listed
        /\ OnPage(u, tx) = proposal[tx]
        /\ page[u].config = instance
    <3>1. page[u] = Glance({}, Listed, Listed)
      BY DEF Current, Answered
    <3> DEFINE zk == instance.zk
               seen == [instance EXCEPT !.policy = instance.policy, !.zk = zk,
                            !.commitments = instance.commitments,
                            !.retired = instance.retired]
    <3>2. /\ page[u].proposal = [t \in Listed |-> proposal[t]]
          /\ page[u].config = seen
      BY <3>1 DEF Glance
    <3>3. seen = instance
      BY DEF WebOK, WebTypeOK, TypeOK, Instance
    <3> HIDE DEF seen
    <3> QED
      BY <3>2, <3>3 DEF OnPage
  <2> QED
    BY <2>1, <2>2, <2>3 DEF Awaiting, Stale, Open, CurrentSet, TxIds
<1> QED
  BY <1>1, NotedStates, PTL

==============================================================================
