------------------------------ MODULE CoSigners ------------------------------
(* Several people, each with the page (web/app/page.tsx) open on one vault,   *)
(* approve, settle, execute and cancel its proposals.  Each decides from the  *)
(* copy of the vault their page last loaded; what they decided is judged by   *)
(* the contract as it is when the call arrives.  The contract is              *)
(* VaultInstance, unchanged.  A load is one step here (VaultView has its      *)
(* stages), whichever of its reads fail; so is a call under way (TxClient has *)
(* its phases).                                                               *)
EXTENDS VaultInstance

(* The reads of loadData that answer with a default when they fail.           *)
Reads == {"proposals", "statuses", "policy", "zk", "commitments", "retired"}

CONSTANTS
    User,           \* wallets that have the page open
    Leaf,           \* the commitment each of them can prove
    Derived,        \* secretFromSeed(vaultAddress)
    NoPage,         \* nothing is loaded yet
    Lapses,         \* bound: the reads that may fail together in one load
    MaxShown        \* getProposals: max = 16

ASSUME CoSignerAssumption ==
    /\ User \subseteq Address
    /\ Leaf \in [User -> Commitment]
    /\ Derived \in VaultId
    /\ Lapses \subseteq SUBSET Reads
    /\ MaxShown \in Nat

VARIABLES
    page,           \* what each user's page holds of the vault
    call,           \* the call each user's page awaits
    marked          \* localStorage: the pairs markApproved has noted

web  == <<page, call, marked>>
all  == <<vars, web>>
chain == vars

(* The vault as loadData reads it, where the reads in failed have failed: the *)
(* proposals up to the first that did not come, the status of those that is   *)
(* known, and what the decisions below look at.  getPolicy then answers with  *)
(* OPEN_POLICY, getZkConfig with null, getSignerCommitments with no leaves,   *)
(* getRetiredBefore with 0.                                                   *)
Listed == {tx \in TxIds : tx < MaxShown}
Glance(failed, listed, known) ==
    [ledger |-> ledger,
     config |-> [instance EXCEPT
        !.policy = IF "policy" \in failed THEN NoPolicy ELSE @,
        !.zk = IF "zk" \in failed THEN NoZk ELSE @,
        !.commitments = IF "commitments" \in failed THEN {} ELSE @,
        !.retired = IF "retired" \in failed THEN 0 ELSE @],
     proposal |-> [tx \in listed |-> proposal[tx]],
     cancelled |-> cancelled \cap known,
     unlock |-> [tx \in listed |->
        IF tx \in known THEN UnlockAt(proposal[tx], lastApproval[tx]) ELSE 0],
     held |-> balance[Vault]]
Answered   == Glance({}, Listed, Listed)
Current(u) == page[u] = Answered

Idle  == [kind |-> "none"]
Kinds == {"approve", "settle", "execute", "cancel"}
Pending ==
    {Idle}
    \cup [kind : Kinds, tx : Nat]
    \cup [kind : {"named", "anonymous"}, tx : Nat, zk : ZkApproval]

WebTypeOK ==
    /\ TypeOK
    /\ \A u \in User : page[u] # NoPage =>
            /\ page[u].config \in Instance
            /\ DOMAIN page[u].proposal \subseteq TxIds
            /\ DOMAIN page[u].unlock = DOMAIN page[u].proposal
    /\ call \in [User -> Pending]
    /\ marked \subseteq TxIds \X User

WebInit ==
    /\ page = [u \in User |-> NoPage]
    /\ call = [u \in User |-> Idle]
    /\ marked = {}

------------------------------------------------------------------------------
(* What a page makes of its copy.                                             *)
Shows(u, tx)  == page[u] # NoPage /\ tx \in DOMAIN page[u].proposal
OnPage(u, tx) == page[u].proposal[tx]
Stale(u, tx)  == ~OnPage(u, tx).executed /\ tx < page[u].config.retired
Closed(u, tx) ==
    OnPage(u, tx).executed \/ tx \in page[u].cancelled \/ Stale(u, tx)
Ready(u, tx)  == OnPage(u, tx).approvalCount >= page[u].config.threshold

(* executeBlocker: it knows the lock, the limit per transaction and the       *)
(* balance; the spending cap and the allowlist it does not.                   *)
Locked(u, tx)    == page[u].ledger < page[u].unlock[tx]
OverLimit(u, tx) ==
    /\ page[u].config.policy.maxPerTx > 0
    /\ OnPage(u, tx).amount > page[u].config.policy.maxPerTx
TooPoorOrEmptied(u, tx) == page[u].held <= OnPage(u, tx).amount     \* mutant
NeverTooPoor(u, tx) == FALSE        \* mutant: the balance is not looked at
TooPoor(u, tx) == page[u].held < OnPage(u, tx).amount
Blocked(u, tx) ==
    tx \in page[u].cancelled \/ Locked(u, tx) \/ OverLimit(u, tx) \/ TooPoor(u, tx)

(* The Dashboard's count of what is awaiting this wallet's approval.          *)
Awaiting(u) ==
    {tx \in DOMAIN page[u].proposal :
        /\ ~OnPage(u, tx).executed /\ ~Stale(u, tx)
        /\ <<tx, u>> \notin marked}

------------------------------------------------------------------------------
(* Every read of loadData answers.                                            *)
Load(u) ==
    /\ ~Current(u)
    /\ page' = [page EXCEPT ![u] = Answered]
    /\ UNCHANGED <<chain, call, marked>>

(* Some do not, and the page goes on with what stands in for them.            *)
LoadPartly(u) ==
    /\ \E failed \in Lapses \ {{}}, listed \in SUBSET Listed, known \in SUBSET Listed :
        /\ \A tx \in listed : 0..tx \subseteq listed
        /\ listed # Listed => "proposals" \in failed
        /\ known # listed => known \subseteq listed /\ "statuses" \in failed
        /\ page' = [page EXCEPT ![u] = Glance(failed, listed, known)]
    /\ UNCHANGED <<chain, call, marked>>

(* The buttons of a card, shown while the proposal is open on the page; busy  *)
(* disables them while a call of this page is awaited, the overlay of a proof *)
(* covers them.                                                               *)
Submit(u, tx, kind) ==
    /\ call[u] = Idle
    /\ Shows(u, tx)
    /\ call' = [call EXCEPT ![u] = [kind |-> kind, tx |-> tx]]
    /\ UNCHANGED <<chain, page>>

CanVote(u, tx) ==
    /\ Shows(u, tx) /\ ~Closed(u, tx) /\ ~Ready(u, tx)
    /\ <<tx, u>> \notin marked
    /\ u \in page[u].config.signers

(* Mutant: the approval is noted when the button is pressed.                  *)
ClickApproveMarked(u, tx) ==
    /\ CanVote(u, tx)
    /\ ~OnPage(u, tx).privateMode
    /\ marked' = marked \cup {<<tx, u>>}
    /\ Submit(u, tx, "approve")

(* doApprove: approve and settle in one transaction when this approval looks  *)
(* like the last one needed with nothing in the way.                          *)
ClickApprove(u, tx) ==
    /\ CanVote(u, tx)
    /\ ~OnPage(u, tx).privateMode
    /\ Submit(u, tx,
            IF /\ OnPage(u, tx).approvalCount + 1 >= page[u].config.threshold
               /\ ~Blocked(u, tx)
            THEN "settle" ELSE "approve")
    /\ UNCHANGED marked

(* doApproveZk: a proof about the leaves and the id on the page.  Whether the *)
(* wallet names itself depends on the ZkConfig of the page too.               *)
VoteProof(u, tx) ==
    LET null   == [leaf |-> Leaf[u], tx |-> tx, lift |-> 0]
        domain == IF page[u].config.zk = NoZk THEN Derived
                  ELSE page[u].config.zk.vaultId
    IN  [proof |-> "honest", nullifier |-> null,
         inputs |-> [vaultId |-> domain, txId |-> tx,
                     root |-> page[u].config.commitments, nullifier |-> null]]

ClickApproveZk(u, tx) ==
    /\ call[u] = Idle
    /\ CanVote(u, tx)
    /\ OnPage(u, tx).privateMode
    /\ Leaf[u] \in page[u].config.commitments
    /\ call' = [call EXCEPT ![u] =
            [kind |-> IF page[u].config.zk = NoZk THEN "named" ELSE "anonymous",
             tx |-> tx, zk |-> VoteProof(u, tx)]]
    /\ UNCHANGED <<chain, page, marked>>

ClickExecute(u, tx) ==
    /\ Shows(u, tx) /\ ~Closed(u, tx) /\ Ready(u, tx)
    /\ ~Blocked(u, tx)
    /\ Submit(u, tx, "execute")
    /\ UNCHANGED marked

(* The proposer may withdraw it; a retired one may be cleared by any signer.  *)
ClickCancel(u, tx) ==
    /\ Shows(u, tx)
    /\ ~OnPage(u, tx).executed /\ tx \notin page[u].cancelled
    /\ \/ u = OnPage(u, tx).proposer
       \/ Stale(u, tx) /\ u \in page[u].config.signers
    /\ Submit(u, tx, "cancel")
    /\ UNCHANGED marked

------------------------------------------------------------------------------
(* The call arrives, with what it does to the contract at that moment.        *)
Performed(u) ==
    \/ call[u].kind = "approve"   /\ Approve(call[u].tx, u)
    \/ call[u].kind = "settle"    /\ ApproveAndExecute(call[u].tx, u)
    \/ call[u].kind = "execute"   /\ Execute(call[u].tx)
    \/ call[u].kind = "cancel"    /\ Cancel(call[u].tx, u)
    \/ call[u].kind = "named"     /\ ApproveZk(call[u].tx, u, call[u].zk)
    \/ call[u].kind = "anonymous" /\ ApproveZkAnon(call[u].tx, call[u].zk)

Votes == {"approve", "settle", "named", "anonymous"}

Lands(u) ==
    /\ Performed(u)
    /\ marked' = IF call[u].kind \in Votes
                 THEN marked \cup {<<call[u].tx, u>>} ELSE marked
    /\ call' = [call EXCEPT ![u] = Idle]
    /\ UNCHANGED page

(* It arrives, but the page was told "may have gone through" or an error.     *)
LandsUnheard(u) ==
    /\ Performed(u)
    /\ call' = [call EXCEPT ![u] = Idle]
    /\ UNCHANGED <<page, marked>>

(* The wallet or the contract refuses, or the network loses it.               *)
Fails(u) ==
    /\ call[u] # Idle
    /\ call' = [call EXCEPT ![u] = Idle]
    /\ UNCHANGED <<chain, page, marked>>

(* What else happens to the vault: proposals, ledgers and deposits.           *)
Elsewhere ==
    /\ \/ CloseLedger
       \/ \E from \in Address, amount \in Deposits : Deposit(from, amount)
       \/ \E proposer \in Proposers, private \in Modes, t \in Transfers :
            Propose(proposer, t.target, t.amount, private)
       \/ \E proposer \in Proposers, action \in AdminActions :
            ProposeAdmin(proposer, action)
    /\ UNCHANGED web

Click(u, tx) ==
    ClickApprove(u, tx) \/ ClickApproveZk(u, tx) \/ ClickExecute(u, tx)

WebNext ==
    \/ Elsewhere
    \/ \E u \in User :
        \/ Load(u) \/ LoadPartly(u)
        \/ \E tx \in TxIds : Click(u, tx) \/ ClickCancel(u, tx)
        \/ Lands(u) \/ LandsUnheard(u) \/ Fails(u)

WebSpec == Init /\ WebInit /\ [][WebNext]_all

(* Pages are refreshed, now and then with all reads answered; whoever sees a  *)
(* button that moves the proposal on presses it, every call is answered, and  *)
(* a call that would be accepted is not lost for ever.  Nobody has to         *)
(* propose, to cancel or to send money.                                       *)
WebFairness ==
    \A u \in User :
        /\ WF_all(Load(u))
        /\ WF_all(\E tx \in TxIds : Click(u, tx))
        /\ WF_all(Fails(u))
        /\ SF_all(Lands(u))

------------------------------------------------------------------------------
IsPayment(tx) == proposal[tx].payload.kind = "payment"

(* Could u's vote be counted on tx as the vault stands?                       *)
NeedsVote(u, tx) ==
    \/ CanApprove(tx, u)
    \/ /\ instance.zk # NoZk
       /\ Signer(u)
       /\ Open(tx) /\ CurrentSet(tx) /\ proposal[tx].privateMode
       /\ Leaf[u] \in instance.zk.root
       /\ [leaf |-> Leaf[u], tx |-> tx, lift |-> 0] \notin nullifier

(* "Does anything need me?": a page that has read all of the vault as it is   *)
(* counts every proposal on which this wallet's vote can still be counted,    *)
(* however its calls ended that far and whatever it decided on earlier, on    *)
(* reads that failed: the local note of an approval is never made for nothing.*)
NothingMissed ==
    \A u \in User :
        page[u] # NoPage /\ Current(u) =>
            \A tx \in Listed : NeedsVote(u, tx) => tx \in Awaiting(u)

(* A payment decided about on a page that has read all of the vault as it is  *)
(* is one the contract would accept, as long as neither the cap nor the       *)
(* allowlist is in force and no unheard approval stands behind the wallet.    *)
JustClicked(u) == call[u] = Idle /\ call'[u] # Idle
FreshDecisionLands ==
    [][\A u \in User :
            /\ JustClicked(u) /\ Current(u)
            /\ IsPayment(call'[u].tx)
            /\ instance.policy.spendingCap = 0 /\ ~instance.policy.allowlistOnly
            /\ call'[u].kind \in Votes => NeedsVote(u, call'[u].tx)
            => (ENABLED Performed(u))']_all

(* Whoever approved first, however stale the pages and whichever calls were   *)
(* lost: a payment the vault can afford is settled or withdrawn in the end.   *)
Affordable(tx) == balance[Vault] >= proposal[tx].amount
Settleable(tx) ==
    /\ tx \in Listed
    /\ IsPayment(tx) /\ Affordable(tx)
    /\ Open(tx) /\ CurrentSet(tx)
WaitsNoLonger(tx) == Settleable(tx) ~> ~Settleable(tx)
PaymentsSettle == \A tx \in 0..(MaxTx - 1) : WaitsNoLonger(tx)

------------------------------------------------------------------------------
(* Sentences of the code that TLC refutes; the README says how.               *)
(* doApproveZk: "submit the nullifier on-chain (identity hidden)", and "with  *)
(* verification on, the proof authorizes itself and no wallet has to name     *)
(* itself": on a vault that verifies proofs, no approval of a private         *)
(* proposal is entered under an address.                                      *)
ProversStayAnonymous ==
    [][\A tx \in TxIds :
            /\ Verified(tx)
            /\ proposal'[tx].approvalCount > proposal[tx].approvalCount
            => approval' = approval]_all

(* doApprove: "The blocker is checked here rather than left to the contract"  *)
(* because a guard that rejects takes the approval down with it.              *)
ApprovalIsNotLost ==
    [][\A u \in User :
            /\ JustClicked(u) /\ Current(u)
            /\ call'[u].kind = "settle" /\ NeedsVote(u, call'[u].tx)
            => (ENABLED Performed(u))']_all

(* The toast: "Proposal #n met its threshold and executed in the same         *)
(* transaction."                                                              *)
SettledMeansExecuted ==
    [][\A u \in User :
            /\ call[u].kind = "settle"
            /\ Cardinality(marked') > Cardinality(marked)
            /\ <<call[u].tx, u>> \in marked'
            => proposal'[call[u].tx].executed]_all

(* approveAndExecute "removes the state where a payment everyone agreed on    *)
(* sits waiting for a click".                                                 *)
NobodyWaitsForAClick ==
    \A tx \in TxIds :
        ~(IsPayment(tx) /\ Open(tx) /\ CurrentSet(tx) /\ Affordable(tx)
            /\ ~proposal[tx].privateMode /\ Passed(proposal[tx]))

(* "... so 'still needs me' is answerable".                                   *)
AwaitingNeedsMe ==
    \A u \in User :
        page[u] # NoPage /\ Current(u) => \A tx \in Awaiting(u) : Open(tx)

(* "The one question a multi-sig dashboard exists to answer is 'does anything *)
(* need me?'": whatever needs this wallet is in the count.                    *)
EverythingIsListed ==
    \A u \in User :
        page[u] # NoPage /\ Current(u) =>
            \A tx \in TxIds : NeedsVote(u, tx) => tx \in Awaiting(u)
==============================================================================
