----------------------------- MODULE MCCoSigners -----------------------------
(* Two or three people with the page open on a vault.                         *)
EXTENDS CoSigners, TLC

CONSTANTS alice, bob, carol, payee, vault, leafA, leafB, v1

VARIABLE story

TwoOfThree == {[owner |-> alice, signers |-> <<alice, bob, carol>>,
                threshold |-> 2, wasm |-> v1]}

Root   == {leafA, leafB}
Leaves == [u \in User |-> IF u = alice THEN leafA ELSE leafB]

Pay(n)      == [target |-> payee, amount |-> n]
Payments    == {Pay(1), Pay(2)}
Publication ==
    {[type |-> "SetZkConfig", config |-> [vaultId |-> 1, root |-> Root]]}

(* Reads that fail together: those of the list, of its status or of the switch*)
(* for verification alone, or all that a vault from before the guards lacks.  *)
Failing == {{"proposals"}, {"statuses"}, {"zk"}, Reads \ {"proposals"}}

Founded(i) ==
    /\ ledger = 0
    /\ instance = i
    /\ proposal = <<>> /\ approval = {} /\ nullifier = {} /\ cancelled = {}
    /\ lastApproval = <<>> /\ window = NoWindow
    /\ balance = [a \in Address |-> Endowment]
    /\ voters = <<>> /\ passedAt = <<>>

Plain == [owner |-> alice, signers |-> {alice, bob}, threshold |-> 2,
          nextTx |-> 0, policy |-> NoPolicy, allowed |-> {}, callAllowed |-> {},
          zk |-> NoZk, commitments |-> {}, retired |-> 0,
          thresholdChanged |-> 0, wasm |-> v1]
UnderLock  == [Plain EXCEPT !.policy = [NoPolicy EXCEPT !.timelock = 1]]
LeavesOnly == [Plain EXCEPT !.commitments = Root, !.threshold = 1]
Verifying  == [LeavesOnly EXCEPT !.zk = [vaultId |-> 1, root |-> Root]]

OnlyOpen(users) ==
    \A u \in User \ users : page'[u] = NoPage
AllAnswered(users) ==
    \A u \in users : page'[u] = page[u] \/ page'[u] = Answered
Lists(u) == DOMAIN page'[u].proposal = Listed /\ Listed # {}
IsOf(p, n, private) ==
    p.payload.kind = "payment" /\ p.amount = n /\ p.privateMode = private

(* One payment is settled or withdrawn: three people, no lock; one of the     *)
(* pages that list it may miss its status.                                    *)
Settling ==
    /\ ledger' = 0 /\ balance'[Vault] <= balance[Vault]
    /\ instance'.nextTx <= 1
    /\ AllAnswered({alice, bob}) /\ (AllAnswered({carol}) \/ Lists(carol))
    /\ \A tx \in TxIds' : IsOf(proposal'[tx], 1, FALSE)

(* Two people decide on one payment under a time-lock, while ledgers close    *)
(* and the money it still lacks comes in; nobody withdraws it.                *)
UnderALock ==
    /\ OnlyOpen({alice, bob}) /\ AllAnswered({bob})
    /\ \A u \in User : call'[u].kind # "cancel"
    /\ ledger' <= 1 /\ instance'.nextTx <= 1
    /\ balance'[bob] = balance[bob] /\ balance'[carol] = balance[carol]
    /\ balance'[payee] = balance[payee] \/ balance'[Vault] < balance[Vault]
    /\ \A tx \in TxIds' : IsOf(proposal'[tx], 2, FALSE)

(* One person proves, while verification is switched on or being on already,  *)
(* in a vault whose leaves are published.                                     *)
Proving ==
    /\ OnlyOpen({alice})
    /\ ledger' = 0 /\ balance'[Vault] <= balance[Vault]
    /\ \A tx \in TxIds' : proposal'[tx].payload.kind = "payment" =>
            IsOf(proposal'[tx], 1, TRUE)

Begin ==
    /\ WebInit
    /\ \/ story = "settling" /\ Init
       \/ story = "lock"     /\ Founded(UnderLock)
       \/ story = "proving"  /\ (Founded(LeavesOnly) \/ Founded(Verifying))
Tell ==
    /\ WebNext /\ UNCHANGED story
    /\ \/ story = "settling" /\ Settling
       \/ story = "lock"     /\ UnderALock
       \/ story = "proving"  /\ Proving

PagesSpec == Begin /\ [][Tell]_<<all, story>> /\ WebFairness

(* PaymentsSettle of the one payment of the first story, where nothing else   *)
(* has to happen before it can be settled.                                    *)
PaymentSettles == story = "settling" => WaitsNoLonger(0)
==============================================================================
