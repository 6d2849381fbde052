----------------------------- MODULE Confidential -----------------------------
(* The vault's hidden balance: the screen that proposes operations on it      *)
(* (web/app/confidential.tsx), the client that reads it and builds the proofs *)
(* (web/lib/confidential.ts) and the event replay behind both (StateEngine).  *)
(* The token contract is external.  What the vault asks of its signers before *)
(* a proposal executes is VaultInstance's subject: here any proposal that is  *)
(* filed may execute at any time, once, or never.                             *)
(*                                                                            *)
(* A Pedersen commitment is modelled by its opening [v, r].  Blindings are    *)
(* independent, so a sum of them is a set; one is named by what it blinds and *)
(* the event that carries it.                                                 *)
EXTENDS Integers, FiniteSets, Sequences

CONSTANTS
    Signer,         \* the wallets that may propose
    Outsider,       \* other accounts that may hold a hidden balance
    Self,           \* the vault's own address, which may be typed as a recipient
    Nobody,         \* no key on file, no account
    Deposit, Pay,   \* amounts the two forms may hold, and others may send
    Funds,          \* public XLM of the vault
    Ageing,         \* whether events may age out of the RPC's retention
    Garbage,        \* what a decryption with another key gives for an amount
    Slot,                           \* bound: operations a screen has in progress
    MaxEvents, MaxOpen, MaxFaults   \* bounds: events, open proposals, failures

Op == {"allow", "register", "deposit", "merge", "withdraw", "confidential_transfer"}
Contract == {"token", "xlm"}

ASSUME ConfidentialAssumption ==
    /\ Nobody \notin Signer \cup Outsider \cup {Self}
    /\ Self \notin Outsider
    /\ Deposit \subseteq Nat \ {0} /\ Pay \subseteq Nat \ {0}
    /\ Funds \in Nat
    /\ Ageing \in BOOLEAN
    /\ Garbage \in Nat
    /\ MaxEvents \in Nat /\ MaxOpen \in Nat /\ MaxFaults \in Nat

VARIABLES
    account,    \* the vault's account on the token: its key's owner, its two balances
    ready,      \* outsiders with an account
    vaultXlm,   \* public XLM of the vault
    log,        \* the token's events about the vault
    oldest,     \* the first of them the RPC still serves
    allowed,    \* get_allowed_contracts
    proposals,
    page,       \* the Confidential screen of each signer
    job,        \* what its calls of propose() have still to file
    faults      \* reads that have failed

vars == <<account, ready, vaultXlm, log, oldest, allowed, proposals, page, job, faults>>
token   == <<account, ready, vaultXlm, log>>
vault   == <<allowed, proposals>>
screens == <<page, job>>

Blinding == {"own", "tx", "wrong"} \X Nat
Opening  == [v : Nat, r : SUBSET Blinding]
Zero     == [v |-> 0, r |-> {}]
Plus(a, b) == [v |-> a.v + b.v, r |-> a.r \cup b.r]

(* me: the sides of the operation the vault is on; rest: what it has left.    *)
Event == [type : {"register", "deposit", "merge", "withdraw", "transfer"},
          me : SUBSET {"from", "to"}, rest : Nat, amount : Nat, id : Nat]

(* An operation as its proposal carries it; opening: the one its proof is for.*)
(* History, for FreshProofsVerify: at and whole tell how many events there    *)
(* were when the proof was built and whether all of them were served.         *)
Operation ==
    {w \in [op : Op, amount : Nat, to : Outsider \cup Contract \cup {Self, Nobody},
            by : Signer, opening : Opening, at : Nat, whole : BOOLEAN] :
        w.op = "allow" => w.to \in Contract}
Proposal == [what : Operation, executed : BOOLEAN]

TypeOK ==
    /\ account \in [key : Signer \cup {Nobody}, spendable : Opening, receiving : Opening]
    /\ ready \subseteq Outsider
    /\ vaultXlm \in Nat
    /\ log \in Seq(Event)
    /\ oldest \in 1..Len(log) + 1
    /\ allowed \subseteq Contract
    /\ proposals \in Seq(Proposal)
    /\ page \in [Signer -> [registered : {"unknown", "yes", "no"}, keys : BOOLEAN,
                            read : BOOLEAN, spendable : Nat, receiving : Nat,
                            busy : BOOLEAN]]
    /\ job \in [Signer -> [Slot -> Seq(Operation)]]
    /\ faults \in Nat

Init ==
    /\ account = [key |-> Nobody, spendable |-> Zero, receiving |-> Zero]
    /\ ready = {} /\ vaultXlm = Funds
    /\ log = <<>> /\ oldest = 1
    /\ allowed = {} /\ proposals = <<>>
    /\ page = [s \in Signer |-> [registered |-> "unknown", keys |-> FALSE,
                                 read |-> FALSE, spendable |-> 0, receiving |-> 0,
                                 busy |-> FALSE]]
    /\ job = [s \in Signer |-> [k \in Slot |-> <<>>]]
    /\ faults = 0

------------------------------------------------------------------------------
(* StateEngine: the openings of the two balances, from the events.            *)

(* openSpendable and decryptIncoming: only the right key gives the truth.     *)
Decrypt(keys, kind, v, e) ==
    IF keys = account.key THEN [v |-> v, r |-> {<<kind, e.id>>}]
                          ELSE [v |-> Garbage, r |-> {<<"wrong", e.id>>}]
OpenSpendable(keys, e)   == Decrypt(keys, "own", e.rest, e)
DecryptIncoming(keys, e) == Decrypt(keys, "tx", e.amount, e)

(* One event.  (The first two are faults: a merge counts what came in twice;  *)
(* the recipient's side of a payment is looked at only when another sent it.) *)
ApplyKeepsReceiving(keys, s, e) ==
    CASE e.type = "register" -> s
      [] e.type = "deposit"  -> [s EXCEPT !.receiving = Plus(@, [v |-> e.amount, r |-> {}])]
      [] e.type = "merge"    -> [s EXCEPT !.spendable = Plus(@, s.receiving)]
      [] e.type = "withdraw" -> [s EXCEPT !.spendable = OpenSpendable(keys, e)]
      [] e.type = "transfer" ->
            [spendable |-> IF "from" \in e.me THEN OpenSpendable(keys, e) ELSE s.spendable,
             receiving |-> IF "to" \in e.me THEN Plus(s.receiving, DecryptIncoming(keys, e))
                                            ELSE s.receiving]
ApplyOneSide(keys, s, e) ==
    CASE e.type = "register" -> s
      [] e.type = "deposit"  -> [s EXCEPT !.receiving = Plus(@, [v |-> e.amount, r |-> {}])]
      [] e.type = "merge"    -> [spendable |-> Plus(s.spendable, s.receiving), receiving |-> Zero]
      [] e.type = "withdraw" -> [s EXCEPT !.spendable = OpenSpendable(keys, e)]
      [] e.type = "transfer" ->
            IF "from" \in e.me
            THEN [s EXCEPT !.spendable = OpenSpendable(keys, e)]
            ELSE [s EXCEPT !.receiving = Plus(@, DecryptIncoming(keys, e))]
Apply(keys, s, e) ==
    CASE e.type = "register" -> s
      [] e.type = "deposit"  -> [s EXCEPT !.receiving = Plus(@, [v |-> e.amount, r |-> {}])]
      [] e.type = "merge"    -> [spendable |-> Plus(s.spendable, s.receiving), receiving |-> Zero]
      [] e.type = "withdraw" -> [s EXCEPT !.spendable = OpenSpendable(keys, e)]
      [] e.type = "transfer" ->
            [spendable |-> IF "from" \in e.me THEN OpenSpendable(keys, e) ELSE s.spendable,
             receiving |-> IF "to" \in e.me THEN Plus(s.receiving, DecryptIncoming(keys, e))
                                            ELSE s.receiving]

Empty == [spendable |-> Zero, receiving |-> Zero]
Replay(keys, events) ==
    LET after[n \in 0..Len(events)] ==
            IF n = 0 THEN Empty ELSE Apply(keys, after[n - 1], events[n])
    IN  after[Len(events)]

(* sync with a MemoryStore and no indexer: a cold start, from fromLedger or   *)
(* from the first event still served.                                         *)
Sync(s) == Replay(s, SubSeq(log, oldest, Len(log)))

------------------------------------------------------------------------------
(* The screen.                                                                *)
Registered(answer) == IF answer # Nobody THEN "yes" ELSE "no"

(* The effect on mounting; a failed read counts as "not registered".          *)
CheckRegistered(s) ==
    /\ page[s].registered = "unknown"
    /\ page' = [page EXCEPT ![s].registered = Registered(account.key)]
    /\ UNCHANGED <<token, oldest, vault, job, faults>>

CheckFails(s) ==
    /\ page[s].registered = "unknown"
    /\ faults < MaxFaults /\ faults' = faults + 1
    /\ page' = [page EXCEPT ![s].registered = "no"]
    /\ UNCHANGED <<token, oldest, vault, job>>

Showing(p, s) ==
    LET b == Sync(s)
    IN  [p EXCEPT !.read = TRUE, !.spendable = b.spendable.v, !.receiving = b.receiving.v]

(* unlock: the button shows until there is a balance to show.                 *)
Unlock(s) ==
    /\ ~page[s].busy /\ ~page[s].read
    /\ page' = [page EXCEPT ![s] = [Showing(@, s) EXCEPT !.keys = TRUE]]
    /\ UNCHANGED <<token, oldest, vault, job, faults>>

UnlockFails(s) ==
    /\ ~page[s].busy /\ ~page[s].read
    /\ faults < MaxFaults /\ faults' = faults + 1
    /\ page' = [page EXCEPT ![s].keys = TRUE]
    /\ UNCHANGED <<token, oldest, vault, job>>

(* The button is never disabled, and whatever was running is no longer busy   *)
(* when a refresh has ended (run, finally).                                   *)
Refresh(s) ==
    /\ page[s].read
    /\ page' = [page EXCEPT ![s] = [Showing(@, s) EXCEPT !.registered = Registered(account.key),
                                                        !.busy = FALSE]]
    /\ UNCHANGED <<token, oldest, vault, job, faults>>

(* The first of its two reads fails, or the second.                           *)
RefreshFails(s) ==
    /\ page[s].read
    /\ faults < MaxFaults /\ faults' = faults + 1
    /\ \E known \in {page[s].registered, Registered(account.key)} :
            page' = [page EXCEPT ![s].registered = known, ![s].busy = FALSE]
    /\ UNCHANGED <<token, oldest, vault, job>>

(* The builders: what each operation carries, and when there is none.  (The  *)
(* first Covered is a fault: what has still to settle counts as ready.)       *)
Plain(s, op, amount, to) ==
    [op |-> op, amount |-> amount, to |-> to, by |-> s, opening |-> Zero,
     at |-> 0, whole |-> FALSE]
Proven(s, op, amount, to) ==
    [Plain(s, op, amount, to) EXCEPT !.opening = Sync(s).spendable,
                                     !.at = Len(log), !.whole = oldest = 1]
CoveredOnceSettled(s, amount) == Sync(s).spendable.v + Sync(s).receiving.v >= amount
Covered(s, amount) == Sync(s).spendable.v >= amount

(* What the vault may not call yet, in the order it will be asked for.        *)
Missing(needs) ==
    LET lacking(c) == IF c \in needs \ allowed THEN <<c>> ELSE <<>>
    IN  lacking("token") \o lacking("xlm")

(* propose: whatever the vault may not call yet is proposed instead of the    *)
(* operation; otherwise the operation is, once it is built.  (The first is a  *)
(* fault: the operation is proposed whatever the vault may call.)             *)
Starts(s, operations) ==
    /\ ~page[s].busy
    /\ \E k \in Slot : job[s][k] = <<>> /\ job' = [job EXCEPT ![s][k] = operations]
    /\ page' = [page EXCEPT ![s].busy = TRUE]
    /\ UNCHANGED <<token, oldest, vault, faults>>
ProposeAtOnce(s, needs, operation, built) == built /\ Starts(s, <<operation>>)
Propose(s, needs, operation, built) ==
    LET missing == Missing(needs)
    IN  \/ /\ missing # <<>>
           /\ Starts(s, [i \in DOMAIN missing |-> Plain(s, "allow", 0, missing[i])])
        \/ missing = <<>> /\ built /\ Starts(s, <<operation>>)

ProposeSetup(s) ==
    /\ page[s].registered = "no" /\ page[s].keys
    /\ Propose(s, {"token"}, Plain(s, "register", 0, Nobody), TRUE)

ProposeDeposit(s) ==
    /\ page[s].registered = "yes"
    /\ \E amount \in Deposit :
            Propose(s, {"token", "xlm"}, Plain(s, "deposit", amount, Nobody), TRUE)

ProposeSettle(s) ==
    /\ page[s].receiving > 0
    /\ Propose(s, {"token"}, Plain(s, "merge", 0, Nobody), TRUE)

(* "short": judged by the balance on screen; building judges by a fresh one.  *)
CanSend(s, amount) ==
    page[s].registered = "yes" /\ page[s].keys /\ amount <= page[s].spendable

HoldsAccount(o) == o \in ready \/ (o = Self /\ account.key # Nobody)

ProposeTransfer(s) ==
    \E amount \in Pay, to \in Outsider \cup {Self} :
        /\ CanSend(s, amount)
        /\ Propose(s, {"token"}, Proven(s, "confidential_transfer", amount, to),
                   Covered(s, amount) /\ HoldsAccount(to))

(* Offered for a recipient that had no account when it was typed, or whose    *)
(* lookup failed (see RecipientCheck).                                        *)
ProposeWithdraw(s) ==
    \E amount \in Pay, to \in Outsider \cup {Self} :
        /\ CanSend(s, amount)
        /\ Propose(s, {"token"}, Proven(s, "withdraw", amount, to), Covered(s, amount))

(* One proposal of a job reaches the vault, or none of the rest does.         *)
Goes(s, k, rest) ==
    /\ job' = [job EXCEPT ![s][k] = rest]
    /\ page' = [page EXCEPT ![s].busy = @ /\ rest # <<>>]

File(s) ==
    \E k \in Slot :
        /\ job[s][k] # <<>>
        /\ Cardinality({i \in DOMAIN proposals : ~proposals[i].executed}) < MaxOpen
        /\ Head(job[s][k]).op = "allow" \/ "token" \in allowed
        /\ proposals' = Append(proposals, [what |-> Head(job[s][k]), executed |-> FALSE])
        /\ Goes(s, k, Tail(job[s][k]))
        /\ UNCHANGED <<token, oldest, allowed, faults>>

FileFails(s) ==
    \E k \in Slot :
        /\ job[s][k] # <<>>
        /\ faults < MaxFaults /\ faults' = faults + 1
        /\ Goes(s, k, <<>>)
        /\ UNCHANGED <<token, oldest, vault>>

------------------------------------------------------------------------------
(* The token, called by the vault as it executes a proposal.                  *)
Emit(type, me, rest, amount) ==
    log' = Append(log, [type |-> type, me |-> me, rest |-> rest, amount |-> amount,
                        id |-> Len(log) + 1])
HasAccount == account.key # Nobody

(* The proof verifies: made with the key on file, for the balance on chain.   *)
Verifies(w) ==
    /\ w.by = account.key
    /\ w.opening = account.spendable
    /\ w.amount <= w.opening.v

(* What is left, and what is sent, each under a blinding of its own.          *)
Rest(w) == [v |-> w.opening.v - w.amount, r |-> {<<"own", Len(log) + 1>>}]
Sent(amount) == [v |-> amount, r |-> {<<"tx", Len(log) + 1>>}]

Register(w) ==
    /\ w.op = "register"
    /\ ~HasAccount
    /\ account' = [account EXCEPT !.key = w.by]
    /\ Emit("register", {"from"}, 0, 0)
    /\ UNCHANGED <<ready, vaultXlm>>

(* The sub-call: the token pulls the XLM from the vault.                      *)
MoveIn(w) ==
    /\ w.op = "deposit"
    /\ HasAccount /\ "xlm" \in allowed
    /\ w.amount <= vaultXlm
    /\ vaultXlm' = vaultXlm - w.amount
    /\ account' = [account EXCEPT !.receiving = Plus(@, [v |-> w.amount, r |-> {}])]
    /\ Emit("deposit", {"from", "to"}, 0, w.amount)
    /\ UNCHANGED ready

Merge(w) ==
    /\ w.op = "merge"
    /\ HasAccount
    /\ account' = [account EXCEPT !.spendable = Plus(account.spendable, account.receiving),
                                  !.receiving = Zero]
    /\ Emit("merge", {"from"}, 0, 0)
    /\ UNCHANGED <<ready, vaultXlm>>

Withdraw(w) ==
    /\ w.op = "withdraw"
    /\ HasAccount /\ Verifies(w)
    /\ account' = [account EXCEPT !.spendable = Rest(w)]
    /\ vaultXlm' = vaultXlm + IF w.to = Self THEN w.amount ELSE 0
    /\ Emit("withdraw", {"from"}, Rest(w).v, w.amount)
    /\ UNCHANGED ready

(* The vault may pay itself: what it sends then has to settle again.          *)
Transfer(w) ==
    /\ w.op = "confidential_transfer"
    /\ HasAccount /\ Verifies(w) /\ HoldsAccount(w.to)
    /\ account' = [account EXCEPT
            !.spendable = Rest(w),
            !.receiving = IF w.to = Self THEN Plus(@, Sent(w.amount)) ELSE @]
    /\ Emit("transfer", IF w.to = Self THEN {"from", "to"} ELSE {"from"}, Rest(w).v, w.amount)
    /\ UNCHANGED <<ready, vaultXlm>>

Call(w) == Register(w) \/ MoveIn(w) \/ Merge(w) \/ Withdraw(w) \/ Transfer(w)

(* The vault executes: the call succeeds as a whole or nothing happens.       *)
Done(i) == proposals' = [proposals EXCEPT ![i].executed = TRUE]

ExecuteAllow(i) ==
    /\ ~proposals[i].executed /\ proposals[i].what.op = "allow"
    /\ allowed' = allowed \cup {proposals[i].what.to}
    /\ Done(i)
    /\ UNCHANGED <<token, oldest, screens, faults>>

ExecuteCall(i) ==
    /\ ~proposals[i].executed /\ "token" \in allowed
    /\ Len(log) < MaxEvents
    /\ Call(proposals[i].what)
    /\ Done(i)
    /\ UNCHANGED <<oldest, allowed, screens, faults>>

------------------------------------------------------------------------------
(* Everybody else.                                                            *)
Join(o) ==
    /\ o \notin ready
    /\ ready' = ready \cup {o}
    /\ UNCHANGED <<account, vaultXlm, log, oldest, vault, screens, faults>>

Receives(opening) == account' = [account EXCEPT !.receiving = Plus(@, opening)]

OthersDeposit ==
    /\ HasAccount /\ Len(log) < MaxEvents
    /\ \E amount \in Deposit :
            Receives([v |-> amount, r |-> {}]) /\ Emit("deposit", {"to"}, 0, amount)
    /\ UNCHANGED <<ready, vaultXlm, oldest, vault, screens, faults>>

(* A confidential payment to the vault.                                       *)
OthersPay ==
    /\ HasAccount /\ Len(log) < MaxEvents
    /\ \E amount \in Pay :
            Receives(Sent(amount)) /\ Emit("transfer", {"to"}, 0, amount)
    /\ UNCHANGED <<ready, vaultXlm, oldest, vault, screens, faults>>

Age ==
    /\ Ageing
    /\ oldest <= Len(log)
    /\ oldest' = oldest + 1
    /\ UNCHANGED <<token, vault, screens, faults>>

------------------------------------------------------------------------------
Screen(s) ==
    \/ CheckRegistered(s) \/ CheckFails(s)
    \/ Unlock(s) \/ UnlockFails(s) \/ Refresh(s) \/ RefreshFails(s)
    \/ ProposeSetup(s) \/ ProposeDeposit(s) \/ ProposeSettle(s)
    \/ ProposeTransfer(s) \/ ProposeWithdraw(s)
    \/ File(s) \/ FileFails(s)

Others == OthersDeposit \/ OthersPay \/ \E o \in Outsider : Join(o)

Executes == \E i \in DOMAIN proposals : ExecuteAllow(i) \/ ExecuteCall(i)

Next == (\E s \in Signer : Screen(s)) \/ Executes \/ Others \/ Age

Spec == Init /\ [][Next]_vars

(* The signers want the setup done: until it is they keep trying, and what    *)
(* can execute does, since threshold approvals are theirs to give.  Nothing   *)
(* is asked of anybody else, nor that reads succeed.                          *)
UntilSetUp(A) == ~HasAccount /\ A
Fairness ==
    /\ \A s \in Signer :
        /\ WF_vars(UntilSetUp(CheckRegistered(s))) /\ WF_vars(UntilSetUp(Unlock(s)))
        /\ WF_vars(UntilSetUp(ProposeSetup(s)))    /\ WF_vars(UntilSetUp(File(s)))
    /\ WF_vars(UntilSetUp(Executes))

------------------------------------------------------------------------------
(* The replay's rules are the token's: with the key on file and the whole     *)
(* history, it gives the openings of both balances on chain (engine.js 10-18).*)
ReplayIsExact ==
    HasAccount =>
        Replay(account.key, log) =
            [spendable |-> account.spendable, receiving |-> account.receiving]

(* A cold start that has lost old events may show too little but never more   *)
(* than there is: an own payment sets the balance, everything else adds to it.*)
ColdStartNeverOverstates ==
    HasAccount =>
        /\ Sync(account.key).spendable.v <= account.spendable.v
        /\ Sync(account.key).receiving.v <= account.receiving.v

Payment(w) == w.op \in {"withdraw", "confidential_transfer"}
Own(e) == e.type \in {"merge", "withdraw"} \/ (e.type = "transfer" /\ "from" \in e.me)

(* A payment the key's owner built from the whole history still verifies when *)
(* it is executed, however long it lay approved and whatever came in since:   *)
(* nothing but the vault's own settling and spending spoils it (confidential. *)
(* tsx 13-18: nobody stops the vault by sending dust while it proves).        *)
FreshProofsVerify ==
    \A i \in DOMAIN proposals :
        LET w == proposals[i].what
        IN  /\ Payment(w) /\ ~proposals[i].executed
            /\ w.by = account.key /\ w.whole
            /\ \A n \in w.at + 1..Len(log) : ~Own(log[n])
            => Verifies(w)

(* The vault gets its account, starting from a vault that may call nothing.   *)
SetupEnds == <>HasAccount

------------------------------------------------------------------------------
(* Sentences of the code that TLC refutes; the README says how.               *)
Figures(p) == <<p.read, p.spendable, p.receiving>>
Truthful(p) == p.spendable = account.spendable.v /\ p.receiving = account.receiving.v

(* confidential.ts 21-22: "whoever can propose can also read the vault's      *)
(* confidential balance".                                                     *)
ProposersReadTheBalance ==
    [][\A s \in Signer : Figures(page'[s]) # Figures(page[s]) => Truthful(page'[s])]_vars

(* confidential.ts 133: "Read the vault's confidential balance by replaying   *)
(* events with its key".                                                      *)
ItsKeyReadsTheBalance ==
    [][\A s \in Signer :
        s = account.key /\ Figures(page'[s]) # Figures(page[s]) => Truthful(page'[s])]_vars
==============================================================================
