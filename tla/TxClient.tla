------------------------------ MODULE TxClient ------------------------------
(* invoke of web/lib/contract.ts: a contract call is built, prepared, signed  *)
(* in the wallet, sent and polled for, with the retries and limits of each    *)
(* phase.  Several invocations run at once (two tabs, or a second click while *)
(* the wallet prompt of the first is open) and may share a source account.    *)
(* The RPC server and the network are modelled as the code meets them: any    *)
(* request may fail, answers lag behind the ledger, transactions are dropped. *)
(* Time is relative: seconds left of a transaction's validity and of a sleep. *)
EXTENDS Integers

CONSTANTS
    Call,           \* invocations
    Account,
    Source,         \* the account each call is made from
    TxTimeout,      \* setTimeout(60): seconds a built transaction stays valid
    PrepareTries,   \* 4 simulations
    PrepareNap,     \* 2 s between them
    SendTries,      \* 1 + 3 sends
    SendNap,        \* 2.5 s between them
    PollLimit       \* 75 polls, 1 s apart

(* The wait outlasts the transaction: what polling gives up on has expired.   *)
ASSUME ClientAssumption ==
    /\ Source \in [Call -> Account]
    /\ TxTimeout \in Nat
    /\ PrepareTries \in Nat \ {0}
    /\ PrepareNap \in Nat
    /\ SendTries \in Nat \ {0}
    /\ SendNap \in Nat
    /\ PollLimit \in Nat
    /\ TxTimeout <= PollLimit

VARIABLES
    pc,             \* where each invocation stands, or how it ended
    tries,          \* requests made in the present phase
    nap,            \* seconds left of the sleep before the next request
    ttl,            \* seconds the built transaction is still valid
    seq,            \* its sequence number
    sequence,       \* the ledger's sequence number of each account
    seen,           \* the same as the RPC server has ingested it
    pool,           \* transactions the network has accepted and not included
    result          \* what the ledger recorded for each call

client  == <<pc, tries, nap, seq>>
network == <<sequence, seen, pool, result>>
vars    == <<pc, tries, nap, ttl, seq, sequence, seen, pool, result>>

Running == {"idle", "prepare", "sign", "send", "poll"}
Ended   == {"done", "failed", "refused", "rejected", "gaveUp", "aborted"}

TypeOK ==
    /\ pc \in [Call -> Running \cup Ended]
    /\ tries \in [Call -> Nat]
    /\ nap \in [Call -> Nat]
    /\ ttl \in [Call -> 0..TxTimeout]
    /\ seq \in [Call -> Nat]
    /\ sequence \in [Account -> Nat]
    /\ seen \in [Account -> Nat]
    /\ pool \subseteq Call
    /\ result \in [Call -> {"none", "ok", "failed"}]

Init ==
    /\ pc = [c \in Call |-> "idle"]
    /\ tries = [c \in Call |-> 0]
    /\ nap = [c \in Call |-> 0]
    /\ ttl = [c \in Call |-> 0]
    /\ seq = [c \in Call |-> 0]
    /\ sequence = [a \in Account |-> 0]
    /\ seen = [a \in Account |-> 0]
    /\ pool = {}
    /\ result = [c \in Call |-> "none"]

Awake(c, phase) == pc[c] = phase /\ nap[c] = 0

(* The call leaves its phase; the next one counts its requests from zero.     *)
Enter(c, phase) ==
    /\ pc' = [pc EXCEPT ![c] = phase]
    /\ tries' = [tries EXCEPT ![c] = 0]
    /\ nap' = [nap EXCEPT ![c] = 0]
    /\ UNCHANGED seq

(* Mutant: the attempts are not counted.                                      *)
TryForever(c, pause) ==
    /\ nap' = [nap EXCEPT ![c] = pause]
    /\ UNCHANGED <<pc, tries, seq>>

(* Another request of the same phase, after a sleep.                          *)
TryAgain(c, pause) ==
    /\ tries' = [tries EXCEPT ![c] = @ + 1]
    /\ nap' = [nap EXCEPT ![c] = pause]
    /\ UNCHANGED <<pc, seq>>

------------------------------------------------------------------------------
(* getAccount answers with the sequence number the server knows, and the      *)
(* transaction is built on it with its time bounds; or the request fails.     *)
Build(c) ==
    /\ pc[c] = "idle"
    /\ pc' = [pc EXCEPT ![c] = "prepare"]
    /\ seq' = [seq EXCEPT ![c] = seen[Source[c]] + 1]
    /\ ttl' = [ttl EXCEPT ![c] = TxTimeout]
    /\ UNCHANGED <<tries, nap, network>>

BuildFails(c) ==
    /\ pc[c] = "idle"
    /\ Enter(c, "refused")
    /\ UNCHANGED <<ttl, network>>

(* prepareTransaction simulates the call; every failure, the contract's own   *)
(* refusal included, is retried before the wallet is asked.                   *)
Prepared(c) ==
    /\ Awake(c, "prepare")
    /\ tries[c] < PrepareTries
    /\ Enter(c, "sign")
    /\ UNCHANGED <<ttl, network>>

PrepareFails(c) ==
    /\ Awake(c, "prepare")
    /\ tries[c] < PrepareTries
    /\ TryAgain(c, PrepareNap)
    /\ UNCHANGED <<ttl, network>>

PrepareOver(c) ==
    /\ Awake(c, "prepare")
    /\ tries[c] = PrepareTries
    /\ Enter(c, "refused")
    /\ UNCHANGED <<ttl, network>>

(* The wallet prompt stays open for as long as its owner likes.               *)
Sign(c) ==
    /\ pc[c] = "sign"
    /\ Enter(c, "send")
    /\ UNCHANGED <<ttl, network>>

RefuseToSign(c) ==
    /\ pc[c] = "sign"
    /\ Enter(c, "refused")
    /\ UNCHANGED <<ttl, network>>

------------------------------------------------------------------------------
(* What validators check before a transaction is queued or included.          *)
Valid(c) == ttl[c] > 0 /\ seq[c] = sequence[Source[c]] + 1

(* sendTransaction answers PENDING or DUPLICATE.                              *)
SendAccepted(c) ==
    /\ Awake(c, "send")
    /\ Valid(c)
    /\ pool' = pool \cup {c}
    /\ Enter(c, "poll")
    /\ UNCHANGED <<ttl, sequence, seen, result>>

(* It answers TRY_AGAIN_LATER or ERROR and the transaction is not queued: the *)
(* same signed transaction is sent again, up to the limit.                    *)
SendTurnedAway(c) ==
    /\ Awake(c, "send")
    /\ tries[c] + 1 < SendTries
    /\ TryAgain(c, SendNap)
    /\ UNCHANGED <<ttl, network>>

(* After the last send an ERROR is thrown; a TRY_AGAIN_LATER falls through to *)
(* polling for a transaction that nobody has.                                 *)
SendOver(c) ==
    /\ Awake(c, "send")
    /\ tries[c] + 1 >= SendTries
    /\ Enter(c, "rejected") \/ Enter(c, "poll")
    /\ UNCHANGED <<ttl, network>>

(* The request itself fails: sendTransaction throws, and nothing in invoke    *)
(* catches it.  The server may have queued the transaction all the same.      *)
SendBreaks(c) ==
    /\ Awake(c, "send")
    /\ pool' = pool \/ (Valid(c) /\ pool' = pool \cup {c})
    /\ Enter(c, "aborted")
    /\ UNCHANGED <<ttl, sequence, seen, result>>

------------------------------------------------------------------------------
(* getTransaction knows what its server has ingested.                         *)
Visible(c) == result[c] # "none" /\ seq[c] <= seen[Source[c]]

Found(c) ==
    /\ Awake(c, "poll")
    /\ Visible(c)
    /\ Enter(c, IF result[c] = "ok" THEN "done" ELSE "failed")
    /\ UNCHANGED <<ttl, network>>

(* Mutant: the polls follow each other without a sleep.                       *)
NotFoundYetAtOnce(c) ==
    /\ Awake(c, "poll")
    /\ ~Visible(c)
    /\ tries[c] < PollLimit
    /\ TryAgain(c, 0)
    /\ UNCHANGED <<ttl, network>>

NotFoundYet(c) ==
    /\ Awake(c, "poll")
    /\ ~Visible(c)
    /\ tries[c] < PollLimit
    /\ TryAgain(c, 1)
    /\ UNCHANGED <<ttl, network>>

(* "Still confirming -- it may have gone through."                            *)
GiveUp(c) ==
    /\ Awake(c, "poll")
    /\ ~Visible(c)
    /\ tries[c] = PollLimit
    /\ Enter(c, "gaveUp")
    /\ UNCHANGED <<ttl, network>>

PollBreaks(c) ==
    /\ Awake(c, "poll")
    /\ Enter(c, "aborted")
    /\ UNCHANGED <<ttl, network>>

------------------------------------------------------------------------------
(* The network: inclusion succeeds or fails in the contract, and in both      *)
(* cases uses up the sequence number; the server ingests ledgers late.        *)
Include(c) ==
    /\ c \in pool
    /\ Valid(c)
    /\ \E r \in {"ok", "failed"} : result' = [result EXCEPT ![c] = r]
    /\ sequence' = [sequence EXCEPT ![Source[c]] = @ + 1]
    /\ pool' = pool \ {c}
    /\ UNCHANGED <<client, ttl, seen>>

Drop(c) ==
    /\ c \in pool
    /\ pool' = pool \ {c}
    /\ UNCHANGED <<client, ttl, sequence, seen, result>>

Ingest(a) ==
    /\ seen[a] # sequence[a]
    /\ seen' = [seen EXCEPT ![a] = sequence[a]]
    /\ UNCHANGED <<client, ttl, sequence, pool, result>>

OneLess(n) == IF n > 0 THEN n - 1 ELSE 0

Tick ==
    /\ ttl' = [c \in Call |-> OneLess(ttl[c])]
    /\ nap' = [c \in Call |-> OneLess(nap[c])]
    /\ UNCHANGED <<pc, tries, seq, network>>

------------------------------------------------------------------------------
(* The steps of the browser and the answers it waits for.                     *)
Prepare(c) == Prepared(c) \/ PrepareFails(c) \/ PrepareOver(c)
Send(c)    == SendAccepted(c) \/ SendTurnedAway(c) \/ SendOver(c) \/ SendBreaks(c)
Poll(c)    == Found(c) \/ NotFoundYet(c) \/ GiveUp(c) \/ PollBreaks(c)

Next ==
    \/ \E c \in Call :
        \/ Build(c) \/ BuildFails(c)
        \/ Prepare(c)
        \/ Sign(c) \/ RefuseToSign(c)
        \/ Send(c)
        \/ Poll(c)
        \/ Include(c) \/ Drop(c)
    \/ \E a \in Account : Ingest(a)
    \/ Tick

Spec == Init /\ [][Next]_vars

(* Requests are answered or fail, and time passes.  Nobody is obliged to use  *)
(* the wallet, to include a transaction or to ingest a ledger.                *)
Fairness ==
    /\ \A c \in Call : WF_vars(Prepare(c)) /\ WF_vars(Send(c)) /\ WF_vars(Poll(c))
    /\ WF_vars(Tick)

FairSpec == Spec /\ Fairness

------------------------------------------------------------------------------
(* What an exception says to the code that catches it: nothing was submitted  *)
(* (refused), the wait was given up, or nothing is known.                     *)
ReportOf(c) ==
    IF pc[c] \in Running THEN "pending"
    ELSE IF pc[c] \in {"refused", "rejected"} THEN "refused"
    ELSE IF pc[c] = "aborted" THEN "unknown"
    ELSE pc[c]

Promise == INSTANCE Submission WITH
    report <- [c \in Call |-> ReportOf(c)], effect <- result

(* A call takes effect at most once; success, failure and refusal are true    *)
(* when they are reported and stay true; and after "Still confirming" (75     *)
(* polls) the transaction cannot go through any later than that: if a reload  *)
(* shows no effect once the server has caught up, the call can be repeated.   *)
ImplementsSubmission == Promise!Spec

(* Once the owner has signed, the caller is told something: no phase of       *)
(* retries goes on for ever, whatever the servers answer.                     *)
SignedIsReported == \A c \in Call : pc[c] \in {"send", "poll"} ~> pc[c] \in Ended

(* The comment above the send loop: "send, retrying transient 'try again      *)
(* later' / network blips a couple times".  A blip ends the invocation on the *)
(* last try only.  (Not so: sendTransaction throws past the loop.)            *)
BlipsAreRetried ==
    [][\A c \in Call : pc[c] = "send" /\ pc'[c] = "aborted"
            => tries[c] + 1 >= SendTries]_vars
=============================================================================
