----------------------------- MODULE Submission -----------------------------
(* What invoke (web/lib/contract.ts) promises whoever awaits it, whatever the *)
(* wallet, the RPC server and the network do in between: a call takes effect  *)
(* at most once, and what the caller is told restricts what can have happened *)
(* and what can still happen.  TxClient is shown to implement it.             *)
CONSTANTS Call      \* invocations

VARIABLES
    report,         \* what the caller has been told
    effect          \* what the ledger recorded for the call

vars == <<report, effect>>

Report == {"pending", "done", "failed", "refused", "gaveUp", "unknown"}
Effect == {"none", "ok", "failed"}

Init ==
    /\ report = [c \in Call |-> "pending"]
    /\ effect = [c \in Call |-> "none"]

(* The ledger includes the transaction.  It cannot do so any more once the    *)
(* caller was told that the call was refused, or that the wait was given up.  *)
TakeEffect(c) ==
    /\ report[c] \in {"pending", "unknown"}
    /\ effect[c] = "none"
    /\ \E e \in {"ok", "failed"} : effect' = [effect EXCEPT ![c] = e]
    /\ UNCHANGED report

(* The caller is told, once: success and failure are reports about a recorded *)
(* effect, a refusal is about none.                                           *)
Tell(c, r) ==
    /\ report[c] = "pending"
    /\ r = "done" => effect[c] = "ok"
    /\ r = "failed" => effect[c] = "failed"
    /\ r = "refused" => effect[c] = "none"
    /\ report' = [report EXCEPT ![c] = r]
    /\ UNCHANGED effect

Next == \E c \in Call : TakeEffect(c) \/ \E r \in Report : Tell(c, r)

Spec == Init /\ [][Next]_vars
=============================================================================
