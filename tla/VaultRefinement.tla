--------------------------- MODULE VaultRefinement ---------------------------
(* VaultInstance implements Multisig: the status of a proposal is what the    *)
(* executed flag, the Cancelled entry and the retirement watermark say of it, *)
(* in that order, and its ballots are the voters whose approvals counted.     *)
EXTENDS VaultInstance

StatusOf(tx) ==
    IF proposal[tx].executed THEN "executed"
    ELSE IF tx \in cancelled THEN "cancelled"
    ELSE IF ~CurrentSet(tx) THEN "void"
    ELSE "open"

Abstract == INSTANCE Multisig WITH
    Voter   <- Address \cup Commitment,
    quorum  <- instance.threshold,
    status  <- [tx \in TxIds |-> StatusOf(tx)],
    ballots <- voters

(* Every behaviour of the vault, with its two double-vote ledgers, proofs,    *)
(* watermark and two ways to execute, is a behaviour of the plain multisig.   *)
ImplementsMultisig == Abstract!MSpec
==============================================================================
