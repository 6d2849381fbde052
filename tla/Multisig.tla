------------------------------- MODULE Multisig -------------------------------
(* What the treasury promises, without addresses, proofs, clocks or money:    *)
(* proposals that collect ballots of distinct voters, are decided once by a   *)
(* quorum of them, and are void as soon as the electorate changes.            *)
(* VaultInstance implements it (VaultRefinement).                             *)
EXTENDS Integers, FiniteSets

CONSTANT Voter

VARIABLES
    quorum,     \* ballots a decision needs
    status,     \* "open", "void", "cancelled" or "executed", by proposal
    ballots     \* who has voted, by proposal

mvars == <<quorum, status, ballots>>

Proposals == DOMAIN status
Count     == Cardinality(Proposals)

MTypeOK ==
    /\ quorum \in Nat \ {0}
    /\ status \in [Proposals -> {"open", "void", "cancelled", "executed"}]
    /\ ballots \in [Proposals -> SUBSET Voter]

MInit ==
    /\ quorum \in Nat \ {0}
    /\ status = <<>>
    /\ ballots = <<>>

(* Ids are consecutive from 0; a new proposal is open and has no ballots.     *)
Submit(id) ==
    /\ Proposals = 0..(id - 1)
    /\ status'  = [p \in 0..id |-> IF p = id THEN "open" ELSE status[p]]
    /\ ballots' = [p \in 0..id |-> IF p = id THEN {} ELSE ballots[p]]
    /\ UNCHANGED quorum

Vote(p, v) ==
    /\ status[p] = "open"
    /\ v \notin ballots[p]
    /\ ballots' = [ballots EXCEPT ![p] = @ \cup {v}]
    /\ UNCHANGED <<quorum, status>>

(* A decision, taken with the last ballots or later.  It may void every other *)
(* open proposal, or move the quorum for the proposals that remain.           *)
Decide(p, cast) ==
    /\ status[p] = "open"
    /\ cast \cap ballots[p] = {}
    /\ Cardinality(ballots[p] \cup cast) >= quorum
    /\ ballots' = [ballots EXCEPT ![p] = @ \cup cast]
    /\ \/ /\ status' = [status EXCEPT ![p] = "executed"]
          /\ quorum' \in Nat \ {0}
       \/ /\ status' = [q \in Proposals |->
                IF q = p THEN "executed"
                ELSE IF status[q] = "open" THEN "void" ELSE status[q]]
          /\ UNCHANGED quorum

Withdraw(p) ==
    /\ status[p] \in {"open", "void"}
    /\ status' = [status EXCEPT ![p] = "cancelled"]
    /\ UNCHANGED <<quorum, ballots>>

MNext ==
    \/ \E id \in {Count} : Submit(id)
    \/ \E p \in Proposals :
        \/ \E v \in Voter : Vote(p, v) \/ Decide(p, {v})
        \/ Decide(p, {})
        \/ Withdraw(p)

MSpec == MInit /\ [][MNext]_mvars
==============================================================================
