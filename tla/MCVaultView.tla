----------------------------- MODULE MCVaultView -----------------------------
(* Stories of what a page shows and what is made of it: it moves between      *)
(* vaults and founds one; it stays on a vault and writes in every way there   *)
(* is; and a signer works in the Guards form while it is read anew.           *)
EXTENDS VaultView, GuardsForm

CONSTANTS a, b

VARIABLE story

Both    == {a, b}
OnlyA   == {a}

(* Loads of two vaults end in any order and some fail; one write at a time,  *)
(* to found a vault or to act on it, and what is read is up to date.          *)
Moving ==
    /\ \A w \in BagToSet(writes') : w.kind \in {"create", "act"}
    /\ BagCardinality(writes') <= 1
    /\ version' # version => writes' # writes
    /\ \A v \in Vault : owed'[v] >= owed[v]
    /\ \A f \in Field : shown'[f] # shown[f] =>
            shown'[f].asOf = version[shown'[f].vault]

(* Only vault a, which others change as well.                                 *)
Writing ==
    /\ address' \in {a, NoVault}
    /\ \A w \in BagToSet(writes') : w.kind # "create"

(* One guard of each kind; the boxes take any text, the chips only the windows*)
(* and locks on offer.                                                        *)
Options ==
    [max_per_tx |-> {0}, spending_cap |-> {0, 1}, cap_window_ledgers |-> {0, 2, 3},
     timelock_ledgers |-> {0, 1}]
Policies ==
    {p \in [DOMAIN Options -> 0..3] : \A f \in DOMAIN Options : p[f] \in Options[f]}
NoGuards == [f \in DOMAIN Options |-> 0]
Locked == [NoGuards EXCEPT !["spending_cap"] = 1, !["cap_window_ledgers"] = 3,
                           !["timelock_ledgers"] = 1]
Inputs ==
    [Options EXCEPT !.spending_cap = @ \cup {Garbled}, !.cap_window_ledgers = @ \ {0}]

Begin ==
    /\ Init /\ GuardsInit
    /\ story \in {"moving", "writing", "guards"}
    /\ policy = IF story = "guards" THEN Locked ELSE NoGuards
Tell ==
    /\ UNCHANGED story
    /\ \/ story = "moving" /\ Next /\ Moving /\ UNCHANGED guards
       \/ story = "writing" /\ Next /\ Writing /\ UNCHANGED guards
       \/ story = "guards" /\ GuardsNext /\ UNCHANGED vars

ViewSpec == Begin /\ [][Tell]_<<vars, guards, story>> /\ Fairness
=============================================================================
