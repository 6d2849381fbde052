---------------------------- MODULE MCConfidential ----------------------------
(* Three stories of one vault's hidden balance.                               *)
(*   money      one signer, coins of 1 that others pay in, five events: every *)
(*              order of settlements, payments (to the vault itself too) and  *)
(*              approvals.                                                    *)
(*   forgetful  one signer, deposits of 2, and the RPC forgets old events.    *)
(*   setup      two signers race to register the account; reads may fail and  *)
(*              a screen may run two operations at once.                      *)
EXTENDS Confidential

CONSTANTS s1, s2

VARIABLE story

Open(ps) == Cardinality({i \in DOMAIN ps : ~ps[i].executed})
Begun(s) == UNION {{job'[s][k][i] : i \in DOMAIN job'[s][k]} : k \in Slot}
Alone(s) == \A k \in Slot : k > 1 => job'[s][k] = <<>>
OnlyS1   == page'[s2] = page[s2] /\ job'[s2] = job[s2] /\ Alone(s1)
Joined   == ready' # ready => Len(log) = 1

(* The event of this step, if there is one, is as told.                       *)
Logs(Told(_)) == log' # log => Told(log'[Len(log')])

Money ==
    /\ OnlyS1 /\ Joined /\ faults' = 0 /\ oldest' = 1
    /\ \A w \in Begun(s1) : w.op # "deposit" /\ w.amount # 2
    /\ Len(proposals') <= 6
    /\ LET Told(e) == e.type # "deposit" IN Logs(Told)

Forgetful ==
    /\ OnlyS1 /\ Joined /\ faults' = 0
    /\ Open(proposals') <= 1 /\ Len(proposals') <= 6 /\ Len(log') <= MaxEvents - 1
    /\ \A w \in Begun(s1) : w.op = "deposit" => w.amount = 2
    /\ LET Told(e) == e.type = "deposit" => e.amount = 2 /\ ("from" \in e.me \/ e.id = 2)
       IN  Logs(Told)

Setup ==
    /\ Alone(s2) /\ (Alone(s1) \/ job[s1][1] # <<>>)
    /\ ready' = {} /\ Len(proposals') <= 4
    /\ \A s \in Signer : \A w \in Begun(s) : w.op = "register" \/ w.to = "token"
    /\ oldest' = 1 /\ Len(log') <= 1

Begin == Init /\ story \in {"money", "forgetful", "setup"}
Tell ==
    /\ Next /\ UNCHANGED story
    /\ (story = "money" => Money)
    /\ (story = "forgetful" => Forgetful)
    /\ (story = "setup" => Setup)

(* The fairness asks both signers to act, so its behaviours are setups.       *)
ConfidentialSpec == Begin /\ [][Tell]_<<vars, story>> /\ Fairness
==============================================================================
