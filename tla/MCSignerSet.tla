----------------------------- MODULE MCSignerSet -----------------------------
(* Two stories of anonymous voting: ann and ben publish each other's leaves,  *)
(* retire and vote in every order; or any list of any of the four, with leaves*)
(* of nobody and repeated ones, is in force with its root, and its members    *)
(* vote on a payment, which may be public.                                    *)
EXTENDS SignerSet

CONSTANTS ann, ben, cyd, dan

VARIABLE story

Publishing ==
    /\ handed' \subseteq {ann, ben}
    /\ ToSet(drafting') \subseteq handed /\ IsInjective(drafting')
    /\ \A tx \in Tx' : proposals'[tx].kind = "Pay" => proposals'[tx].private
    /\ \A s \in {cyd, dan} : screen'[s] = screen[s]

(* The second publication of the list got no further than its leaves, and two *)
(* of the members have a page open.                                           *)
InForce(list, private) ==
    /\ handed = Signer /\ drafting = <<>>
    /\ proposals = << SetLeaves(list), SetRoot(rootOf(list)), SetLeaves(list), Pay(private) >>
    /\ executed = {2, 3} /\ retired = 4
    /\ commitments = list /\ zk = rootOf(list)
    /\ screen = [s \in Signer |-> [commitments |-> <<>>, zk |-> NoZk]]
    /\ nullifiers = {}
Voting == \A s \in {ann, ben} : screen'[s] = screen[s]

Begin ==
    \/ story = "publishing" /\ Init
    \/ story = "in force" /\ \E list \in Lists, private \in BOOLEAN : InForce(list, private)
Tell ==
    /\ Next /\ UNCHANGED story
    /\ story = "publishing" => Publishing
    /\ story = "in force" => Voting

SignerSetSpec == Begin /\ [][Tell]_<<vars, story>>
==============================================================================
