------------------------------ MODULE SignerSet ------------------------------
(* Anonymous voting from end to end: signers hand their leaves to the owner,  *)
(* the page shuffles and proposes them with their root (page.tsx,             *)
(* doPublishSignerSet), the vault executes what was proposed, and the browser *)
(* of a signer builds the proof the vault then checks (prover.ts).  How the   *)
(* vault collects approvals is VaultInstance's subject: here an open proposal *)
(* may be executed at any time.  A signer's leaf is the signer.               *)
EXTENDS MerkleTree, FiniteSets, SequencesExt

CONSTANTS Signer, NoZk,
          Stranger,       \* a leaf of nobody's key
          MaxLeaves,      \* bounds: leaves pasted into the form,
          MaxProposals    \* proposals of the vault

Leaf == Signer \cup {Stranger}
Lists == UNION {[1..n -> Leaf] : n \in 1..MaxLeaves}

ASSUME SignerAssumption ==
    /\ Stranger \notin Signer
    /\ MaxLeaves \in Nat /\ MaxProposals \in Nat
    /\ \A list \in Lists : rootOf(list) # NoZk

VARIABLES
    handed,         \* the leaves the owner has been given
    proposals,      \* the vault's proposals, by id
    executed,       \* the ids of those executed
    retired,        \* RETIRED: every id below cannot be executed any more
    commitments,    \* COMMITS
    zk,             \* VERIFIER: NoZk, or the root pinned
    screen,         \* what each signer's page last read of these two
    nullifiers,     \* <<leaf, id>> of every proof the vault accepted
    drafting        \* the leaves of a publication half proposed, or <<>>

chain == <<executed, retired, commitments, zk, nullifiers>>
vars  == <<handed, proposals, screen, drafting, chain>>

Tx == 1..Len(proposals)
Published == {proposals[tx].leaves : tx \in {t \in Tx : proposals[t].kind = "Leaves"}}

TypeOK ==
    /\ handed \subseteq Signer
    /\ \A tx \in Tx : proposals[tx].kind \in {"Pay", "Leaves", "Root"}
    /\ executed \subseteq Tx
    /\ retired \in 1..Len(proposals) + 1
    /\ ToSet(commitments) \subseteq Leaf
    /\ \A s \in Signer : ToSet(screen[s].commitments) \subseteq Leaf
    /\ nullifiers \subseteq Signer \X Tx
    /\ ToSet(drafting) \subseteq Leaf
    /\ zk # NoZk =>
         \E tx \in executed : proposals[tx].kind = "Root" /\ proposals[tx].root = zk

Init ==
    /\ handed = {} /\ proposals = <<>> /\ executed = {} /\ retired = 1
    /\ commitments = <<>> /\ zk = NoZk
    /\ screen = [s \in Signer |-> [commitments |-> <<>>, zk |-> NoZk]]
    /\ nullifiers = {} /\ drafting = <<>>

Open(tx) == tx \in Tx \ executed /\ tx >= retired
CanPropose == Len(proposals) < MaxProposals

(* doRegisterKey: the leaf is shown, and sent to the owner by any channel.    *)
RegisterKey(s) ==
    /\ handed' = handed \cup {s}
    /\ UNCHANGED <<proposals, screen, drafting, chain>>

(* proposeTransaction, for something to vote on, by name or by proof; what    *)
(* changes the vault itself is never voted on by proof.                       *)
Pay(private)       == [kind |-> "Pay", private |-> private]
SetLeaves(leaves)  == [kind |-> "Leaves", leaves |-> leaves, private |-> FALSE]
SetRoot(root)      == [kind |-> "Root", root |-> root, private |-> FALSE]

ProposePay(private) ==
    /\ CanPropose
    /\ proposals' = Append(proposals, Pay(private))
    /\ UNCHANGED <<handed, screen, drafting, chain>>

(* doPublishSignerSet: what was pasted, whatever it is, is shuffled, which of *)
(* any list may make any other; then it is proposed, first as the leaves,     *)
PublishLeaves ==
    /\ CanPropose /\ drafting = <<>>
    /\ \E n \in 1..MaxLeaves : \E leaves \in [1..n -> handed \cup {Stranger}] :
          /\ drafting' = leaves
          /\ proposals' = Append(proposals, SetLeaves(leaves))
    /\ UNCHANGED <<handed, screen, chain>>

(* and then as the root; a failure leaves the first half proposed.            *)
PublishRoot ==
    /\ CanPropose /\ drafting # <<>>
    /\ proposals' = Append(proposals, SetRoot(rootOf(drafting)))
    /\ drafting' = <<>>
    /\ UNCHANGED <<handed, screen, chain>>
PublishFails ==
    /\ drafting # <<>>
    /\ drafting' = <<>>
    /\ UNCHANGED <<handed, proposals, screen, chain>>

(* execute in the vault: both halves retire whatever is still open, the other *)
(* half included.  (The first is a fault: nothing is retired.)                *)
KeepOpen(tx) == retired' = retired
Retire(tx) == retired' = Len(proposals) + 1
Execute(tx) ==
    /\ Open(tx)
    /\ executed' = executed \cup {tx}
    /\ \/ /\ proposals[tx].kind = "Pay"
          /\ UNCHANGED <<retired, commitments, zk>>
       \/ /\ proposals[tx].kind = "Leaves"
          /\ commitments' = proposals[tx].leaves
          /\ Retire(tx)
          /\ UNCHANGED zk
       \/ /\ proposals[tx].kind = "Root"
          /\ zk' = proposals[tx].root
          /\ Retire(tx)
          /\ UNCHANGED commitments
    /\ UNCHANGED <<handed, proposals, screen, drafting, nullifiers>>

(* loadData: two reads, each with a default for an answer that fails.         *)
LoadLeaves(s) ==
    /\ \E answer \in {commitments, <<>>} :
          screen' = [screen EXCEPT ![s].commitments = answer]
    /\ UNCHANGED <<handed, proposals, drafting, chain>>
LoadZk(s) ==
    /\ \E answer \in {zk, NoZk} : screen' = [screen EXCEPT ![s].zk = answer]
    /\ UNCHANGED <<handed, proposals, drafting, chain>>

(* generateVoteProof: the path from the prover's first place in the list to   *)
(* the root of the tree built from it; the circuit is satisfied if it leads   *)
(* there, and then the proof is about that root.                              *)
Index(s, list) == SelectInSeq(list, LAMBDA leaf : leaf = s) - 1
Proves(s, list) ==
    LET i == Index(s, list)
    IN  /\ i \in 0..size - 1
        /\ PathLeadsTo(rootOf(list), s, merklePath(buildTree(list), i))

(* check_proof: about the root that is pinned, if one is.                     *)
CheckProof(root) == zk # NoZk => root = zk

(* doApproveZk: with a configuration on the page the proof goes alone, into   *)
(* approve_zk_anon, which wants verification; without one, in the signer's    *)
(* name into approve_zk.  Both want a private proposal, and the nullifier of  *)
(* this leaf and proposal to be new; a name is used up with its nullifier.    *)
Accepts(s, tx) ==
    LET list == screen[s].commitments
    IN  /\ proposals[tx].private
        /\ Proves(s, list)
        /\ screen[s].zk # NoZk => zk # NoZk
        /\ CheckProof(rootOf(list))
        /\ <<s, tx>> \notin nullifiers
Vote(s, tx) ==
    /\ Open(tx) /\ Accepts(s, tx)
    /\ nullifiers' = nullifiers \cup {<<s, tx>>}
    /\ UNCHANGED <<handed, proposals, executed, retired, commitments, zk, screen, drafting>>

Next ==
    \/ \E s \in Signer : RegisterKey(s) \/ LoadLeaves(s) \/ LoadZk(s)
    \/ \E private \in BOOLEAN : ProposePay(private)
    \/ PublishLeaves \/ PublishRoot \/ PublishFails
    \/ \E tx \in Tx : Execute(tx) \/ \E s \in Signer : Vote(s, tx)

Spec == Init /\ [][Next]_vars

------------------------------------------------------------------------------
Fits == Len(commitments) <= size
Members == Signer \cap ToSet(commitments)
Fresh(s) == screen[s] = [commitments |-> commitments, zk |-> zk]
CanVote(s, tx) ==
    Open(tx) /\ proposals[tx].private => <<s, tx>> \in nullifiers \/ Accepts(s, tx)

(* Where the pinned root is that of the published leaves and they fit the     *)
(* tree, every member whose page is up to date can vote on every open private *)
(* proposal: the tree, the path and the circuit agree for every place in the  *)
(* list, whatever was pasted, published, retired and loaded before.           *)
MembersCanVote ==
    commitments # <<>> /\ Fits /\ zk = rootOf(commitments) =>
        \A s \in Members, tx \in Tx : Fresh(s) => CanVote(s, tx)

(* While the vault verifies, a vote that counts on a proposal still open was  *)
(* proved under the root now pinned: neither a page that built its proof from *)
(* an older list, nor one that voted by name before there was a root, leaves a*)
(* vote behind for the new group to inherit, since a new root closes the      *)
(* proposals that have one.                                                   *)
OpenVotesAreCurrent ==
    zk # NoZk =>
        \A vote \in nullifiers : Open(vote[2]) =>
            \E list \in Published : zk = rootOf(list) /\ vote[1] \in ToSet(list)

------------------------------------------------------------------------------
(* Sentences of the code that TLC refutes.                                    *)
(* contract.ts:366, the published leaves are what a prover needs to build its *)
(* path: with a root pinned for the very group that is published, they build  *)
(* the tree of that root.                                                     *)
PublishedListOpensTheRoot ==
    \A list \in Published :
        ToSet(list) = ToSet(commitments) /\ zk = rootOf(list) => zk = rootOf(commitments)

(* page.tsx:778, the toast of a publication: as many members as leaves, who   *)
(* can vote once leaves and root are in force.                                *)
EveryLeafIsAMember ==
    commitments # <<>> /\ zk = rootOf(commitments) =>
        /\ Cardinality(Members) = Len(commitments)
        /\ \A s \in Members, tx \in Tx : Fresh(s) => CanVote(s, tx)
==============================================================================
