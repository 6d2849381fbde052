SPECIFICATION SignerSetSpec
CONSTANTS
    ann = ann
    ben = ben
    cyd = cyd
    dan = dan
    Signer = {ann, ben, cyd, dan}
    NoZk = NoZk
    Stranger = Stranger
    LEVELS = 2
    MaxLeaves = 5
    MaxProposals = 4
INVARIANTS
    MembersCanVote
    OpenVotesAreCurrent
