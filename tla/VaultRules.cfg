SPECIFICATION RulesSpec
CONSTANTS
    alice = alice
    bob = bob
    carol = carol
    payee = payee
    dex = dex
    vault = vault
    leafA = leafA
    leafB = leafB
    v1 = v1
    v2 = v2
    Vault = vault
    NoZk = NoZk
    NoWindow = NoWindow
    MaxU32 = 30
    MaxI128 = 60
    DefaultCapWindow = 3
    Wasm = {v1, v2}
    Address = {alice, bob, carol, payee, vault}
    Foundings <- RulesFoundings
    AdminActions <- RulesActions
    Proposers = {alice}
    Transfers <- OneTransfer
    Batches = {}
    Calls = {}
    CallFlows = {}
    Submissions <- PrivateSubmissions
    Modes = {FALSE, TRUE}
    Deposits = {}
    Endowment = 2
    Commitment = {leafA, leafB}
    VaultId = {0, 1}
    MaxAllowed = 1
    MaxBatch = 2
    MaxTx = 3
    MaxLedger = 4
    MaxBalance = 3
CHECK_DEADLOCK FALSE
INVARIANTS
    ThresholdReachable
    VotesAreDistinct
    BallotsBacked
PROPERTIES
    SettledByQuorum
    RulesCostAQuorum
    LockRespected
    LockNotPostponed
    ImplementsMultisig
