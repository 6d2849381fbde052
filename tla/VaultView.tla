------------------------------ MODULE VaultView ------------------------------
(* What one open page (web/app/page.tsx) shows of a vault: loadData reads the *)
(* vault in five stages and writes each into the page's state as its answers  *)
(* arrive.  Loads of one page run side by side, each carries the vault of the *)
(* render it was started from, and nothing orders them.  The data of a vault  *)
(* is abstracted to the version of the vault it was read at.                  *)
EXTENDS Integers, Sequences, Bags

CONSTANTS
    Vault,
    Deployed,       \* vaults that exist at first; the others may be created
    Old,            \* deployed before the guards: their reads always fall back
    NoVault,        \* vaultAddress = ""
    Fallible,       \* fields whose reads may fail now and then
    Faults,         \* whether the reads that must succeed may fail too
    Kinds,          \* the kinds of writes the user makes
    MaxLoads,       \* bounds: loads under way,
    MaxWrites,      \* writes awaited,
    MaxVersion      \* and changes of a vault

(* What one load sets, in the order it does: the reads of one stage are made  *)
(* together (Promise.all), the next stage starts when all have answered.      *)
Stages == <<
    {"config", "proposals", "guards"},  \* getVault, getProposals, getPolicy ...
    {"statuses"},                       \* getStatus of every proposal
    {"retired"},                        \* getRetiredBefore
    {"behind"},                         \* getVaultWasm and getFactoryWasm
    {"details"} >>                      \* getCall, getAdmin and getBatch
Field == UNION {Stages[s] : s \in DOMAIN Stages}

(* How the handlers read back after the call they awaited.                    *)
WriteKind == {"act", "zk", "propose", "deposit", "create"}

(* A value on screen; fallback: the read failed and a default stands in.      *)
Shown == [vault : Vault \cup {NoVault}, asOf : Nat, fallback : BOOLEAN]
Blank == [vault |-> NoVault, asOf |-> 0, fallback |-> FALSE]

(* again: how many loads the handler that awaits this one will start after it.*)
Load  == [vault : Vault, stage : DOMAIN Stages, since : Nat, again : {0, 1}]
Write == [vault : Vault, kind : WriteKind]

ASSUME ViewAssumption ==
    /\ Deployed \subseteq Vault
    /\ Old \subseteq Deployed
    /\ NoVault \notin Vault
    /\ Fallible \subseteq Field \ {"config"}
    /\ Faults \in BOOLEAN
    /\ Kinds \subseteq WriteKind
    /\ MaxLoads \in Nat /\ MaxWrites \in Nat /\ MaxVersion \in Nat

VARIABLES
    version,        \* changes made to each vault, 0 before it exists
    server,         \* the same as the RPC server has ingested it
    address,        \* vaultAddress
    shown,          \* the page's state, by field
    loading,
    loads,          \* calls of loadData under way
    timers,         \* the vaults refreshSoon is still to load a second time
    writes,         \* calls awaited by handlers
    owed,           \* history: the version each vault had after our last write,
                    \* or what the server had of it when refreshSoon read again
    calm,           \* history: nothing of another vault was under way when the
                    \* address was last set, and no load has failed since
    inTurn,         \* history: since the last write was done, no two loads ran
                    \* side by side, none failed, and no refresh was called off
    fresh           \* history: the vault created last

vars == <<version, server, address, shown, loading, loads, timers, writes,
          owed, calm, inTurn, fresh>>
chain   == <<version, server>>
history == <<owed, calm, inTurn, fresh>>

TypeOK ==
    /\ version \in [Vault -> Nat]
    /\ server \in [Vault -> Nat]
    /\ address \in Vault \cup {NoVault}
    /\ shown \in [Field -> Shown]
    /\ loading \in BOOLEAN
    /\ BagToSet(loads) \subseteq Load
    /\ BagToSet(timers) \subseteq Vault
    /\ BagToSet(writes) \subseteq Write
    /\ owed \in [Vault -> Nat]
    /\ calm \in BOOLEAN /\ inTurn \in BOOLEAN
    /\ fresh \in Vault \cup {NoVault}

Init ==
    /\ version = [v \in Vault |-> IF v \in Deployed THEN 1 ELSE 0]
    /\ server = version
    /\ address = NoVault
    /\ shown = [f \in Field |-> Blank]
    /\ loading = FALSE
    /\ loads = EmptyBag /\ timers = EmptyBag /\ writes = EmptyBag
    /\ owed = [v \in Vault |-> 0]
    /\ calm = TRUE
    /\ inTurn = TRUE
    /\ fresh = NoVault

One(x) == SetToBag({x})
Fresh(v, again) == [vault |-> v, stage |-> 1, since |-> server[v], again |-> again]

(* Vaults with something under way that may still write to the screen.        *)
Busy == BagToSet(timers) \cup {x.vault : x \in BagToSet(loads) \cup BagToSet(writes)}

------------------------------------------------------------------------------
(* The reads of web/lib/contract.ts.  Each answers with the server's state at *)
(* some time in its stage; all but getVault, getVaultBalance and the first    *)
(* getProposal answer with a default when they fail.                          *)
Answers(l, f) ==
    {[vault |-> l.vault, asOf |-> n, fallback |-> l.vault \in Old /\ f # "config"] :
            n \in l.since..server[l.vault]}
    \cup IF f \notin Fallible THEN {}
         ELSE {[vault |-> l.vault, asOf |-> server[l.vault], fallback |-> TRUE]}

(* The same load in its next stage, or what follows the last one.             *)
Onward(l) ==
    IF l.stage < Len(Stages)
    THEN One([l EXCEPT !.stage = @ + 1, !.since = server[l.vault]])
    ELSE IF l.again > 0 THEN One(Fresh(l.vault, 0)) ELSE EmptyBag

(* One stage answers: setConfig, setProposals ... whatever the page shows now.*)
LoadAnswered(l) ==
    /\ BagIn(l, loads)
    /\ l.since > 0
    /\ \E answer \in [Stages[l.stage] -> UNION {Answers(l, f) : f \in Stages[l.stage]}] :
        /\ \A f \in Stages[l.stage] : answer[f] \in Answers(l, f)
        /\ shown' = [f \in Field |-> IF f \in Stages[l.stage] THEN answer[f]
                                     ELSE shown[f]]
    /\ loads' = (loads (-) One(l)) (+) Onward(l)
    /\ loading' = IF l.stage = Len(Stages) THEN l.again > 0 ELSE loading
    /\ UNCHANGED <<chain, address, timers, writes, history>>

(* Mutant: the first stage leaves the function past the finally.              *)
LoadFailsStuck(l) ==
    /\ BagIn(l, loads)
    /\ l.stage = 1
    /\ Faults \/ l.since = 0
    /\ loads' = (loads (-) One(l))
                (+) (IF l.again > 0 THEN One(Fresh(l.vault, 0)) ELSE EmptyBag)
    /\ calm' = FALSE /\ inTurn' = FALSE
    /\ UNCHANGED <<loading, chain, address, shown, timers, writes, owed, fresh>>

(* A read that must succeed fails: the whole load ends and the screen stays   *)
(* as it is.  getVault rides out a server that does not know a new vault yet; *)
(* getVaultBalance, awaited together with it, fails at once.                  *)
LoadFails(l) ==
    /\ BagIn(l, loads)
    /\ l.stage = 1
    /\ Faults \/ l.since = 0
    /\ loads' = (loads (-) One(l))
                (+) (IF l.again > 0 THEN One(Fresh(l.vault, 0)) ELSE EmptyBag)
    /\ loading' = (l.again > 0)
    /\ calm' = FALSE /\ inTurn' = FALSE
    /\ UNCHANGED <<chain, address, shown, timers, writes, owed, fresh>>

------------------------------------------------------------------------------
(* Starting loads: always possible in the code, bounded here.                 *)
Start(more) ==
    /\ BagCardinality(loads (+) more) <= MaxLoads
    /\ loads' = loads (+) more
    /\ loading' = TRUE

Alone == loads = EmptyBag

(* Mutant: the load uses the address of the render that is going away.        *)
SelectStale(v) ==
    /\ version[v] > 0 /\ server[v] > 0
    /\ v # address
    /\ address' = v
    /\ Start(One(Fresh(IF address = NoVault THEN v ELSE address, 0))
             (+) One(Fresh(v, 0)))
    /\ timers' = EmptyBag
    /\ calm' = (Busy \subseteq {v})
    /\ inTurn' = FALSE
    /\ UNCHANGED <<chain, shown, writes, owed, fresh>>

(* selectVault sets the address and loads; the effect on loadData then clears *)
(* the timers and loads once more.  What was shown stays until it is replaced.*)
Select(v) ==
    /\ version[v] > 0 /\ server[v] > 0
    /\ v # address
    /\ address' = v
    /\ Start(One(Fresh(v, 0)) (+) One(Fresh(v, 0)))
    /\ timers' = EmptyBag
    /\ calm' = (Busy \subseteq {v})
    /\ inTurn' = FALSE
    /\ UNCHANGED <<chain, shown, writes, owed, fresh>>

(* go to the vault or the dashboard, and the refresh button.                  *)
Reload ==
    /\ address # NoVault
    /\ Start(One(Fresh(address, 0)))
    /\ inTurn' = (inTurn /\ Alone)
    /\ UNCHANGED <<chain, address, shown, timers, writes, owed, calm, fresh>>

(* The 4.5 s are over, whatever the server has ingested by then.              *)
TimerFires(v) ==
    /\ BagIn(v, timers)
    /\ timers' = timers (-) One(v)
    /\ Start(One(Fresh(v, 0)))
    /\ owed' = [owed EXCEPT ![v] = IF server[v] < @ THEN server[v] ELSE @]
    /\ inTurn' = (inTurn /\ Alone)
    /\ UNCHANGED <<chain, address, shown, writes, calm, fresh>>

(* A handler submits a call from the vault on screen and awaits it.  setBusy  *)
(* disables the buttons, except that doApproveZk does not set it; its proof   *)
(* overlay calls off every pending timer.                                     *)
Submit(kind) ==
    /\ kind \in Kinds
    /\ kind # "create" => address # NoVault
    /\ \A w \in BagToSet(writes) : w.kind = "zk"
    /\ BagCardinality(writes) < MaxWrites
    /\ \E v \in IF kind = "create" THEN {u \in Vault : version[u] = 0} ELSE {address} :
            writes' = writes (+) One([vault |-> v, kind |-> kind])
    /\ timers' = IF kind = "zk" THEN EmptyBag ELSE timers
    /\ inTurn' = (inTurn /\ (kind = "zk" => timers = EmptyBag))
    /\ UNCHANGED <<chain, address, shown, loading, loads, owed, calm, fresh>>

(* The call went through; the handler goes on with the loadData of its own    *)
(* render, whatever the page shows by now.                                    *)
Done(w) ==
    /\ BagIn(w, writes)
    /\ version[w.vault] < MaxVersion
    /\ writes' = writes (-) One(w)
    /\ version' = [version EXCEPT ![w.vault] = @ + 1]
    /\ owed' = [owed EXCEPT ![w.vault] = version[w.vault] + 1]
    /\ UNCHANGED <<server, shown>>

(* Mutant: refreshSoon without the later load.                                *)
RefreshNow(w) ==
    /\ w.kind \in {"act", "zk"}
    /\ Done(w)
    /\ Start(One(Fresh(w.vault, 0)))
    /\ inTurn' = (Alone /\ timers = EmptyBag)
    /\ UNCHANGED <<address, calm, fresh, timers>>

(* refreshSoon: load now, and once more after 4.5 s.                          *)
RefreshSoon(w) ==
    /\ w.kind \in {"act", "zk"}
    /\ Done(w)
    /\ Start(One(Fresh(w.vault, 0)))
    /\ timers' = timers (+) One(w.vault)
    /\ inTurn' = (Alone /\ timers = EmptyBag)
    /\ UNCHANGED <<address, calm, fresh>>

(* submitPropose, submitBatch and submitCall load, then go to the vault,      *)
(* which loads again; doDeposit loads once.  Neither waits for the server.    *)
LoadAfter(w) ==
    /\ w.kind \in {"propose", "deposit"}
    /\ Done(w)
    /\ Start(One(Fresh(w.vault, IF w.kind = "propose" THEN 1 ELSE 0)))
    /\ inTurn' = FALSE
    /\ UNCHANGED <<address, calm, fresh, timers>>

(* doCreate switches to the vault the factory deployed and loads it, twice    *)
(* like selectVault.                                                          *)
Created(w) ==
    /\ w.kind = "create"
    /\ Done(w)
    /\ address' = w.vault
    /\ Start(One(Fresh(w.vault, 0)) (+) One(Fresh(w.vault, 0)))
    /\ timers' = EmptyBag
    /\ calm' = (Busy \subseteq {w.vault})
    /\ inTurn' = FALSE
    /\ fresh' = w.vault

(* The wallet refused or the call failed: only a toast.                       *)
WriteFails(w) ==
    /\ BagIn(w, writes)
    /\ writes' = writes (-) One(w)
    /\ UNCHANGED <<chain, address, shown, loading, loads, timers, history>>

------------------------------------------------------------------------------
(* Other people change the vault, and the server ingests ledgers.             *)
Others(v) ==
    /\ version[v] \in 1..(MaxVersion - 1)
    /\ version' = [version EXCEPT ![v] = @ + 1]
    /\ UNCHANGED <<server, address, shown, loading, loads, timers, writes, history>>

Ingest(v) ==
    /\ server[v] < version[v]
    /\ server' = [server EXCEPT ![v] = version[v]]
    /\ UNCHANGED <<version, address, shown, loading, loads, timers, writes, history>>

AnyLoad == \E l \in BagToSet(loads) : LoadAnswered(l) \/ LoadFails(l)

Next ==
    \/ AnyLoad
    \/ \E v \in Vault : Select(v) \/ Others(v) \/ Ingest(v)
    \/ Reload
    \/ \E v \in BagToSet(timers) : TimerFires(v)
    \/ \E kind \in WriteKind : Submit(kind)
    \/ \E w \in BagToSet(writes) :
            RefreshSoon(w) \/ LoadAfter(w) \/ Created(w) \/ WriteFails(w)

Spec == Init /\ [][Next]_vars

(* The server answers reads or refuses them, and keeps up with the ledger.    *)
Fairness == WF_vars(AnyLoad) /\ \A v \in Vault : WF_vars(Ingest(v))

------------------------------------------------------------------------------
Quiet == Alone /\ timers = EmptyBag /\ writes = EmptyBag

(* When the address changes while nothing of another vault is under way and   *)
(* no load fails after that, a page at rest shows that vault and no other:    *)
(* it is only overlap and failure that selectVault does not guard against.    *)
CalmPageShowsItsVault ==
    Quiet /\ calm /\ address # NoVault =>
        \A f \in Field : shown[f].vault = address

(* What the second load of refreshSoon buys: if the loads after a write ran   *)
(* one at a time, the page at rest includes that write, or at least all that  *)
(* the server had of the vault 4.5 s later, should it lag longer than that.   *)
RereadIsShown ==
    Quiet /\ inTurn /\ calm /\ address # NoVault =>
        \A f \in Field : shown[f].asOf >= owed[address]

(* No load keeps the page loading for ever, whether it succeeds or fails.     *)
LoadingEnds == loading ~> ~loading

------------------------------------------------------------------------------
(* Sentences of the code that TLC refutes; the README says how.               *)
(* "live chain data for the active vault -- each vault is its own contract    *)
(* address" (the comment on the page's state).                                *)
ScreenShowsActiveVault ==
    Quiet /\ address # NoVault => \A f \in Field : shown[f].vault = address

(* refreshSoon: "re-read now AND after a few seconds -- covers the RPC lag    *)
(* right after a write".  It is not covered when the server lags longer, and  *)
(* not when loads overlap or a proof calls the timer off.                     *)
LagIsCovered == [][\A v \in Vault : owed'[v] >= owed[v]]_vars
WriteIsCovered ==
    Quiet /\ address # NoVault =>
        \A f \in Field : shown[f].vault = address => shown[f].asOf >= owed[address]

(* getZkConfig: "Null is the honest answer for every vault deployed before    *)
(* enforcement existed"; getPolicy: "v1 vault -- no guards".                  *)
DefaultsMeanOldVault ==
    \A f \in Field : shown[f].fallback => shown[f].vault \in Old

(* doCreate: "getVault retries through the fresh-deploy RPC lag".             *)
FreshVaultIsShown ==
    Quiet /\ fresh # NoVault /\ address = fresh => shown["config"].vault = fresh
=============================================================================
