----------------------------- MODULE PageProofs ------------------------------
(* The dashboard's promises for any number of vaults, loads, signers, answers *)
(* and clicks: what a page at rest shows, what a form over the guards         *)
(* proposes, and what the recipient field makes public.                       *)
EXTENDS VaultView, GuardsForm, RecipientCheck, TLAPS

------------------------------------------------------------------------------
(* Bags, as the page uses them.                                               *)
LEMMA BagSum ==
    ASSUME NEW A, NEW B
    PROVE  BagToSet(A (+) B) = BagToSet(A) \cup BagToSet(B)
BY DEF BagToSet, (+)

LEMMA SumIsABag ==
    ASSUME NEW A, NEW B, IsABag(A), IsABag(B)
    PROVE  IsABag(A (+) B)
BY DEF IsABag, (+)

LEMMA BagDifference ==
    ASSUME NEW A, NEW B, IsABag(A)
    PROVE  /\ BagToSet(A (-) B) \subseteq BagToSet(A)
           /\ BagToSet(A) \ BagToSet(B) \subseteq BagToSet(A (-) B)
BY DEF BagToSet, IsABag, (-)

LEMMA DifferenceIsABag ==
    ASSUME NEW A, NEW x, IsABag(A)
    PROVE  IsABag(A (-) One(x))
BY DEF IsABag, (-), One, SetToBag

LEMMA BagOfOne ==
    ASSUME NEW x
    PROVE  BagToSet(One(x)) = {x} /\ IsABag(One(x))
BY DEF BagToSet, One, SetToBag, IsABag

LEMMA BagOfNone == BagToSet(EmptyBag) = {} /\ IsABag(EmptyBag)
BY DEF BagToSet, EmptyBag, SetToBag, IsABag

------------------------------------------------------------------------------
(* The five stages of a load, and the loads a page starts and goes on with.   *)
LEMMA FiveStages ==
    /\ DOMAIN Stages = 1..5 /\ Len(Stages) = 5
    /\ Field = UNION {Stages[s] : s \in 1..5}
BY DEF Stages, Field

LEMMA FreshIsLoad ==
    ASSUME NEW v \in Vault, NEW again \in {0, 1}, server \in [Vault -> Nat]
    PROVE  /\ Fresh(v, again) \in Load
           /\ Fresh(v, again).vault = v /\ Fresh(v, again).stage = 1
           /\ Fresh(v, again).since = server[v]
BY FiveStages DEF Fresh, Load

LEMMA OnwardIsLoad ==
    ASSUME NEW l \in Load, server \in [Vault -> Nat]
    PROVE  /\ IsABag(Onward(l))
           /\ \A m \in BagToSet(Onward(l)) :
                m \in Load /\ m.vault = l.vault /\ m.since = server[l.vault]
           /\ l.stage < 5 =>
                \E m \in BagToSet(Onward(l)) : m.stage = l.stage + 1
<1>1. /\ l.stage \in 1..5 /\ l.vault \in Vault /\ l.again \in {0, 1}
      /\ server[l.vault] \in Nat
  BY FiveStages DEF Load
<1>2. CASE l.stage < 5
  <2> DEFINE m == [l EXCEPT !.stage = @ + 1, !.since = server[l.vault]]
  <2>1. Onward(l) = One(m)
    BY <1>2, FiveStages DEF Onward
  <2>2. m = [vault |-> l.vault, stage |-> l.stage + 1,
             since |-> server[l.vault], again |-> l.again]
    <3>1. l = [vault |-> l.vault, stage |-> l.stage, since |-> l.since,
               again |-> l.again]
      BY DEF Load
    <3> DEFINE n == [l EXCEPT !.stage = @ + 1]
    <3>2. n = [vault |-> l.vault, stage |-> l.stage + 1, since |-> l.since,
               again |-> l.again]
      BY <3>1
    <3> HIDE DEF n
    <3>3. [n EXCEPT !.since = server[l.vault]] =
            [vault |-> l.vault, stage |-> l.stage + 1,
             since |-> server[l.vault], again |-> l.again]
      BY <3>2
    <3> QED
      BY <3>3 DEF n
  <2>3. l.stage + 1 \in DOMAIN Stages
    BY <1>1, <1>2, FiveStages
  <2> HIDE DEF m
  <2>4. m \in Load
    BY <1>1, <2>2, <2>3 DEF Load
  <2> QED
    BY <2>1, <2>2, <2>4, BagOfOne
<1>3. CASE ~(l.stage < 5) /\ l.again > 0
  <2>1. Onward(l) = One(Fresh(l.vault, 0))
    BY <1>3, FiveStages DEF Onward
  <2>2. /\ Fresh(l.vault, 0) \in Load /\ Fresh(l.vault, 0).vault = l.vault
        /\ Fresh(l.vault, 0).since = server[l.vault]
    BY <1>1, FreshIsLoad
  <2> QED
    BY <1>3, <2>1, <2>2, BagOfOne
<1>4. CASE ~(l.stage < 5) /\ ~(l.again > 0)
  <2>1. Onward(l) = EmptyBag
    BY <1>4, FiveStages DEF Onward
  <2> QED
    BY <1>4, <2>1, BagOfNone
<1> QED
  BY <1>2, <1>3, <1>4

(* What an answer puts on screen.                                             *)
LEMMA AnswersAre ==
    ASSUME NEW l \in Load, NEW f \in Field, server \in [Vault -> Nat],
           NEW x \in Answers(l, f)
    PROVE  /\ x \in Shown /\ x.vault = l.vault
           /\ x.asOf >= l.since \/ x.asOf = server[l.vault]
<1>1. l.vault \in Vault /\ l.since \in Nat /\ server[l.vault] \in Nat
  BY DEF Load
<1>2. CASE \E n \in l.since..server[l.vault] :
            x = [vault |-> l.vault, asOf |-> n,
                 fallback |-> l.vault \in Old /\ f # "config"]
  <2>1. PICK n \in l.since..server[l.vault] :
            x = [vault |-> l.vault, asOf |-> n,
                 fallback |-> l.vault \in Old /\ f # "config"]
    BY <1>2
  <2>2. n \in Nat /\ n >= l.since
    BY <1>1, <2>1
  <2> DEFINE b == l.vault \in Old /\ f # "config"
  <2>3. b \in BOOLEAN
    OBVIOUS
  <2>4. x = [vault |-> l.vault, asOf |-> n, fallback |-> b]
    BY <2>1
  <2> HIDE DEF b
  <2> QED
    BY <1>1, <2>2, <2>3, <2>4 DEF Shown
<1>3. CASE x = [vault |-> l.vault, asOf |-> server[l.vault], fallback |-> TRUE]
  BY <1>1, <1>3 DEF Shown
<1> QED
  BY <1>2, <1>3 DEF Answers

(* A stage that answers fills its fields from the vault it was asked of, and  *)
(* leaves the others.                                                         *)
LEMMA StageFills ==
    ASSUME NEW l \in Load, server \in [Vault -> Nat],
           shown \in [Field -> Shown], LoadAnswered(l)
    PROVE  /\ shown' \in [Field -> Shown]
           /\ \A f \in Field :
                IF f \in Stages[l.stage]
                THEN /\ shown'[f].vault = l.vault
                     /\ \/ shown'[f].asOf >= l.since
                        \/ shown'[f].asOf = server[l.vault]
                ELSE shown'[f] = shown[f]
<1>1. PICK answer \in [Stages[l.stage] -> UNION {Answers(l, f) : f \in Stages[l.stage]}] :
        /\ \A f \in Stages[l.stage] : answer[f] \in Answers(l, f)
        /\ shown' = [f \in Field |-> IF f \in Stages[l.stage] THEN answer[f]
                                     ELSE shown[f]]
  BY DEF LoadAnswered
<1>2. \A f \in Field : f \in Stages[l.stage] =>
        /\ answer[f] \in Shown /\ answer[f].vault = l.vault
        /\ answer[f].asOf >= l.since \/ answer[f].asOf = server[l.vault]
  BY <1>1, AnswersAre
<1> QED
  BY <1>1, <1>2

------------------------------------------------------------------------------
(* The page's types; loads under way are a bag of them.                       *)
ViewOK == TypeOK /\ IsABag(loads) /\ IsABag(timers) /\ IsABag(writes)

LEMMA ViewInit == ViewAssumption /\ Init => ViewOK
<1> SUFFICES ASSUME ViewAssumption, Init PROVE ViewOK
  OBVIOUS
<1>1. Blank \in Shown
  BY DEF Blank, Shown
<1> QED
  BY <1>1, BagOfNone DEF Init, ViewOK, TypeOK

LEMMA LoadsStart ==
    ASSUME ViewOK, NEW more, IsABag(more), BagToSet(more) \subseteq Load,
           Start(more)
    PROVE  /\ IsABag(loads') /\ BagToSet(loads') = BagToSet(loads) \cup BagToSet(more)
           /\ BagToSet(loads') \subseteq Load
           /\ loading' \in BOOLEAN
BY BagSum, SumIsABag DEF Start, ViewOK, TypeOK

(* One load, or the two of selectVault.                                       *)
LEMMA FreshLoads ==
    ASSUME ViewOK, NEW v \in Vault, NEW again \in {0, 1}
    PROVE  LET one == One(Fresh(v, again))
               two == One(Fresh(v, 0)) (+) One(Fresh(v, 0))
           IN  /\ IsABag(one) /\ BagToSet(one) = {Fresh(v, again)}
               /\ BagToSet(one) \subseteq Load
               /\ IsABag(two) /\ BagToSet(two) = {Fresh(v, 0)}
               /\ BagToSet(two) \subseteq Load
<1>1. Fresh(v, again) \in Load /\ Fresh(v, 0) \in Load
  BY FreshIsLoad DEF ViewOK, TypeOK
<1> QED
  BY <1>1, BagOfOne, BagSum, SumIsABag

(* The page goes on after a load, whichever way it ended.                     *)
LEMMA LoadsGoOn ==
    ASSUME ViewOK, NEW l \in BagToSet(loads), NEW more,
           IsABag(more), BagToSet(more) \subseteq Load,
           loads' = (loads (-) One(l)) (+) more
    PROVE  /\ IsABag(loads') /\ BagToSet(loads') \subseteq Load
           /\ BagToSet(loads') \subseteq BagToSet(loads) \cup BagToSet(more)
           /\ BagToSet(loads) \ {l} \subseteq BagToSet(loads')
           /\ BagToSet(more) \subseteq BagToSet(loads')
<1>1. /\ IsABag(loads (-) One(l))
      /\ BagToSet(loads (-) One(l)) \subseteq BagToSet(loads)
      /\ BagToSet(loads) \ {l} \subseteq BagToSet(loads (-) One(l))
  BY BagDifference, DifferenceIsABag, BagOfOne DEF ViewOK
<1> QED
  BY <1>1, BagSum, SumIsABag DEF ViewOK, TypeOK

LEMMA Removed ==
    ASSUME NEW A, NEW x, IsABag(A)
    PROVE  IsABag(A (-) One(x)) /\ BagToSet(A (-) One(x)) \subseteq BagToSet(A)
BY BagDifference, DifferenceIsABag

LEMMA AnsweredTypes ==
    ASSUME ViewOK, NEW l \in BagToSet(loads), LoadAnswered(l)
    PROVE  ViewOK'
<1>1. l \in Load /\ server \in [Vault -> Nat] /\ shown \in [Field -> Shown]
  BY DEF ViewOK, TypeOK
<1>2. IsABag(loads') /\ BagToSet(loads') \subseteq Load
  BY <1>1, OnwardIsLoad, LoadsGoOn DEF LoadAnswered
<1>3. shown' \in [Field -> Shown]
  BY <1>1, StageFills
<1>4. loading' \in BOOLEAN
  <2>1. loading' = IF l.stage = Len(Stages) THEN l.again > 0 ELSE loading
    BY DEF LoadAnswered
  <2>2. loading \in BOOLEAN /\ (l.again > 0) \in BOOLEAN
    BY DEF ViewOK, TypeOK
  <2> QED
    BY <2>1, <2>2
<1>5. UNCHANGED <<version, server, address, timers, writes, history>>
  BY DEF LoadAnswered, chain
<1> QED
  BY <1>2, <1>3, <1>4, <1>5 DEF ViewOK, TypeOK, history

LEMMA FailedTypes ==
    ASSUME ViewOK, NEW l \in BagToSet(loads), LoadFails(l)
    PROVE  ViewOK'
<1>1. l \in Load /\ l.vault \in Vault
  BY DEF ViewOK, TypeOK, Load
<1> DEFINE more == IF l.again > 0 THEN One(Fresh(l.vault, 0)) ELSE EmptyBag
<1>2. IsABag(more) /\ BagToSet(more) \subseteq Load
  BY <1>1, FreshLoads, BagOfNone
<1> HIDE DEF more
<1>3. loads' = (loads (-) One(l)) (+) more
  BY DEF LoadFails, more
<1>4. IsABag(loads') /\ BagToSet(loads') \subseteq Load
  BY <1>2, <1>3, LoadsGoOn
<1>5. loading' \in BOOLEAN
  BY DEF LoadFails
<1>6. /\ UNCHANGED <<version, server, address, shown, timers, writes, owed, fresh>>
      /\ calm' = FALSE /\ inTurn' = FALSE
  BY DEF LoadFails, chain
<1> QED
  BY <1>4, <1>5, <1>6 DEF ViewOK, TypeOK

LEMMA SelectedTypes ==
    ASSUME ViewOK, NEW v \in Vault, Select(v)
    PROVE  ViewOK'
<1>1. /\ IsABag(loads') /\ BagToSet(loads') \subseteq Load
      /\ loading' \in BOOLEAN
  BY FreshLoads, LoadsStart DEF Select
<1> QED
  BY <1>1, BagOfNone DEF Select, ViewOK, TypeOK, chain

LEMMA ReloadTypes == ViewOK /\ Reload => ViewOK'
<1> SUFFICES ASSUME ViewOK, Reload PROVE ViewOK'
  OBVIOUS
<1>1. address \in Vault
  BY DEF Reload, ViewOK, TypeOK
<1>2. /\ IsABag(loads') /\ BagToSet(loads') \subseteq Load
      /\ loading' \in BOOLEAN
  BY <1>1, FreshLoads, LoadsStart DEF Reload
<1> QED
  BY <1>2 DEF Reload, ViewOK, TypeOK, chain, Alone

LEMMA TimerTypes ==
    ASSUME ViewOK, NEW v \in BagToSet(timers), TimerFires(v)
    PROVE  ViewOK'
<1>1. v \in Vault /\ server[v] \in Nat
  BY DEF ViewOK, TypeOK
<1>2. /\ IsABag(loads') /\ BagToSet(loads') \subseteq Load
      /\ loading' \in BOOLEAN
  BY <1>1, FreshLoads, LoadsStart DEF TimerFires
<1>3. IsABag(timers') /\ BagToSet(timers') \subseteq Vault
  BY Removed DEF TimerFires, ViewOK, TypeOK
<1>4. owed' \in [Vault -> Nat]
  BY <1>1 DEF TimerFires, ViewOK, TypeOK
<1> QED
  BY <1>2, <1>3, <1>4 DEF TimerFires, ViewOK, TypeOK, chain, Alone

LEMMA SubmitTypes ==
    ASSUME ViewAssumption, ViewOK, NEW kind \in WriteKind, Submit(kind)
    PROVE  ViewOK'
<1>1. PICK v \in IF kind = "create" THEN {u \in Vault : version[u] = 0} ELSE {address} :
            writes' = writes (+) One([vault |-> v, kind |-> kind])
  BY DEF Submit
<1>2. v \in Vault
  BY <1>1 DEF Submit, ViewOK, TypeOK
<1>3. [vault |-> v, kind |-> kind] \in Write
  BY <1>2 DEF Write
<1>4. IsABag(writes') /\ BagToSet(writes') \subseteq Write
  BY <1>1, <1>3, BagOfOne, BagSum, SumIsABag DEF ViewOK, TypeOK
<1>5. IsABag(timers') /\ BagToSet(timers') \subseteq Vault
  BY BagOfNone DEF Submit, ViewOK, TypeOK
<1> QED
  BY <1>4, <1>5 DEF Submit, ViewOK, TypeOK, chain

LEMMA DoneTypes ==
    ASSUME ViewOK, NEW w \in BagToSet(writes), Done(w)
    PROVE  /\ w \in Write /\ w.vault \in Vault
           /\ IsABag(writes') /\ BagToSet(writes') \subseteq BagToSet(writes)
           /\ version' \in [Vault -> Nat] /\ owed' \in [Vault -> Nat]
           /\ owed'[w.vault] = version[w.vault] + 1
           /\ version[w.vault] + 1 \in Nat
           /\ \A v \in Vault : v # w.vault => owed'[v] = owed[v]
           /\ UNCHANGED <<server, shown>>
<1>1. w \in Write /\ w.vault \in Vault
  BY DEF ViewOK, TypeOK, Write
<1>2. IsABag(writes') /\ BagToSet(writes') \subseteq BagToSet(writes)
  BY Removed DEF Done, ViewOK
<1> QED
  BY <1>1, <1>2 DEF Done, ViewOK, TypeOK

LEMMA HandlerTypes ==
    ASSUME ViewOK, NEW w \in BagToSet(writes),
           RefreshSoon(w) \/ LoadAfter(w) \/ Created(w) \/ WriteFails(w)
    PROVE  ViewOK'
<1>1. CASE RefreshSoon(w)
  <2>1. /\ Done(w) /\ Start(One(Fresh(w.vault, 0)))
        /\ timers' = timers (+) One(w.vault)
    BY <1>1 DEF RefreshSoon
  <2>2. w.vault \in Vault
    BY <2>1, DoneTypes
  <2>3. IsABag(timers') /\ BagToSet(timers') \subseteq Vault
    BY <2>1, <2>2, BagOfOne, BagSum, SumIsABag DEF ViewOK, TypeOK
  <2>4. /\ IsABag(loads') /\ BagToSet(loads') \subseteq Load
        /\ loading' \in BOOLEAN
    BY <2>1, DoneTypes, FreshLoads, LoadsStart
  <2> QED
    BY <1>1, <2>1, <2>3, <2>4, DoneTypes DEF RefreshSoon, ViewOK, TypeOK, Alone
<1>2. CASE LoadAfter(w)
  <2> DEFINE again == IF w.kind = "propose" THEN 1 ELSE 0
  <2>1. Done(w) /\ Start(One(Fresh(w.vault, again))) /\ again \in {0, 1}
    BY <1>2 DEF LoadAfter
  <2> HIDE DEF again
  <2>2. /\ IsABag(loads') /\ BagToSet(loads') \subseteq Load
        /\ loading' \in BOOLEAN
    BY <2>1, DoneTypes, FreshLoads, LoadsStart
  <2> QED
    BY <1>2, <2>1, <2>2, DoneTypes DEF LoadAfter, ViewOK, TypeOK
<1>3. CASE Created(w)
  <2>1. Done(w) /\ Start(One(Fresh(w.vault, 0)) (+) One(Fresh(w.vault, 0)))
    BY <1>3 DEF Created
  <2>2. /\ IsABag(loads') /\ BagToSet(loads') \subseteq Load
        /\ loading' \in BOOLEAN
    BY <2>1, DoneTypes, FreshLoads, LoadsStart
  <2> QED
    BY <1>3, <2>1, <2>2, DoneTypes, BagOfNone DEF Created, ViewOK, TypeOK
<1>4. CASE WriteFails(w)
  BY <1>4, Removed DEF WriteFails, ViewOK, TypeOK, chain, history
<1> QED
  BY <1>1, <1>2, <1>3, <1>4

LEMMA ViewNext ==
    ASSUME ViewAssumption, ViewOK, [Next]_vars
    PROVE  ViewOK'
<1>1. CASE AnyLoad
  BY <1>1, AnsweredTypes, FailedTypes DEF AnyLoad
<1>2. ASSUME NEW v \in Vault, Others(v) \/ Ingest(v) PROVE ViewOK'
  BY <1>2 DEF Others, Ingest, ViewOK, TypeOK, history
<1>3. ASSUME NEW kind \in WriteKind, Submit(kind) PROVE ViewOK'
  BY <1>3, SubmitTypes
<1>4. CASE UNCHANGED vars
  BY <1>4 DEF vars, ViewOK, TypeOK
<1> QED
  BY <1>1, <1>2, <1>3, <1>4, SelectedTypes, ReloadTypes, TimerTypes, HandlerTypes
  DEF Next

(* What is on screen, under way and remembered stays well-formed, with any    *)
(* number of vaults, loads, timers and writes.                                *)
THEOREM ViewTypeCorrect == Spec => []TypeOK
<1>1. Init => ViewOK
  BY ViewAssumption, ViewInit
<1>2. ViewOK /\ [Next]_vars => ViewOK'
  BY ViewAssumption, ViewNext
<1>3. ViewOK => TypeOK
  BY DEF ViewOK
<1> QED
  BY <1>1, <1>2, <1>3, PTL DEF Spec

------------------------------------------------------------------------------
(* What a page at rest shows follows from what is under way before it rests.  *)
(* A load under way has yet to set the field.                                 *)
Pending(f) ==
    \E l \in BagToSet(loads) : \E s \in 1..5 : l.stage <= s /\ f \in Stages[s]

OwnVault ==
    /\ \A l \in BagToSet(loads) : l.vault = address
    /\ \A v \in BagToSet(timers) : v = address
    /\ \A w \in BagToSet(writes) : w.kind # "create" => w.vault = address

ShowsItsVault ==
    calm /\ address # NoVault =>
        /\ OwnVault
        /\ \A f \in Field : shown[f].vault = address \/ Pending(f)

(* Either a timer will still start a load, or what is on screen and under way *)
(* includes what is owed.                                                     *)
ToBeRead == BagToSet(timers) # {}
BeingRead ==
    /\ server[address] >= owed[address]
    /\ \A l \in BagToSet(loads) : l.since >= owed[address]
    /\ \A f \in Field : shown[f].asOf >= owed[address] \/ Pending(f)

ShowsOwnWrite ==
    inTurn /\ calm /\ address # NoVault => ToBeRead \/ BeingRead

LEMMA PendingKept ==
    ASSUME BagToSet(loads) \subseteq BagToSet(loads')
    PROVE  \A f \in Field : Pending(f) => Pending(f)'
BY DEF Pending

LEMMA FreshCoversAll ==
    ASSUME ViewOK, NEW v \in Vault, NEW again \in {0, 1},
           Fresh(v, again) \in BagToSet(loads')
    PROVE  \A f \in Field : Pending(f)'
<1>1. Fresh(v, again).stage = 1
  BY FreshIsLoad DEF ViewOK, TypeOK
<1> QED
  BY <1>1, FiveStages DEF Pending

LEMMA AnswerSets ==
    ASSUME ViewOK, NEW l \in BagToSet(loads), LoadAnswered(l)
    PROVE  /\ l \in Load /\ l.vault \in Vault /\ l.stage \in 1..5
           /\ \A m \in BagToSet(loads') :
                \/ m \in BagToSet(loads)
                \/ m.vault = l.vault /\ m.since = server[l.vault]
           /\ \A f \in Field :
                \/ /\ shown'[f].vault = l.vault
                   /\ \/ shown'[f].asOf >= l.since
                      \/ shown'[f].asOf = server[l.vault]
                \/ shown'[f] = shown[f] /\ (Pending(f) => Pending(f)')
           /\ UNCHANGED <<version, server, address, timers, writes, history>>
<1>1. /\ l \in Load /\ l.vault \in Vault /\ l.stage \in 1..5
      /\ server \in [Vault -> Nat] /\ shown \in [Field -> Shown]
  BY FiveStages DEF ViewOK, TypeOK, Load
<1>2. /\ BagToSet(loads') \subseteq BagToSet(loads) \cup BagToSet(Onward(l))
      /\ BagToSet(loads) \ {l} \subseteq BagToSet(loads')
      /\ BagToSet(Onward(l)) \subseteq BagToSet(loads')
  BY <1>1, OnwardIsLoad, LoadsGoOn DEF LoadAnswered
<1>3. ASSUME NEW f \in Field, Pending(f), f \notin Stages[l.stage]
      PROVE  Pending(f)'
  <2>1. PICK m \in BagToSet(loads), s \in 1..5 : m.stage <= s /\ f \in Stages[s]
    BY <1>3 DEF Pending
  <2>2. CASE m # l
    BY <1>2, <2>1, <2>2 DEF Pending
  <2>3. CASE m = l
    <3>1. l.stage + 1 <= s /\ l.stage < 5
      BY <1>1, <1>3, <2>1, <2>3
    <3>2. PICK n \in BagToSet(Onward(l)) : n.stage = l.stage + 1
      BY <1>1, <3>1, OnwardIsLoad
    <3> QED
      BY <1>2, <2>1, <3>1, <3>2 DEF Pending
  <2> QED
    BY <2>2, <2>3
<1>4. UNCHANGED <<version, server, address, timers, writes, history>>
  BY DEF LoadAnswered, chain
<1> QED
  BY <1>1, <1>2, <1>3, <1>4, OnwardIsLoad, StageFills

(* Moving to a vault starts two loads of it; the page is calm if nothing of   *)
(* another vault is under way.                                                *)
LEMMA MovedShowsItsVault ==
    ASSUME ViewOK, NEW v \in Vault, address' = v, calm' = (Busy \subseteq {v}),
           Start(One(Fresh(v, 0)) (+) One(Fresh(v, 0))), timers' = EmptyBag,
           BagToSet(writes') \subseteq BagToSet(writes)
    PROVE  ShowsItsVault'
<1>1. BagToSet(loads') = BagToSet(loads) \cup {Fresh(v, 0)}
  BY FreshLoads, LoadsStart
<1>2. \A f \in Field : Pending(f)'
  BY <1>1, FreshCoversAll
<1>3. calm' => /\ \A l \in BagToSet(loads) : l.vault = v
               /\ \A w \in BagToSet(writes) : w.vault = v
  BY DEF Busy
<1>4. Fresh(v, 0).vault = v
  BY FreshIsLoad DEF ViewOK, TypeOK
<1>5. BagToSet(timers') = {}
  BY BagOfNone
<1> QED
  BY <1>1, <1>2, <1>3, <1>4, <1>5 DEF ShowsItsVault, OwnVault

LEMMA HandlerShowsItsVault ==
    ASSUME ViewOK, ShowsItsVault, NEW w \in BagToSet(writes),
           RefreshSoon(w) \/ LoadAfter(w) \/ Created(w) \/ WriteFails(w)
    PROVE  ShowsItsVault'
<1>1. ASSUME Done(w), w.kind # "create", NEW again \in {0, 1},
             Start(One(Fresh(w.vault, again))),
             timers' = timers \/ timers' = timers (+) One(w.vault),
             UNCHANGED <<address, calm>>
      PROVE  ShowsItsVault'
  <2>1. BagToSet(loads') = BagToSet(loads) \cup {Fresh(w.vault, again)}
    BY <1>1, DoneTypes, FreshLoads, LoadsStart
  <2>2. Fresh(w.vault, again).vault = w.vault
    BY <1>1, DoneTypes, FreshIsLoad DEF ViewOK, TypeOK
  <2>3. \A f \in Field : Pending(f)'
    BY <1>1, <2>1, DoneTypes, FreshCoversAll
  <2>4. BagToSet(writes') \subseteq BagToSet(writes)
    BY <1>1, DoneTypes
  <2>5. \A v \in BagToSet(timers') : v \in BagToSet(timers) \/ v = w.vault
    BY <1>1, BagSum, BagOfOne
  <2> QED
    BY <1>1, <2>1, <2>2, <2>3, <2>4, <2>5 DEF ShowsItsVault, OwnVault
<1>2. CASE RefreshSoon(w)
  BY <1>1, <1>2 DEF RefreshSoon
<1>3. CASE LoadAfter(w)
  <2> DEFINE again == IF w.kind = "propose" THEN 1 ELSE 0
  <2>1. again \in {0, 1} /\ Start(One(Fresh(w.vault, again)))
    BY <1>3 DEF LoadAfter
  <2> HIDE DEF again
  <2> QED
    BY <1>1, <1>3, <2>1 DEF LoadAfter
<1>4. CASE Created(w)
  BY <1>4, DoneTypes, MovedShowsItsVault DEF Created
<1>5. CASE WriteFails(w)
  <2>1. BagToSet(writes') \subseteq BagToSet(writes)
    BY <1>5, Removed DEF WriteFails, ViewOK
  <2> QED
    BY <1>5, <2>1 DEF WriteFails, chain, history, ShowsItsVault, OwnVault, Pending
<1> QED
  BY <1>2, <1>3, <1>4, <1>5

LEMMA ShowsItsVaultNext ==
    ASSUME ViewAssumption, ViewOK, ShowsItsVault, [Next]_vars
    PROVE  ShowsItsVault'
<1>1. ASSUME NEW l \in BagToSet(loads), LoadAnswered(l) PROVE ShowsItsVault'
  BY <1>1, AnswerSets DEF ShowsItsVault, OwnVault, history
<1>2. ASSUME NEW l \in BagToSet(loads), LoadFails(l) PROVE ShowsItsVault'
  BY <1>2 DEF LoadFails, ShowsItsVault
<1>3. ASSUME NEW v \in Vault, Select(v) PROVE ShowsItsVault'
  BY <1>3, MovedShowsItsVault DEF Select
<1>4. ASSUME NEW v \in Vault, Others(v) \/ Ingest(v) PROVE ShowsItsVault'
  BY <1>4 DEF Others, Ingest, history, ShowsItsVault, OwnVault, Pending
<1>5. CASE Reload
  <2>1. address \in Vault
    BY <1>5 DEF Reload, ViewOK, TypeOK
  <2>2. BagToSet(loads') = BagToSet(loads) \cup {Fresh(address, 0)}
    BY <1>5, <2>1, FreshLoads, LoadsStart DEF Reload
  <2>3. Fresh(address, 0).vault = address
    BY <2>1, FreshIsLoad DEF ViewOK, TypeOK
  <2> QED
    BY <1>5, <2>2, <2>3, PendingKept DEF Reload, chain, ShowsItsVault, OwnVault
<1>6. ASSUME NEW v \in BagToSet(timers), TimerFires(v) PROVE ShowsItsVault'
  <2>1. v \in Vault
    BY DEF ViewOK, TypeOK
  <2>2. BagToSet(loads') = BagToSet(loads) \cup {Fresh(v, 0)}
    BY <1>6, <2>1, FreshLoads, LoadsStart DEF TimerFires
  <2>3. Fresh(v, 0).vault = v
    BY <2>1, FreshIsLoad DEF ViewOK, TypeOK
  <2>4. BagToSet(timers') \subseteq BagToSet(timers)
    BY <1>6, Removed DEF TimerFires, ViewOK
  <2> QED
    BY <1>6, <2>2, <2>3, <2>4, PendingKept
    DEF TimerFires, chain, ShowsItsVault, OwnVault
<1>7. ASSUME NEW kind \in WriteKind, Submit(kind) PROVE ShowsItsVault'
  <2>1. PICK v \in IF kind = "create" THEN {u \in Vault : version[u] = 0} ELSE {address} :
            writes' = writes (+) One([vault |-> v, kind |-> kind])
    BY <1>7 DEF Submit
  <2>2. BagToSet(writes') = BagToSet(writes) \cup {[vault |-> v, kind |-> kind]}
    BY <2>1, BagSum, BagOfOne
  <2>3. BagToSet(timers') \subseteq BagToSet(timers)
    BY <1>7, BagOfNone DEF Submit
  <2>4. UNCHANGED <<address, shown, loads, calm>>
    BY <1>7 DEF Submit, chain
  <2>5. \A w \in BagToSet(writes') : w \in BagToSet(writes)
            \/ w = [vault |-> v, kind |-> kind]
    BY <2>2
  <2>6. kind # "create" => v = address
    BY <2>1
  <2>7. \A w \in BagToSet(writes') : w.kind # "create" =>
            w \in BagToSet(writes) \/ w.vault = address
    BY <2>5, <2>6
  <2> QED
    BY <2>3, <2>4, <2>7 DEF ShowsItsVault, OwnVault, Pending
<1>8. CASE UNCHANGED vars
  BY <1>8 DEF vars, ShowsItsVault, OwnVault, Pending
<1> QED
  BY <1>1, <1>2, <1>3, <1>4, <1>5, <1>6, <1>7, <1>8, HandlerShowsItsVault
  DEF Next, AnyLoad

(* A page that comes to rest shows the vault it names, in every field, if no  *)
(* load of another vault was under way when it moved there and none failed    *)
(* since: only overlap and failure defeat selectVault, whatever loads, timers *)
(* and handlers there were.                                                   *)
THEOREM CalmPagesAreRight == Spec => []CalmPageShowsItsVault
<1>1. Init => ShowsItsVault
  BY DEF Init, ShowsItsVault
<1>2. ViewOK /\ ShowsItsVault /\ [Next]_vars => ShowsItsVault'
  BY ViewAssumption, ShowsItsVaultNext
<1>3. ShowsItsVault => CalmPageShowsItsVault
  BY BagOfNone DEF ShowsItsVault, CalmPageShowsItsVault, Quiet, Alone, Pending
<1>4. Init => ViewOK
  BY ViewAssumption, ViewInit
<1>5. ViewOK /\ [Next]_vars => ViewOK'
  BY ViewAssumption, ViewNext
<1> QED
  BY <1>1, <1>2, <1>3, <1>4, <1>5, PTL DEF Spec

------------------------------------------------------------------------------
(* And what it wrote itself, as long as loads take turns.                     *)
LEMMA ShowsOwnWriteNext ==
    ASSUME ViewAssumption, ViewOK, ShowsItsVault, ShowsOwnWrite, [Next]_vars
    PROVE  ShowsOwnWrite'
<1> SUFFICES ASSUME inTurn', calm', address' # NoVault
             PROVE  (ToBeRead \/ BeingRead)'
  BY DEF ShowsOwnWrite
<1>0. /\ server \in [Vault -> Nat] /\ version \in [Vault -> Nat]
      /\ owed \in [Vault -> Nat]
      /\ BagToSet(loads) \subseteq Load
  BY DEF ViewOK, TypeOK
<1>1. ASSUME NEW l \in BagToSet(loads), LoadAnswered(l)
      PROVE  (ToBeRead \/ BeingRead)'
  <2>1. /\ UNCHANGED <<server, address, timers, owed>>
        /\ inTurn /\ calm /\ address # NoVault
    BY <1>1, AnswerSets DEF history
  <2>2. l.vault = address /\ l \in Load
    BY <1>1, <2>1, AnswerSets DEF ShowsItsVault, OwnVault
  <2>3. CASE ToBeRead
    BY <2>1, <2>3 DEF ToBeRead
  <2>4. CASE BeingRead
    <3>1. \A m \in BagToSet(loads') : m.since >= owed'[address']
      BY <1>1, <2>1, <2>2, <2>4, AnswerSets DEF BeingRead
    <3>2. \A f \in Field : shown'[f].asOf >= owed'[address'] \/ Pending(f)'
      <4> TAKE f \in Field
      <4>1. CASE shown'[f] = shown[f] /\ (Pending(f) => Pending(f)')
        BY <2>1, <2>4, <4>1 DEF BeingRead
      <4>2. CASE \/ shown'[f].asOf >= l.since
                 \/ shown'[f].asOf = server[l.vault]
        <5>1. shown'[f].asOf \in Nat
          BY <1>1, AnsweredTypes DEF ViewOK, TypeOK, Shown
        <5>2. address \in Vault /\ owed[address] \in Nat /\ l.since \in Nat
          BY <1>0, <2>1, <2>2 DEF Load
        <5> QED
          BY <2>1, <2>2, <2>4, <4>2, <5>1, <5>2 DEF BeingRead
      <4> QED
        BY <1>1, <4>1, <4>2, AnswerSets
    <3> QED
      BY <2>1, <2>4, <3>1, <3>2 DEF BeingRead
  <2> QED
    BY <2>1, <2>3, <2>4 DEF ShowsOwnWrite
<1>2. ASSUME NEW l \in BagToSet(loads), LoadFails(l)
      PROVE  (ToBeRead \/ BeingRead)'
  BY <1>2 DEF LoadFails
<1>3. ASSUME NEW v \in Vault, Select(v) PROVE (ToBeRead \/ BeingRead)'
  BY <1>3 DEF Select
<1>4. ASSUME NEW v \in Vault, Others(v) \/ Ingest(v)
      PROVE  (ToBeRead \/ BeingRead)'
  <2>1. /\ UNCHANGED <<address, shown, loads, timers, owed>>
        /\ inTurn /\ calm /\ address # NoVault
    BY <1>4 DEF Others, Ingest, history
  <2>2. address \in Vault
    BY <2>1 DEF ViewOK, TypeOK
  <2>3. server'[address] >= server[address] /\ server'[address] \in Nat
    BY <1>0, <1>4, <2>2 DEF Others, Ingest
  <2>4. server[address] \in Nat /\ owed[address] \in Nat
    BY <1>0, <2>2
  <2> QED
    BY <2>1, <2>3, <2>4 DEF ShowsOwnWrite, ToBeRead, BeingRead, Pending
<1>5. CASE Reload
  <2>1. /\ UNCHANGED <<server, address, shown, timers, owed>>
        /\ inTurn /\ calm /\ address # NoVault
    BY <1>5 DEF Reload, chain
  <2>2. address \in Vault
    BY <2>1 DEF ViewOK, TypeOK
  <2>3. BagToSet(loads') = BagToSet(loads) \cup {Fresh(address, 0)}
    BY <1>5, <2>2, FreshLoads, LoadsStart DEF Reload
  <2>4. Fresh(address, 0).since = server[address]
    BY <1>0, <2>2, FreshIsLoad
  <2> QED
    BY <2>1, <2>3, <2>4, PendingKept DEF ShowsOwnWrite, ToBeRead, BeingRead
<1>6. ASSUME NEW v \in BagToSet(timers), TimerFires(v)
      PROVE  (ToBeRead \/ BeingRead)'
  <2>1. /\ UNCHANGED <<server, address, shown>>
        /\ inTurn /\ calm /\ address # NoVault /\ Alone
    BY <1>6 DEF TimerFires, chain
  <2>2. v = address /\ address \in Vault
    BY <2>1 DEF ViewOK, TypeOK, ShowsItsVault, OwnVault
  <2>3. server[address] >= owed'[address]
    BY <1>0, <1>6, <2>2 DEF TimerFires
  <2>4. BagToSet(loads') = {Fresh(address, 0)}
    BY <1>6, <2>1, <2>2, FreshLoads, LoadsStart, BagOfNone DEF TimerFires, Alone
  <2>5. \A f \in Field : Pending(f)'
    BY <2>2, <2>4, FreshCoversAll
  <2>6. Fresh(address, 0).since = server[address]
    BY <1>0, <2>2, FreshIsLoad
  <2>7. server[address] \in Nat /\ owed'[address] \in Nat
    BY <1>0, <1>6, <2>2 DEF TimerFires
  <2> QED
    BY <2>1, <2>3, <2>4, <2>5, <2>6, <2>7 DEF BeingRead
<1>7. ASSUME NEW kind \in WriteKind, Submit(kind) PROVE (ToBeRead \/ BeingRead)'
  <2>1. /\ UNCHANGED <<server, address, shown, loads, owed>>
        /\ inTurn /\ calm /\ address # NoVault
        /\ timers' = timers \/ (timers = EmptyBag /\ timers' = EmptyBag)
    BY <1>7 DEF Submit, chain
  <2> QED
    BY <2>1 DEF ShowsOwnWrite, ToBeRead, BeingRead, Pending
<1>8. ASSUME NEW w \in BagToSet(writes),
             RefreshSoon(w) \/ LoadAfter(w) \/ Created(w) \/ WriteFails(w)
      PROVE  (ToBeRead \/ BeingRead)'
  <2>1. CASE RefreshSoon(w)
    <3>1. timers' = timers (+) One(w.vault)
      BY <2>1 DEF RefreshSoon
    <3> QED
      BY <3>1, BagSum, BagOfOne DEF ToBeRead
  <2>2. CASE LoadAfter(w) \/ Created(w)
    BY <2>2 DEF LoadAfter, Created
  <2>3. CASE WriteFails(w)
    BY <2>3 DEF WriteFails, chain, history, ShowsOwnWrite, ToBeRead, BeingRead, Pending
  <2> QED
    BY <1>8, <2>1, <2>2, <2>3
<1>9. CASE UNCHANGED vars
  BY <1>9 DEF vars, ShowsOwnWrite, ToBeRead, BeingRead, Pending
<1> QED
  BY <1>1, <1>2, <1>3, <1>4, <1>5, <1>6, <1>7, <1>8, <1>9 DEF Next, AnyLoad

(* As long as loads take turns, none fails and the timer is not called off,   *)
(* the page at rest shows its own write or all the server had of the vault    *)
(* when refreshSoon read again, however far the server lags behind the ledger *)
(* and whoever else writes.                                                   *)
THEOREM RereadsAreShown == Spec => []RereadIsShown
<1>1. Init => ShowsItsVault /\ ShowsOwnWrite
  BY DEF Init, ShowsItsVault, ShowsOwnWrite
<1>2. ViewOK /\ ShowsItsVault /\ [Next]_vars => ShowsItsVault'
  BY ViewAssumption, ShowsItsVaultNext
<1>3. ViewOK /\ ShowsItsVault /\ ShowsOwnWrite /\ [Next]_vars => ShowsOwnWrite'
  BY ViewAssumption, ShowsOwnWriteNext
<1>4. ShowsOwnWrite => RereadIsShown
  BY BagOfNone
  DEF ShowsOwnWrite, RereadIsShown, ToBeRead, BeingRead, Quiet, Alone, Pending
<1>5. Init => ViewOK
  BY ViewAssumption, ViewInit
<1>6. ViewOK /\ [Next]_vars => ViewOK'
  BY ViewAssumption, ViewNext
<1> QED
  BY <1>1, <1>2, <1>3, <1>4, <1>5, <1>6, PTL DEF Spec

------------------------------------------------------------------------------
(* The recipient field, as long as no read has failed.                        *)
(* Every check is about the recipient, and "no" is never said of a recipient  *)
(* that had an account when it was typed.                                     *)
Honest(verdict) == verdict = "no" => ~hadAccount
HonestChecks ==
    \A c \in checks :
        /\ c \in Check
        /\ Honest(c.answer)
        /\ c.answer = "unknown" => c.to = recipient

(* Accounts do not disappear, so one that was there is there when it is read. *)
AccountsStay == hadAccount => recipient \in accounts

RecipientInv ==
    /\ faults \in Nat
    /\ faults = 0 => HonestChecks /\ Honest(recipientReady) /\ AccountsStay

LEMMA HonestInit == FieldInit => RecipientInv
  BY DEF FieldInit, RecipientInv, HonestChecks, Honest, AccountsStay

LEMMA HonestNext == RecipientInv /\ [FieldNext]_inquiry => RecipientInv'
<1> SUFFICES ASSUME RecipientInv, [FieldNext]_inquiry PROVE RecipientInv'
  OBVIOUS
<1> USE DEF RecipientInv, HonestChecks, Honest, AccountsStay
<1>1. CASE Type
  <2> PICK a \in (Address \cup {NoAddress}) \ {recipient} :
            /\ recipient' = a
            /\ hadAccount' = (a \in accounts)
            /\ Effect(a)
    BY <1>1 DEF Type
  <2>1. \A c \in checks' : c \in Check /\ c.to = a /\ c.answer = "unknown"
    BY DEF Effect, Check, Verdict
  <2> QED
    BY <1>1, <2>1 DEF Type
<1>2. CASE SendHidden \/ SendPublic
  BY <1>2 DEF SendHidden, SendPublic, input
<1>3. ASSUME NEW c \in checks, Read(c), faults = 0 PROVE RecipientInv'
  <2> DEFINE answer == IF c.to \in accounts THEN "yes" ELSE "no"
  <2>1. c.to = recipient
    BY <1>3 DEF Read
  <2>2. Honest(answer)
    BY <1>3, <2>1
  <2>3. /\ [c EXCEPT !.answer = answer] \in Check
        /\ [c EXCEPT !.answer = answer].answer = answer
    BY <1>3 DEF Check, Verdict
  <2>4. checks' = (checks \ {c}) \cup {[c EXCEPT !.answer = answer]}
    BY <1>3 DEF Read, Answered
  <2>5. answer # "unknown"
    OBVIOUS
  <2> HIDE DEF answer
  <2>6. UNCHANGED <<accounts, recipient, recipientReady, faults, hadAccount>>
    BY <1>3 DEF Read, input
  <2>7. HonestChecks'
    BY <1>3, <2>2, <2>3, <2>4, <2>5, <2>6
  <2> QED
    BY <1>3, <2>6, <2>7
<1>4. ASSUME NEW c \in checks, ReadFails(c) PROVE RecipientInv'
  <2>1. faults' = faults + 1
    BY <1>4 DEF ReadFails
  <2> QED
    BY <2>1
<1>5. ASSUME NEW c \in checks, Answer(c) PROVE RecipientInv'
  BY <1>5 DEF Answer, input
<1>6. ASSUME NEW a \in Address, Join(a) PROVE RecipientInv'
  BY <1>6 DEF Join, input
<1>7. CASE UNCHANGED inquiry
  BY <1>7 DEF inquiry
<1>8. ASSUME NEW c \in checks, Read(c), faults # 0 PROVE RecipientInv'
  BY <1>8 DEF Read
<1> QED
  BY <1>1, <1>2, <1>3, <1>4, <1>5, <1>6, <1>7, <1>8 DEF FieldNext

(* Until a read fails, no amount is made public because of an answer about    *)
(* another address, nor because an answer came late.                          *)
THEOREM NoAmountLeaksByMistake == FieldSpec => PublicOnlyWithoutAccount
<1>1. RecipientInv /\ [FieldNext]_inquiry =>
        [payment'.op = "withdraw" /\ payment.op = "none" /\ faults = 0
            => ~hadAccount]_inquiry
  <2> SUFFICES ASSUME RecipientInv, FieldNext, faults = 0,
                      payment'.op = "withdraw", payment.op = "none"
               PROVE ~hadAccount
    BY DEF inquiry
  <2>1. CASE SendPublic
    BY <2>1 DEF SendPublic, RecipientInv, Honest
  <2>2. CASE SendHidden
    BY <2>2 DEF SendHidden
  <2>3. CASE UNCHANGED payment
    BY <2>3
  <2> QED
    BY <2>1, <2>2, <2>3
    DEF FieldNext, Type, Read, ReadFails,
        Answer, Join
<1> QED
  BY <1>1, HonestInit, HonestNext, PTL
  DEF FieldSpec, PublicOnlyWithoutAccount

------------------------------------------------------------------------------
(* The Guards form.  A form differs from the copy it was filled from in what  *)
(* was touched since, and a proposal from the copy its author had read.       *)
Complete(p) == DOMAIN p = Fields
DiffersIn(next, fields, read) ==
    \A f \in Fields \ fields : next[f] = AsShown(read)[f]

FormsAreFilled ==
    /\ Complete(policy)
    /\ \A s \in Editor :
        /\ s \in DOMAIN page /\ s \in DOMAIN form /\ s \in DOMAIN touched
        /\ Complete(page[s]) /\ Complete(form[s])
        /\ DiffersIn(form[s], touched[s], page[s])
    /\ \A tx \in Tx :
        /\ Complete(proposals[tx].policy)
        /\ DiffersIn(proposals[tx].policy, proposals[tx].touched,
                     proposals[tx].read)
    /\ \E S : proposals \in Seq(S)
    /\ executed \subseteq Tx

LEMMA SavedOnTop ==
    ASSUME NEW S, NEW q \in Seq(S), NEW e
    PROVE  /\ Append(q, e) \in Seq(S \cup {e})
           /\ Len(q) \in Nat /\ Len(Append(q, e)) = Len(q) + 1
           /\ \A i \in 1..Len(q) : Append(q, e)[i] = q[i]
           /\ Append(q, e)[Len(q) + 1] = e
<1>1. q \in Seq(S \cup {e})
  <2>1. /\ Len(q) \in Nat /\ q \in [1..Len(q) -> S]
    OBVIOUS
  <2>2. q \in [1..Len(q) -> S \cup {e}]
    BY <2>1
  <2> QED
    BY <2>1, <2>2
<1> QED
  BY <1>1

LEMMA FormsInit ==
    ASSUME GuardsInit
    PROVE  FormsAreFilled
<1>1. proposals \in Seq({}) /\ Tx = {}
  BY DEF GuardsInit, Tx
<1> QED
  BY <1>1, PolicyAssumption DEF GuardsInit, FormsAreFilled, Complete,
              DiffersIn, AsShown

(* What is filled in anew is the copy it is filled from, untouched.           *)
LEMMA FormsFilledAnew ==
    ASSUME FormsAreFilled, NEW s \in Editor, NEW p, Complete(p),
           Fill(s, p), page' = [page EXCEPT ![s] = p],
           UNCHANGED <<policy, proposals, executed>>
    PROVE  FormsAreFilled'
<1>1. Complete(AsShown(p))
  BY DEF Complete, AsShown
<1>2. \A r \in Editor : r # s =>
        page'[r] = page[r] /\ form'[r] = form[r] /\ touched'[r] = touched[r]
  BY DEF Fill, FormsAreFilled
<1>3. page'[s] = p /\ form'[s] = AsShown(p) /\ touched'[s] = {}
  BY DEF Fill, FormsAreFilled
<1>4. \A r \in Editor :
        /\ r \in DOMAIN page' /\ r \in DOMAIN form' /\ r \in DOMAIN touched'
        /\ Complete(page'[r]) /\ Complete(form'[r])
        /\ DiffersIn(form'[r], touched'[r], page'[r])
  <2> TAKE r \in Editor
  <2>1. CASE r = s
    BY <1>1, <1>3, <2>1 DEF FormsAreFilled, DiffersIn, Fill
  <2>2. CASE r # s
    BY <1>2, <2>2 DEF FormsAreFilled, Fill
  <2> QED
    BY <2>1, <2>2
<1> QED
  BY <1>4 DEF FormsAreFilled, Tx, Complete

LEMMA FormsNext ==
    ASSUME FormsAreFilled, [GuardsNext]_guards
    PROVE  FormsAreFilled'
<1>1. ASSUME NEW s \in Editor, GetPolicy(s) PROVE FormsAreFilled'
  <2>1. Complete(policy)
    BY DEF FormsAreFilled
  <2> QED
    BY <1>1, <2>1, FormsFilledAnew DEF GetPolicy
<1>2. ASSUME NEW s \in Editor, GetPolicyFails(s) PROVE FormsAreFilled'
  <2>1. Complete(OPEN_POLICY)
    BY DEF Complete, Fields
  <2> QED
    BY <1>2, <2>1, FormsFilledAnew DEF GetPolicyFails
<1>3. ASSUME NEW s \in Editor, NEW f \in Fields, Edit(s, f)
      PROVE  FormsAreFilled'
  <2>1. PICK v \in Typed[f] : form' = [form EXCEPT ![s][f] = v]
    BY <1>3 DEF Edit
  <2>2. touched' = [touched EXCEPT ![s] = @ \cup {f}]
    BY <1>3 DEF Edit
  <2>3. UNCHANGED <<policy, page, proposals, executed>>
    BY <1>3 DEF Edit
  <2>4. \A r \in Editor :
        /\ r \in DOMAIN page' /\ r \in DOMAIN form' /\ r \in DOMAIN touched'
        /\ Complete(page'[r]) /\ Complete(form'[r])
        /\ DiffersIn(form'[r], touched'[r], page'[r])
    <3> TAKE r \in Editor
    <3>1. CASE r = s
      <4>1. form'[r] = [form[r] EXCEPT ![f] = v] /\ touched'[r] = touched[r] \cup {f}
        BY <2>1, <2>2, <3>1 DEF FormsAreFilled
      <4>2. Complete(form'[r])
        BY <4>1 DEF FormsAreFilled, Complete
      <4>3. DiffersIn(form'[r], touched'[r], page'[r])
        BY <2>3, <4>1 DEF FormsAreFilled, Complete, DiffersIn
      <4> QED
        BY <2>1, <2>2, <2>3, <4>2, <4>3 DEF FormsAreFilled
    <3>2. CASE r # s
      <4>1. form'[r] = form[r] /\ touched'[r] = touched[r]
        BY <2>1, <2>2, <3>2 DEF FormsAreFilled
      <4> QED
        BY <2>1, <2>2, <2>3, <4>1 DEF FormsAreFilled
    <3> QED
      BY <3>1, <3>2
  <2> QED
    BY <2>3, <2>4 DEF FormsAreFilled, Tx, Complete
<1>4. ASSUME NEW s \in Editor, Save(s) PROVE FormsAreFilled'
  <2> DEFINE e == [policy |-> form[s], touched |-> touched[s], read |-> page[s]]
  <2>1. PICK S : proposals \in Seq(S)
    BY DEF FormsAreFilled
  <2>2. proposals' = Append(proposals, e)
    BY <1>4 DEF Save
  <2>3. UNCHANGED <<policy, page, form, touched, executed>>
    BY <1>4 DEF Save
  <2>4. Complete(e.policy) /\ DiffersIn(e.policy, e.touched, e.read)
    BY DEF FormsAreFilled
  <2> HIDE DEF e
  <2>5. /\ proposals' \in Seq(S \cup {e})
        /\ Len(proposals) \in Nat /\ Len(proposals') = Len(proposals) + 1
        /\ \A i \in 1..Len(proposals) : proposals'[i] = proposals[i]
        /\ proposals'[Len(proposals) + 1] = e
    BY <2>1, <2>2, SavedOnTop
  <2>6. \A tx \in Tx' : 
            \/ proposals'[tx] = e
            \/ tx \in Tx /\ proposals'[tx] = proposals[tx]
    BY <2>5 DEF Tx
  <2>7. \A tx \in Tx' :
        /\ Complete(proposals'[tx].policy)
        /\ DiffersIn(proposals'[tx].policy, proposals'[tx].touched,
                     proposals'[tx].read)
    BY <2>4, <2>6 DEF FormsAreFilled
  <2>8. executed' \subseteq Tx'
    BY <2>3, <2>5 DEF FormsAreFilled, Tx
  <2> QED
    BY <2>3, <2>5, <2>7, <2>8 DEF FormsAreFilled, Complete, DiffersIn
<1>5. ASSUME NEW tx \in Tx, Execute(tx) PROVE FormsAreFilled'
  BY <1>5 DEF Execute, FormsAreFilled, Tx, Complete, DiffersIn
<1>6. CASE UNCHANGED guards
  BY <1>6 DEF guards, FormsAreFilled, Tx, Complete, DiffersIn
<1> QED
  BY <1>1, <1>2, <1>3, <1>4, <1>5, <1>6 DEF GuardsNext

(* For any guards, any number of signers and proposals, and failing reads: a  *)
(* proposal that replaces the policy its author had read changes what its     *)
(* author changed in the form, and nothing else (doSavePolicy).               *)
THEOREM FormsChangeWhatWasTouched == GuardsSpec => OnlyWhatWasTouched
<1> DEFINE Touched ==
        \A tx \in Tx :
            ExecutesNow(tx) /\ proposals[tx].read = policy =>
                ChangesOnly(proposals[tx].touched)
<1>1. GuardsInit => FormsAreFilled
  BY FormsInit
<1>2. FormsAreFilled /\ [GuardsNext]_guards => FormsAreFilled'
  BY FormsNext
<1>3. FormsAreFilled /\ [GuardsNext]_guards => [Touched]_guards
  <2> SUFFICES ASSUME FormsAreFilled, GuardsNext,
                      NEW tx \in Tx, ExecutesNow(tx),
                      proposals[tx].read = policy
               PROVE  ChangesOnly(proposals[tx].touched)
    OBVIOUS
  <2>1. executed' # executed
    BY DEF ExecutesNow
  <2>2. PICK t \in Tx : Execute(t)
    BY <2>1 DEF GuardsNext, GetPolicy, GetPolicyFails, Save, Edit
  <2>3. policy' = proposals[tx].policy
    BY <2>2 DEF Execute, ExecutesNow
  <2>4. /\ Complete(policy') /\ Complete(policy)
        /\ DiffersIn(policy', proposals[tx].touched, policy)
    BY <2>3 DEF FormsAreFilled
  <2> QED
    BY <2>4 DEF ChangesOnly, AsShown, Complete, DiffersIn
<1> QED
  BY <1>1, <1>2, <1>3, PTL DEF GuardsSpec, OnlyWhatWasTouched
==============================================================================
