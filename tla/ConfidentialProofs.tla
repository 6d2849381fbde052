-------------------------- MODULE ConfidentialProofs --------------------------
(* Proofs about the hidden balance.                                           *)
EXTENDS Confidential, SequenceTheorems, FiniteSetTheorems, WellFoundedInduction, TLAPS

------------------------------------------------------------------------------
(* Induction.                                                                 *)

(* A set of naturals that is not empty has a least member: every induction of *)
(* this module looks at the least counterexample.                             *)
LEMMA LeastNat ==
    ASSUME NEW S, S \subseteq Nat, S # {}
    PROVE  \E m \in S : \A n \in S : m <= n
<1> DEFINE R == OpToRel(<, Nat)
<1>1. IsWellFoundedOn(R, Nat)
  BY NatLessThanWellFounded
<1>2. PICK m \in S : \A n \in S : <<n, m>> \notin R
  <2> HIDE DEF R
  <2> QED BY <1>1, WFMin
<1>3. \A n \in S : ~(n < m)
  BY <1>2 DEF OpToRel
<1>4. \A n \in S : m <= n
  BY <1>3
<1> QED BY <1>4

------------------------------------------------------------------------------
(* The replay, one event at a time.                                           *)

(* The replay with the owner of the account named: Decrypt looks at it.       *)
Opened(o, keys, kind, v, e) ==
    IF keys = o THEN [v |-> v, r |-> {<<kind, e.id>>}]
                ELSE [v |-> Garbage, r |-> {<<"wrong", e.id>>}]
Moved(amount) == [v |-> amount, r |-> {}]

ApplyAs(o, keys, s, e) ==
    LET left == Opened(o, keys, "own", e.rest, e)
        came == Opened(o, keys, "tx", e.amount, e)
    IN  CASE e.type = "register" -> s
          [] e.type = "deposit"  -> [s EXCEPT !.receiving = Plus(@, Moved(e.amount))]
          [] e.type = "merge"    -> [spendable |-> Plus(s.spendable, s.receiving), receiving |-> Zero]
          [] e.type = "withdraw" -> [s EXCEPT !.spendable = left]
          [] e.type = "transfer" ->
                [spendable |-> IF "from" \in e.me THEN left ELSE s.spendable,
                 receiving |-> IF "to" \in e.me THEN Plus(s.receiving, came) ELSE s.receiving]

(* f is what the replay has after each of the events.                         *)
Walks(o, keys, es, f) ==
    f = [n \in 0..Len(es) |->
            IF n = 0 THEN Empty ELSE ApplyAs(o, keys, f[n - 1], es[n])]

ReplayAs(o, keys, es) == (CHOOSE f : Walks(o, keys, es, f))[Len(es)]

(* It is the model's replay.                                                  *)
LEMMA ReplayNamesTheOwner ==
    \A keys, es : Replay(keys, es) = ReplayAs(account.key, keys, es)
BY DEF Replay, ReplayAs, Walks, Apply, ApplyAs, Decrypt, OpenSpendable, DecryptIncoming,
       Opened, Moved

(* There is one walk through the events at most ...                           *)
LEMMA OneWalk ==
    ASSUME NEW o, NEW keys, NEW es \in Seq(Event), NEW f, NEW g,
           Walks(o, keys, es, f), Walks(o, keys, es, g)
    PROVE  f = g
<1> DEFINE Differ == {n \in 0..Len(es) : f[n] # g[n]}
<1>1. Len(es) \in Nat
  BY LenProperties
<1>2. ASSUME Differ # {} PROVE FALSE
  <2>1. PICK m \in Differ : \A n \in Differ : m <= n
    <3>1. Differ \subseteq Nat
      BY <1>1
    <3> HIDE DEF Differ
    <3> QED BY <1>2, <3>1, LeastNat
  <2>2. m # 0
    BY <1>1 DEF Walks
  <2>3. m - 1 \in 0..Len(es) /\ m - 1 \notin Differ
    BY <1>1, <2>1, <2>2
  <2>4. f[m - 1] = g[m - 1]
    BY <2>3
  <2>5. f[m] = ApplyAs(o, keys, f[m - 1], es[m]) /\ g[m] = ApplyAs(o, keys, g[m - 1], es[m])
    BY <2>1, <2>2 DEF Walks
  <2> QED BY <2>1, <2>4, <2>5
<1>3. \A n \in 0..Len(es) : f[n] = g[n]
  BY <1>2
<1>4. f = [n \in 0..Len(es) |-> f[n]] /\ g = [n \in 0..Len(es) |-> g[n]]
  BY DEF Walks
<1> QED BY <1>3, <1>4

(* ... a walk goes on with the next event ...                                 *)
Further(o, keys, es, f, e) ==
    [n \in 0..Len(es) + 1 |->
        IF n = Len(es) + 1 THEN ApplyAs(o, keys, f[n - 1], e) ELSE f[n]]

LEMMA WalkGoesOn ==
    ASSUME NEW o, NEW keys, NEW es \in Seq(Event), NEW e \in Event, NEW f,
           Walks(o, keys, es, f)
    PROVE  Walks(o, keys, Append(es, e), Further(o, keys, es, f, e))
<1> DEFINE fs == Append(es, e)
           g  == Further(o, keys, es, f, e)
<1>1. /\ Len(es) \in Nat /\ Len(fs) = Len(es) + 1
      /\ \A n \in 1..Len(es) : fs[n] = es[n]
      /\ fs[Len(es) + 1] = e
  BY LenProperties, AppendProperties
<1>2. \A n \in 0..Len(es) :
        f[n] = IF n = 0 THEN Empty ELSE ApplyAs(o, keys, f[n - 1], es[n])
  BY DEF Walks
<1> HIDE DEF fs
<1>3. ASSUME NEW n \in 0..Len(fs)
      PROVE  g[n] = IF n = 0 THEN Empty ELSE ApplyAs(o, keys, g[n - 1], fs[n])
  <2>1. CASE n = 0
    BY <1>1, <1>2, <2>1 DEF Further
  <2>2. CASE n \in 1..Len(es)
    <3>1. g[n] = f[n] /\ g[n - 1] = f[n - 1] /\ fs[n] = es[n]
      BY <1>1, <2>2 DEF Further
    <3> QED BY <1>1, <1>2, <2>2, <3>1
  <2>3. CASE n = Len(es) + 1
    <3>1. g[n] = ApplyAs(o, keys, f[n - 1], e) /\ g[n - 1] = f[n - 1] /\ fs[n] = e
      BY <1>1, <2>3 DEF Further
    <3> QED BY <1>1, <2>3, <3>1
  <2> QED BY <1>1, <1>3, <2>1, <2>2, <2>3
<1>4. g = [n \in 0..Len(fs) |-> g[n]]
  BY <1>1 DEF Further
<1> HIDE DEF g
<1>5. g = [n \in 0..Len(fs) |-> IF n = 0 THEN Empty ELSE ApplyAs(o, keys, g[n - 1], fs[n])]
  BY <1>3, <1>4
<1> QED BY <1>5 DEF Walks, fs, g

(* ... and so there is one through any events.                                *)
LEMMA AWalk ==
    ASSUME NEW o, NEW keys
    PROVE  \A es \in Seq(Event) : \E f : Walks(o, keys, es, f)
<1> DEFINE Stuck == {n \in Nat : \E es \in Seq(Event) :
                        Len(es) = n /\ ~ \E f : Walks(o, keys, es, f)}
<1>1. ASSUME Stuck # {} PROVE FALSE
  <2>1. PICK m \in Stuck : \A n \in Stuck : m <= n
    <3>1. Stuck \subseteq Nat
      OBVIOUS
    <3> HIDE DEF Stuck
    <3> QED BY <1>1, <3>1, LeastNat
  <2>2. PICK es \in Seq(Event) : Len(es) = m /\ ~ \E f : Walks(o, keys, es, f)
    BY <2>1
  <2>3. es # <<>>
    <3>1. SUFFICES ASSUME es = <<>> PROVE FALSE
      OBVIOUS
    <3>2. Len(es) = 0
      BY <3>1
    <3>3. \E f : f = [n \in 0..Len(es) |-> Empty]
      OBVIOUS
    <3>4. PICK f : f = [n \in 0..Len(es) |-> Empty]
      BY <3>3
    <3>5. f = [n \in 0..Len(es) |->
                  IF n = 0 THEN Empty ELSE ApplyAs(o, keys, f[n - 1], es[n])]
      BY <3>2, <3>4
    <3> QED BY <2>2, <3>5 DEF Walks
  <2>4. PICK front \in Seq(Event), e \in Event : es = Append(front, e)
    BY <2>3, SequenceEmptyOrAppend
  <2>5. Len(front) \in Nat /\ Len(front) = m - 1
    BY <2>2, <2>4, AppendProperties, LenProperties
  <2>6. PICK f : Walks(o, keys, front, f)
    BY <2>1, <2>5
  <2> QED BY <2>2, <2>4, <2>6, WalkGoesOn
<1>2. ASSUME NEW es \in Seq(Event) PROVE \E f : Walks(o, keys, es, f)
  BY <1>1, <1>2, LenProperties
<1> QED BY <1>2

(* So the replay starts with nothing and applies the events in their order.   *)
LEMMA ReplayStarts ==
    ASSUME NEW o, NEW keys
    PROVE  ReplayAs(o, keys, <<>>) = Empty
<1>1. <<>> \in Seq(Event) /\ Len(<<>>) = 0
  OBVIOUS
<1>2. PICK f : Walks(o, keys, <<>>, f)
  BY <1>1, AWalk
<1>3. Walks(o, keys, <<>>, CHOOSE g : Walks(o, keys, <<>>, g))
  BY <1>2
<1>4. \A g : Walks(o, keys, <<>>, g) => g[0] = Empty
  BY <1>1 DEF Walks
<1> QED BY <1>1, <1>3, <1>4 DEF ReplayAs

LEMMA ReplayGoesOn ==
    ASSUME NEW o, NEW keys, NEW es \in Seq(Event), NEW e \in Event
    PROVE  ReplayAs(o, keys, Append(es, e)) = ApplyAs(o, keys, ReplayAs(o, keys, es), e)
<1> DEFINE fs == Append(es, e)
           f  == CHOOSE g : Walks(o, keys, es, g)
           h  == CHOOSE g : Walks(o, keys, fs, g)
<1>1. /\ Len(es) \in Nat
      /\ fs \in Seq(Event) /\ Len(fs) = Len(es) + 1
  BY LenProperties, AppendProperties
<1>2. Walks(o, keys, es, f)
  BY AWalk
<1>3. Walks(o, keys, fs, h)
  BY <1>1, AWalk
<1>4. Walks(o, keys, fs, Further(o, keys, es, f, e))
  BY <1>2, WalkGoesOn
<1> HIDE DEF fs, f, h
<1>5. h = Further(o, keys, es, f, e)
  BY <1>1, <1>3, <1>4, OneWalk
<1>6. h[Len(fs)] = ApplyAs(o, keys, f[Len(es)], e)
  BY <1>1, <1>5 DEF Further
<1> QED BY <1>6 DEF ReplayAs, fs, f, h

(* Whatever the keys, the replay gives two openings.                          *)
Balances == [spendable : Opening, receiving : Opening]

LEMMA SumsAreOpenings ==
    /\ Zero \in Opening
    /\ \A a, b \in Opening : Plus(a, b) \in Opening
BY DEF Opening, Zero, Plus

LEMMA OpenedTyped ==
    ASSUME NEW o, NEW keys, NEW kind \in {"own", "tx"}, NEW v \in Nat, NEW e \in Event
    PROVE  Opened(o, keys, kind, v, e) \in Opening /\ Moved(v) \in Opening
<1>1. e.id \in Nat /\ Garbage \in Nat
  BY ConfidentialAssumption DEF Event
<1>2. <<kind, e.id>> \in Blinding /\ <<"wrong", e.id>> \in Blinding
  BY <1>1 DEF Blinding
<1> QED BY <1>1, <1>2 DEF Opened, Moved, Opening

LEMMA ApplyTyped ==
    ASSUME NEW o, NEW keys, NEW s \in Balances, NEW e \in Event
    PROVE  ApplyAs(o, keys, s, e) \in Balances
<1> DEFINE left == Opened(o, keys, "own", e.rest, e)
           came == Opened(o, keys, "tx", e.amount, e)
           paid == Moved(e.amount)
<1>1. left \in Opening /\ came \in Opening /\ paid \in Opening
  BY OpenedTyped DEF Event
<1>2. s.spendable \in Opening /\ s.receiving \in Opening /\ Zero \in Opening
      /\ Plus(s.receiving, paid) \in Opening /\ Plus(s.receiving, came) \in Opening
      /\ Plus(s.spendable, s.receiving) \in Opening
  BY <1>1, SumsAreOpenings DEF Balances
<1>3. ApplyAs(o, keys, s, e) =
        CASE e.type = "register" -> s
          [] e.type = "deposit"  -> [s EXCEPT !.receiving = Plus(@, paid)]
          [] e.type = "merge"    -> [spendable |-> Plus(s.spendable, s.receiving), receiving |-> Zero]
          [] e.type = "withdraw" -> [s EXCEPT !.spendable = left]
          [] e.type = "transfer" ->
                [spendable |-> IF "from" \in e.me THEN left ELSE s.spendable,
                 receiving |-> IF "to" \in e.me THEN Plus(s.receiving, came) ELSE s.receiving]
  BY DEF ApplyAs
<1> HIDE DEF left, came, paid
<1>4. e.type \in {"register", "deposit", "merge", "withdraw", "transfer"}
  BY DEF Event
<1> QED BY <1>1, <1>2, <1>3, <1>4 DEF Balances

LEMMA ReplayTyped ==
    ASSUME NEW o, NEW keys
    PROVE  \A es \in Seq(Event) : ReplayAs(o, keys, es) \in Balances
<1> DEFINE Bad == {n \in Nat : \E es \in Seq(Event) :
                        Len(es) = n /\ ReplayAs(o, keys, es) \notin Balances}
<1>1. ASSUME Bad # {} PROVE FALSE
  <2>1. PICK m \in Bad : \A n \in Bad : m <= n
    <3>1. Bad \subseteq Nat
      OBVIOUS
    <3> HIDE DEF Bad
    <3> QED BY <1>1, <3>1, LeastNat
  <2>2. PICK es \in Seq(Event) : Len(es) = m /\ ReplayAs(o, keys, es) \notin Balances
    BY <2>1
  <2>3. es # <<>>
    <3>1. Empty \in Balances
      BY SumsAreOpenings DEF Empty, Balances
    <3> QED BY <2>2, <3>1, ReplayStarts
  <2>4. PICK front \in Seq(Event), e \in Event : es = Append(front, e)
    BY <2>3, SequenceEmptyOrAppend
  <2>5. Len(front) \in Nat /\ Len(front) = m - 1
    BY <2>2, <2>4, AppendProperties, LenProperties
  <2>6. ReplayAs(o, keys, front) \in Balances
    BY <2>1, <2>5
  <2> QED BY <2>2, <2>4, <2>6, ReplayGoesOn, ApplyTyped
<1>2. ASSUME NEW es \in Seq(Event) PROVE ReplayAs(o, keys, es) \in Balances
  BY <1>1, <1>2, LenProperties
<1> QED BY <1>2

------------------------------------------------------------------------------
(* Type correctness.                                                          *)

(* What a screen computes from the events has the type of two openings.       *)
LEMMA SyncTyped ==
    ASSUME TypeOK, NEW s \in Signer
    PROVE  Sync(s) \in Balances
<1>1. log \in Seq(Event) /\ Len(log) \in Nat /\ oldest \in 1..Len(log) + 1
  BY LenProperties DEF TypeOK
<1>2. \A i \in oldest..Len(log) : log[i] \in Event
  BY <1>1, ElementOfSeq
<1>3. SubSeq(log, oldest, Len(log)) \in Seq(Event)
  BY <1>1, <1>2, SubSeqProperties
<1>4. ReplayAs(account.key, s, SubSeq(log, oldest, Len(log))) \in Balances
  BY <1>3, ReplayTyped
<1> QED BY <1>4, ReplayNamesTheOwner DEF Sync

LEMMA BuildersTyped ==
    ASSUME TypeOK, NEW s \in Signer, NEW op \in Op, NEW amount \in Nat,
           NEW to \in Outsider \cup Contract \cup {Self, Nobody},
           op = "allow" => to \in Contract
    PROVE  /\ Plain(s, op, amount, to) \in Operation
           /\ Proven(s, op, amount, to) \in Operation
<1>1. Sync(s).spendable \in Opening /\ Zero \in Opening
  BY SyncTyped, SumsAreOpenings DEF Balances
<1>2. Len(log) \in Nat /\ (oldest = 1) \in BOOLEAN
  BY LenProperties DEF TypeOK
<1> DEFINE whole == oldest = 1
<1>3. Proven(s, op, amount, to) =
        [Plain(s, op, amount, to) EXCEPT !.opening = Sync(s).spendable,
                                         !.at = Len(log), !.whole = whole]
      /\ whole \in BOOLEAN
  BY DEF Proven
<1> HIDE DEF Opening, Sync, Zero, whole
<1> QED BY <1>1, <1>2, <1>3 DEF Plain, Operation

LEMMA MissingTyped ==
    ASSUME NEW needs
    PROVE  Missing(needs) \in Seq(Contract)
<1> DEFINE lacking(c) == IF c \in needs \ allowed THEN <<c>> ELSE <<>>
<1>1. lacking("token") \in Seq(Contract) /\ lacking("xlm") \in Seq(Contract)
  <2>1. <<>> \in Seq(Contract) /\ <<"token">> \in Seq(Contract) /\ <<"xlm">> \in Seq(Contract)
    BY EmptySeq DEF Contract
  <2> QED BY <2>1
<1>2. Missing(needs) = lacking("token") \o lacking("xlm")
  BY DEF Missing
<1> HIDE DEF lacking
<1> QED BY <1>1, <1>2, ConcatProperties

Screens == [registered : {"unknown", "yes", "no"}, keys : BOOLEAN,
            read : BOOLEAN, spendable : Nat, receiving : Nat, busy : BOOLEAN]
Jobs    == [Slot -> Seq(Operation)]

LEMMA ShowingTyped ==
    ASSUME TypeOK, NEW s \in Signer, NEW p \in Screens
    PROVE  Showing(p, s) \in Screens
<1> DEFINE x == Sync(s).spendable.v
           y == Sync(s).receiving.v
<1>1. x \in Nat /\ y \in Nat
  BY SyncTyped DEF Balances, Opening
<1>2. Showing(p, s) = [p EXCEPT !.read = TRUE, !.spendable = x, !.receiving = y]
  BY DEF Showing
<1> HIDE DEF x, y
<1> QED BY <1>1, <1>2 DEF Screens

(* One operation of a screen changes, and whether the screen is busy.         *)
LEMMA JobTyped ==
    ASSUME TypeOK, NEW s \in Signer, NEW k \in Slot, NEW operations \in Seq(Operation),
           NEW busy \in BOOLEAN,
           job' = [job EXCEPT ![s][k] = operations],
           page' = [page EXCEPT ![s].busy = busy]
    PROVE  job' \in [Signer -> Jobs] /\ page' \in [Signer -> Screens]
<1>1. job \in [Signer -> Jobs] /\ page \in [Signer -> Screens]
  BY DEF TypeOK, Jobs, Screens
<1>2. [job[s] EXCEPT ![k] = operations] \in Jobs
  BY <1>1 DEF Jobs
<1>3. [page[s] EXCEPT !.busy = busy] \in Screens
  BY <1>1 DEF Screens
<1>4. /\ job' = [job EXCEPT ![s] = [job[s] EXCEPT ![k] = operations]]
      /\ page' = [page EXCEPT ![s] = [page[s] EXCEPT !.busy = busy]]
  OBVIOUS
<1> QED BY <1>1, <1>2, <1>3, <1>4

LEMMA GoesTyped ==
    ASSUME TypeOK, NEW s \in Signer, NEW k \in Slot, NEW rest \in Seq(Operation), Goes(s, k, rest)
    PROVE  job' \in [Signer -> Jobs] /\ page' \in [Signer -> Screens]
<1> DEFINE busy == page[s].busy /\ rest # <<>>
<1>1. busy \in BOOLEAN
  OBVIOUS
<1>2. job' = [job EXCEPT ![s][k] = rest] /\ page' = [page EXCEPT ![s].busy = busy]
  BY DEF Goes
<1> HIDE DEF busy
<1> QED BY <1>1, <1>2, JobTyped

(* A job is one operation, or the contracts to allow first.                   *)
LEMMA StartsTyped ==
    ASSUME TypeOK, NEW s \in Signer, NEW operations \in Seq(Operation), Starts(s, operations)
    PROVE  TypeOK'
<1>1. PICK k \in Slot : job' = [job EXCEPT ![s][k] = operations]
  BY DEF Starts
<1>2. page' = [page EXCEPT ![s].busy = TRUE] /\ UNCHANGED <<token, oldest, vault, faults>>
  BY DEF Starts
<1>3. job' \in [Signer -> Jobs] /\ page' \in [Signer -> Screens]
  BY <1>1, <1>2, JobTyped
<1> QED BY <1>2, <1>3 DEF TypeOK, token, vault, Jobs, Screens

(* A proposal is a start of operations: of allowances, or of what was built.  *)
StartsSome(s, operation, built) ==
    \E operations \in Seq(Operation) :
        /\ Starts(s, operations)
        /\ \A i \in DOMAIN operations :
                operations[i].op = "allow" \/ (built /\ operations[i] = operation)

LEMMA ProposeStarts ==
    ASSUME TypeOK, NEW s \in Signer, NEW needs, NEW operation \in Operation,
           NEW built \in BOOLEAN, Propose(s, needs, operation, built)
    PROVE  StartsSome(s, operation, built)
<1> DEFINE missing == Missing(needs)
           asked   == [i \in DOMAIN missing |-> Plain(s, "allow", 0, missing[i])]
<1>1. missing \in Seq(Contract)
  BY MissingTyped
<1> HIDE DEF missing
<1>2. \A i \in 1..Len(missing) : Plain(s, "allow", 0, missing[i]) \in Operation
  <2>1. \A i \in 1..Len(missing) : missing[i] \in Contract
    BY <1>1, ElementOfSeq
  <2> QED BY <2>1, BuildersTyped DEF Op
<1>3. asked \in Seq(Operation) /\ \A i \in DOMAIN asked : asked[i].op = "allow"
  <2>1. DOMAIN missing = 1..Len(missing) /\ Len(missing) \in Nat
    BY <1>1, LenProperties
  <2>2. asked \in [1..Len(missing) -> Operation]
    BY <1>2, <2>1
  <2> QED BY <2>1, <2>2, SeqDef DEF Plain
<1> HIDE DEF asked
<1>4. Starts(s, asked) \/ (built /\ Starts(s, <<operation>>))
  BY DEF Propose, missing, asked
<1>5. <<operation>> \in Seq(Operation) /\ \A i \in DOMAIN <<operation>> : <<operation>>[i] = operation
  OBVIOUS
<1> QED BY <1>3, <1>4, <1>5 DEF StartsSome

LEMMA ProposeTyped ==
    ASSUME TypeOK, NEW s \in Signer, NEW needs, NEW operation \in Operation,
           NEW built \in BOOLEAN, Propose(s, needs, operation, built)
    PROVE  TypeOK'
BY ProposeStarts, StartsTyped DEF StartsSome

LEMMA ScreenTyped ==
    ASSUME TypeOK, NEW s \in Signer, Screen(s)
    PROVE  TypeOK'
<1>1. CASE CheckRegistered(s)
  <2>1. page' = [page EXCEPT ![s].registered = Registered(account.key)]
        /\ UNCHANGED <<token, oldest, vault, job, faults>>
    BY <1>1 DEF CheckRegistered
  <2>2. Registered(account.key) \in {"unknown", "yes", "no"}
    BY DEF Registered
  <2> HIDE DEF Registered
  <2> QED BY <2>1, <2>2 DEF TypeOK, token, vault
<1>2. CASE CheckFails(s)
  <2>1. page' \in [Signer -> Screens]
    BY <1>2 DEF CheckFails, TypeOK, Screens
  <2>2. faults' \in Nat /\ UNCHANGED <<token, oldest, vault, job>>
    BY <1>2 DEF CheckFails, TypeOK
  <2> QED BY <2>1, <2>2 DEF Screens, TypeOK, token, vault
<1>3. CASE Unlock(s)
  <2>1. page \in [Signer -> Screens] /\ Showing(page[s], s) \in Screens
    BY ShowingTyped DEF TypeOK, Screens
  <2>2. [Showing(page[s], s) EXCEPT !.keys = TRUE] \in Screens
    BY <2>1 DEF Screens
  <2>3. page' = [page EXCEPT ![s] = [Showing(page[s], s) EXCEPT !.keys = TRUE]]
    BY <1>3, <2>1 DEF Unlock
  <2>4. page' \in [Signer -> Screens]
    BY <2>1, <2>2, <2>3
  <2>5. UNCHANGED <<token, oldest, vault, job, faults>>
    BY <1>3 DEF Unlock
  <2> QED BY <2>4, <2>5 DEF Screens, TypeOK, token, vault
<1>4. CASE UnlockFails(s)
  <2>1. page' \in [Signer -> Screens]
    BY <1>4 DEF UnlockFails, TypeOK, Screens
  <2>2. faults' \in Nat /\ UNCHANGED <<token, oldest, vault, job>>
    BY <1>4 DEF UnlockFails, TypeOK
  <2> QED BY <2>1, <2>2 DEF Screens, TypeOK, token, vault
<1>5. CASE Refresh(s)
  <2>1. page \in [Signer -> Screens] /\ Showing(page[s], s) \in Screens
    BY ShowingTyped DEF TypeOK, Screens
  <2>2. Registered(account.key) \in {"unknown", "yes", "no"}
    BY DEF Registered
  <2>3. [Showing(page[s], s) EXCEPT !.registered = Registered(account.key), !.busy = FALSE]
            \in Screens
    BY <2>1, <2>2 DEF Screens
  <2>4. page' = [page EXCEPT ![s] = [Showing(page[s], s) EXCEPT
                    !.registered = Registered(account.key), !.busy = FALSE]]
    BY <1>5, <2>1 DEF Refresh
  <2>5. page' \in [Signer -> Screens]
    BY <2>1, <2>3, <2>4
  <2>6. UNCHANGED <<token, oldest, vault, job, faults>>
    BY <1>5 DEF Refresh
  <2> QED BY <2>5, <2>6 DEF Screens, TypeOK, token, vault
<1>13. CASE RefreshFails(s)
  <2>1. PICK known \in {page[s].registered, Registered(account.key)} :
            page' = [page EXCEPT ![s].registered = known, ![s].busy = FALSE]
    BY <1>13 DEF RefreshFails
  <2>2. page \in [Signer -> Screens] /\ known \in {"unknown", "yes", "no"}
    BY DEF TypeOK, Screens, Registered
  <2>3. page' \in [Signer -> Screens]
    BY <2>1, <2>2 DEF Screens
  <2>4. faults' \in Nat /\ UNCHANGED <<token, oldest, vault, job>>
    BY <1>13 DEF RefreshFails, TypeOK
  <2> QED BY <2>3, <2>4 DEF Screens, TypeOK, token, vault
<1>6. CASE ProposeSetup(s)
  BY <1>6, BuildersTyped, ProposeTyped DEF ProposeSetup, Op
<1>7. CASE ProposeDeposit(s)
  <2>1. PICK amount \in Deposit :
            Propose(s, {"token", "xlm"}, Plain(s, "deposit", amount, Nobody), TRUE)
    BY <1>7 DEF ProposeDeposit
  <2>2. Plain(s, "deposit", amount, Nobody) \in Operation
    BY BuildersTyped, ConfidentialAssumption DEF Op
  <2> QED BY <2>1, <2>2, ProposeTyped
<1>8. CASE ProposeSettle(s)
  BY <1>8, BuildersTyped, ProposeTyped DEF ProposeSettle, Op
<1>9. CASE ProposeTransfer(s)
  <2>1. PICK amount \in Pay, to \in Outsider \cup {Self} :
            Propose(s, {"token"}, Proven(s, "confidential_transfer", amount, to),
                    Covered(s, amount) /\ HoldsAccount(to))
    BY <1>9 DEF ProposeTransfer
  <2>2. Proven(s, "confidential_transfer", amount, to) \in Operation
    BY BuildersTyped, ConfidentialAssumption DEF Op
  <2>3. (Covered(s, amount) /\ HoldsAccount(to)) \in BOOLEAN
    BY DEF Covered
  <2> QED BY <2>1, <2>2, <2>3, ProposeTyped
<1>10. CASE ProposeWithdraw(s)
  <2>1. PICK amount \in Pay, to \in Outsider \cup {Self} :
            Propose(s, {"token"}, Proven(s, "withdraw", amount, to), Covered(s, amount))
    BY <1>10 DEF ProposeWithdraw
  <2>2. Proven(s, "withdraw", amount, to) \in Operation
    BY BuildersTyped, ConfidentialAssumption DEF Op
  <2>3. Covered(s, amount) \in BOOLEAN
    BY DEF Covered
  <2> QED BY <2>1, <2>2, <2>3, ProposeTyped
<1>11. CASE File(s)
  <2>1. PICK k \in Slot :
            /\ job[s][k] # <<>>
            /\ proposals' = Append(proposals, [what |-> Head(job[s][k]), executed |-> FALSE])
            /\ Goes(s, k, Tail(job[s][k]))
            /\ UNCHANGED <<token, oldest, allowed, faults>>
    BY <1>11 DEF File
  <2>2. Head(job[s][k]) \in Operation /\ Tail(job[s][k]) \in Seq(Operation)
    BY <2>1, HeadTailProperties DEF TypeOK
  <2>3. [what |-> Head(job[s][k]), executed |-> FALSE] \in Proposal
    BY <2>2 DEF Proposal
  <2>4. proposals' \in Seq(Proposal)
    BY <2>1, <2>3, AppendProperties DEF TypeOK
  <2>5. job' \in [Signer -> Jobs] /\ page' \in [Signer -> Screens]
    BY <2>1, <2>2, GoesTyped
  <2> QED BY <2>1, <2>4, <2>5 DEF TypeOK, token, Jobs, Screens
<1>12. CASE FileFails(s)
  <2>1. PICK k \in Slot : Goes(s, k, <<>>)
    BY <1>12 DEF FileFails
  <2>2. <<>> \in Seq(Operation)
    BY EmptySeq
  <2>3. job' \in [Signer -> Jobs] /\ page' \in [Signer -> Screens]
    BY <2>1, <2>2, GoesTyped
  <2>4. faults' \in Nat /\ UNCHANGED <<token, oldest, vault>>
    BY <1>12 DEF FileFails, TypeOK
  <2> QED BY <2>3, <2>4 DEF TypeOK, token, vault, Jobs, Screens
<1> QED BY <1>1, <1>2, <1>3, <1>4, <1>5, <1>6, <1>7, <1>8, <1>9, <1>10, <1>11, <1>12, <1>13
        DEF Screen

------------------------------------------------------------------------------
(* The token.                                                                 *)

TokenTyped ==
    /\ account \in [key : Signer \cup {Nobody}, spendable : Opening, receiving : Opening]
    /\ ready \subseteq Outsider /\ vaultXlm \in Nat
    /\ log \in Seq(Event)

(* Before there is an account there are no events and no balances.            *)
AccountFirst == HasAccount \/ (log = <<>> /\ account.spendable = Zero /\ account.receiving = Zero)

TokenInv == TokenTyped /\ AccountFirst

Held == [spendable |-> account.spendable, receiving |-> account.receiving]

(* The token logs one event whenever it touches the account, and the replay's *)
(* rule for the event, with the key on file, is what the token did.           *)
Told ==
    \/ UNCHANGED <<account, log>>
    \/ /\ account'.key = account.key \/ (~HasAccount /\ log = <<>>)
       /\ HasAccount'
       /\ account' = [key |-> account'.key, spendable |-> Held'.spendable,
                      receiving |-> Held'.receiving]
       /\ \E e \in Event :
            /\ log' = Append(log, e)
            /\ Held' = ApplyAs(account'.key, account'.key, Held, e)

Next1 == Len(log) + 1
Ev(type, me, rest, amount) ==
    [type |-> type, me |-> me, rest |-> rest, amount |-> amount, id |-> Next1]

LEMMA EventTyped ==
    ASSUME TokenTyped, NEW type \in {"register", "deposit", "merge", "withdraw", "transfer"},
           NEW me \in SUBSET {"from", "to"}, NEW rest \in Nat, NEW amount \in Nat
    PROVE  /\ Ev(type, me, rest, amount) \in Event
           /\ Emit(type, me, rest, amount) => log' = Append(log, Ev(type, me, rest, amount))
<1>1. Next1 \in Nat
  BY LenProperties DEF TokenTyped, Next1
<1> QED BY <1>1 DEF Ev, Event, Emit, Next1

(* What the replay does with an event when it has the key.                    *)
After(o, type, me, rest, amount) == ApplyAs(o, o, Held, Ev(type, me, rest, amount))

LEMMA Rules ==
    ASSUME NEW o, NEW me, NEW rest, NEW amount
    PROVE  /\ After(o, "register", me, rest, amount) = Held
           /\ After(o, "deposit", me, rest, amount)
                = [spendable |-> account.spendable,
                   receiving |-> Plus(account.receiving, Moved(amount))]
           /\ After(o, "merge", me, rest, amount)
                = [spendable |-> Plus(account.spendable, account.receiving), receiving |-> Zero]
           /\ After(o, "withdraw", me, rest, amount)
                = [spendable |-> [v |-> rest, r |-> {<<"own", Next1>>}],
                   receiving |-> account.receiving]
           /\ After(o, "transfer", me, rest, amount)
                = [spendable |-> IF "from" \in me THEN [v |-> rest, r |-> {<<"own", Next1>>}]
                                                  ELSE account.spendable,
                   receiving |-> IF "to" \in me THEN Plus(account.receiving, Sent(amount))
                                                ELSE account.receiving]
<1> DEFINE e(type) == Ev(type, me, rest, amount)
           left    == [v |-> rest, r |-> {<<"own", Next1>>}]
<1>1. \A type : /\ e(type).type = type /\ e(type).me = me
                /\ e(type).rest = rest /\ e(type).amount = amount
                /\ Opened(o, o, "own", rest, e(type)) = left
                /\ Opened(o, o, "tx", amount, e(type)) = Sent(amount)
  BY DEF Ev, Opened, Sent, Next1
<1>2. Held.spendable = account.spendable /\ Held.receiving = account.receiving
      /\ \A x : /\ [Held EXCEPT !.receiving = x] = [spendable |-> account.spendable, receiving |-> x]
               /\ [Held EXCEPT !.spendable = x] = [spendable |-> x, receiving |-> account.receiving]
  BY DEF Held
<1>3. \A type : After(o, type, me, rest, amount) = ApplyAs(o, o, Held, e(type))
  BY DEF After
<1> HIDE DEF e, left
<1>4. After(o, "register", me, rest, amount) = Held
  BY <1>1, <1>3 DEF ApplyAs
<1>5. After(o, "deposit", me, rest, amount)
        = [spendable |-> account.spendable, receiving |-> Plus(account.receiving, Moved(amount))]
  BY <1>1, <1>3 DEF ApplyAs, Held
<1>6. After(o, "merge", me, rest, amount)
        = [spendable |-> Plus(account.spendable, account.receiving), receiving |-> Zero]
  BY <1>1, <1>3 DEF ApplyAs, Held
<1>7. After(o, "withdraw", me, rest, amount) = [spendable |-> left, receiving |-> account.receiving]
  BY <1>1, <1>3 DEF ApplyAs, Held
<1>8. After(o, "transfer", me, rest, amount)
        = [spendable |-> IF "from" \in me THEN left ELSE account.spendable,
           receiving |-> IF "to" \in me THEN Plus(account.receiving, Sent(amount))
                                        ELSE account.receiving]
  BY <1>1, <1>2, <1>3 DEF ApplyAs
<1> QED BY <1>4, <1>5, <1>6, <1>7, <1>8 DEF left

LEMMA HeldTyped ==
    ASSUME TokenTyped
    PROVE  /\ Held \in Balances
           /\ account = [key |-> account.key, spendable |-> account.spendable,
                         receiving |-> account.receiving]
           /\ Held.spendable = account.spendable /\ Held.receiving = account.receiving
BY DEF TokenTyped, Held, Balances

(* A step that logs e and makes the balances of it what e tells.              *)
LEMMA Tells ==
    ASSUME TokenInv, NEW e \in Event, log' = Append(log, e), NEW key \in Signer,
           NEW spendable \in Opening, NEW receiving \in Opening,
           account' = [key |-> key, spendable |-> spendable, receiving |-> receiving],
           key = account.key \/ ~HasAccount,
           ApplyAs(key, key, Held, e) = [spendable |-> spendable, receiving |-> receiving],
           ready' \subseteq Outsider, vaultXlm' \in Nat
    PROVE  Told /\ TokenInv'
<1>1. /\ account'.key = key /\ account'.spendable = spendable /\ account'.receiving = receiving
      /\ Held' = [spendable |-> spendable, receiving |-> receiving]
  BY DEF Held
<1>2. HasAccount' /\ (~HasAccount => log = <<>>)
  BY <1>1, ConfidentialAssumption DEF HasAccount, TokenInv, AccountFirst
<1>3. log' \in Seq(Event)
  BY AppendProperties DEF TokenInv, TokenTyped
<1>4. account' \in [key : Signer \cup {Nobody}, spendable : Opening, receiving : Opening]
  OBVIOUS
<1> QED BY <1>1, <1>2, <1>3, <1>4 DEF Told, TokenInv, TokenTyped, AccountFirst

LEMMA SentTyped ==
    ASSUME TokenTyped, NEW amount \in Nat
    PROVE  Sent(amount) \in Opening
<1>1. <<"tx", Len(log) + 1>> \in Blinding
  BY LenProperties DEF TokenTyped, Blinding
<1> QED BY <1>1 DEF Sent, Opening

LEMMA RestTyped ==
    ASSUME TokenTyped, NEW w, w.amount \in Nat, w.opening \in Opening, w.amount <= w.opening.v
    PROVE  /\ Rest(w) \in Opening /\ Rest(w).v \in Nat
           /\ Rest(w) = [v |-> Rest(w).v, r |-> {<<"own", Next1>>}]
           /\ Sent(w.amount) \in Opening
<1>1. <<"own", Len(log) + 1>> \in Blinding
  BY LenProperties DEF TokenTyped, Blinding
<1>2. w.opening.v - w.amount \in Nat
  BY DEF Opening
<1> QED BY <1>1, <1>2, SentTyped DEF Rest, Opening, Next1

LEMMA CallsAreTold ==
    ASSUME TokenInv, NEW w \in Operation, Call(w)
    PROVE  Told /\ TokenInv'
<1>1. w.by \in Signer /\ w.amount \in Nat /\ w.opening \in Opening
  BY DEF Operation
<1>2. /\ TokenTyped /\ Held \in Balances
      /\ account = [key |-> account.key, spendable |-> account.spendable,
                    receiving |-> account.receiving]
      /\ Held.spendable = account.spendable /\ Held.receiving = account.receiving
      /\ account.spendable \in Opening /\ account.receiving \in Opening
      /\ HasAccount => account.key \in Signer
  BY HeldTyped DEF TokenInv, TokenTyped, HasAccount
<1>3. /\ {} \in SUBSET {"from", "to"} /\ {"from"} \in SUBSET {"from", "to"}
      /\ {"from", "to"} \in SUBSET {"from", "to"} /\ 0 \in Nat
  OBVIOUS
<1>4. CASE Register(w)
  <2> DEFINE e == Ev("register", {"from"}, 0, 0)
  <2>1. e \in Event /\ log' = Append(log, e)
    BY <1>2, <1>3, <1>4, EventTyped DEF Register
  <2>2. ApplyAs(w.by, w.by, Held, e) = [spendable |-> account.spendable, receiving |-> account.receiving]
    <3>1. After(w.by, "register", {"from"}, 0, 0) = Held
      BY Rules
    <3> QED BY <3>1 DEF After, Held
  <2>3. /\ account' = [key |-> w.by, spendable |-> account.spendable, receiving |-> account.receiving]
        /\ ~HasAccount /\ UNCHANGED <<ready, vaultXlm>>
    BY <1>2, <1>4 DEF Register
  <2> HIDE DEF e
  <2> QED BY <1>1, <1>2, <2>1, <2>2, <2>3, Tells DEF TokenTyped
<1>5. CASE MoveIn(w)
  <2> DEFINE e   == Ev("deposit", {"from", "to"}, 0, w.amount)
             sum == Plus(account.receiving, Moved(w.amount))
  <2>1. e \in Event /\ log' = Append(log, e)
    BY <1>1, <1>2, <1>3, <1>5, EventTyped DEF MoveIn
  <2>2. ApplyAs(account.key, account.key, Held, e) = [spendable |-> account.spendable, receiving |-> sum]
    BY <1>1, <1>2, <1>3, Rules DEF After
  <2>3. sum \in Opening
    BY <1>1, <1>2 DEF Plus, Moved, Opening
  <2>4. /\ account' = [key |-> account.key, spendable |-> account.spendable, receiving |-> sum]
        /\ HasAccount /\ UNCHANGED ready
    BY <1>2, <1>5 DEF MoveIn, Moved
  <2>5. vaultXlm' \in Nat
    BY <1>1, <1>2, <1>5 DEF MoveIn, TokenTyped
  <2> HIDE DEF e, sum
  <2> QED BY <1>2, <2>1, <2>2, <2>3, <2>4, <2>5, Tells DEF TokenTyped
<1>6. CASE Merge(w)
  <2> DEFINE e   == Ev("merge", {"from"}, 0, 0)
             all == Plus(account.spendable, account.receiving)
  <2>1. e \in Event /\ log' = Append(log, e)
    BY <1>2, <1>3, <1>6, EventTyped DEF Merge
  <2>2. ApplyAs(account.key, account.key, Held, e) = [spendable |-> all, receiving |-> Zero]
    BY <1>2, <1>3, Rules DEF After
  <2>3. all \in Opening /\ Zero \in Opening
    BY <1>2, SumsAreOpenings
  <2>4. /\ account' = [key |-> account.key, spendable |-> all, receiving |-> Zero]
        /\ HasAccount /\ UNCHANGED <<ready, vaultXlm>>
    BY <1>2, <1>6 DEF Merge
  <2> HIDE DEF e, all, Zero
  <2> QED BY <1>2, <2>1, <2>2, <2>3, <2>4, Tells DEF TokenTyped
<1>7. CASE Withdraw(w)
  <2> DEFINE e == Ev("withdraw", {"from"}, Rest(w).v, w.amount)
  <2>1. Verifies(w) /\ HasAccount /\ UNCHANGED ready
    BY <1>7 DEF Withdraw
  <2>2. Rest(w) \in Opening /\ Rest(w).v \in Nat /\ Rest(w) = [v |-> Rest(w).v, r |-> {<<"own", Next1>>}]
    BY <1>1, <1>2, <2>1, RestTyped DEF Verifies
  <2>3. e \in Event /\ log' = Append(log, e)
    BY <1>1, <1>2, <1>3, <1>7, <2>2, EventTyped DEF Withdraw
  <2>4. ApplyAs(account.key, account.key, Held, e) = [spendable |-> Rest(w), receiving |-> account.receiving]
    <3>1. \A o, rest, amount : After(o, "withdraw", {"from"}, rest, amount)
            = [spendable |-> [v |-> rest, r |-> {<<"own", Next1>>}], receiving |-> account.receiving]
      BY Rules
    <3> QED BY <2>2, <3>1 DEF After
  <2>5. account' = [key |-> account.key, spendable |-> Rest(w), receiving |-> account.receiving]
    BY <1>2, <1>7 DEF Withdraw
  <2>6. vaultXlm' \in Nat
    BY <1>1, <1>2, <1>7 DEF Withdraw, TokenTyped
  <2> HIDE DEF e
  <2> QED BY <1>2, <2>1, <2>2, <2>3, <2>4, <2>5, <2>6, Tells DEF TokenTyped
<1>8. CASE Transfer(w)
  <2> DEFINE me   == IF w.to = Self THEN {"from", "to"} ELSE {"from"}
             e    == Ev("transfer", me, Rest(w).v, w.amount)
             came == IF w.to = Self THEN Plus(account.receiving, Sent(w.amount)) ELSE account.receiving
  <2>1. Verifies(w) /\ HasAccount /\ UNCHANGED <<ready, vaultXlm>>
    BY <1>8 DEF Transfer
  <2>2. Rest(w) \in Opening /\ Rest(w).v \in Nat /\ Rest(w) = [v |-> Rest(w).v, r |-> {<<"own", Next1>>}]
        /\ Sent(w.amount) \in Opening
    BY <1>1, <1>2, <2>1, RestTyped DEF Verifies
  <2>3. me \in SUBSET {"from", "to"} /\ "from" \in me /\ ("to" \in me <=> w.to = Self)
    OBVIOUS
  <2>4. e \in Event /\ log' = Append(log, e)
    BY <1>1, <1>2, <1>8, <2>2, <2>3, EventTyped DEF Transfer
  <2>5. came \in Opening
    BY <1>2, <2>2, SumsAreOpenings
  <2>6. ApplyAs(account.key, account.key, Held, e) = [spendable |-> Rest(w), receiving |-> came]
    BY <1>1, <1>2, <2>2, <2>3, Rules DEF After
  <2>7. account' = [key |-> account.key, spendable |-> Rest(w), receiving |-> came]
    BY <1>2, <1>8 DEF Transfer
  <2> HIDE DEF e, came
  <2> QED BY <1>2, <2>1, <2>2, <2>4, <2>5, <2>6, <2>7, Tells DEF TokenTyped
<1> QED BY <1>4, <1>5, <1>6, <1>7, <1>8 DEF Call

LEMMA OthersAreTold ==
    ASSUME TokenInv, Others
    PROVE  Told /\ TokenInv'
<1>1. /\ TokenTyped /\ Held \in Balances
      /\ account = [key |-> account.key, spendable |-> account.spendable,
                    receiving |-> account.receiving]
      /\ Held.spendable = account.spendable /\ Held.receiving = account.receiving
      /\ account.spendable \in Opening /\ account.receiving \in Opening
      /\ HasAccount => account.key \in Signer
  BY HeldTyped DEF TokenInv, TokenTyped, HasAccount
<1>2. {"to"} \in SUBSET {"from", "to"} /\ 0 \in Nat
  OBVIOUS
<1>3. CASE OthersDeposit
  <2>1. PICK amount \in Deposit :
            /\ account' = [account EXCEPT !.receiving = Plus(@, Moved(amount))]
            /\ Emit("deposit", {"to"}, 0, amount)
    BY <1>3 DEF OthersDeposit, Receives, Moved
  <2>2. amount \in Nat
    BY ConfidentialAssumption
  <2> DEFINE e   == Ev("deposit", {"to"}, 0, amount)
             sum == Plus(account.receiving, Moved(amount))
  <2>3. e \in Event /\ log' = Append(log, e)
    BY <1>1, <1>2, <2>1, <2>2, EventTyped
  <2>4. ApplyAs(account.key, account.key, Held, e) = [spendable |-> account.spendable, receiving |-> sum]
    BY <1>1, <1>2, <2>2, Rules DEF After
  <2>5. sum \in Opening
    BY <1>1, <2>2 DEF Plus, Moved, Opening
  <2>6. /\ account' = [key |-> account.key, spendable |-> account.spendable, receiving |-> sum]
        /\ HasAccount /\ UNCHANGED <<ready, vaultXlm>>
    BY <1>1, <1>3, <2>1 DEF OthersDeposit
  <2> HIDE DEF e, sum
  <2> QED BY <1>1, <2>3, <2>4, <2>5, <2>6, Tells DEF TokenTyped
<1>4. CASE OthersPay
  <2>1. PICK amount \in Pay :
            /\ account' = [account EXCEPT !.receiving = Plus(@, Sent(amount))]
            /\ Emit("transfer", {"to"}, 0, amount)
    BY <1>4 DEF OthersPay, Receives
  <2>2. amount \in Nat
    BY ConfidentialAssumption
  <2> DEFINE e   == Ev("transfer", {"to"}, 0, amount)
             sum == Plus(account.receiving, Sent(amount))
  <2>3. e \in Event /\ log' = Append(log, e)
    BY <1>1, <1>2, <2>1, <2>2, EventTyped
  <2>4. ApplyAs(account.key, account.key, Held, e) = [spendable |-> account.spendable, receiving |-> sum]
    BY <1>1, <1>2, <2>2, Rules DEF After
  <2>5. sum \in Opening
    BY <1>1, <2>2, SentTyped, SumsAreOpenings
  <2>6. /\ account' = [key |-> account.key, spendable |-> account.spendable, receiving |-> sum]
        /\ HasAccount /\ UNCHANGED <<ready, vaultXlm>>
    BY <1>1, <1>4, <2>1 DEF OthersPay
  <2> HIDE DEF e, sum
  <2> QED BY <1>1, <2>3, <2>4, <2>5, <2>6, Tells DEF TokenTyped
<1>5. CASE \E o \in Outsider : Join(o)
  BY <1>5 DEF Join, Told, TokenInv, TokenTyped, AccountFirst, HasAccount
<1> QED BY <1>3, <1>4, <1>5 DEF Others

------------------------------------------------------------------------------
(* The vault's proposals.                                                     *)
LEMMA WhatTyped ==
    ASSUME TypeOK, NEW i \in DOMAIN proposals
    PROVE  proposals[i].what \in Operation
<1>1. proposals \in Seq(Proposal) /\ i \in 1..Len(proposals)
  BY LenProperties DEF TypeOK
<1>2. proposals[i] \in Proposal
  BY <1>1, ElementOfSeq
<1> QED BY <1>2 DEF Proposal

LEMMA DoneMarksOne ==
    ASSUME TypeOK, NEW i \in DOMAIN proposals, Done(i)
    PROVE  /\ proposals' \in Seq(Proposal)
           /\ DOMAIN proposals' = DOMAIN proposals
           /\ proposals'[i].executed
           /\ \A j \in DOMAIN proposals :
                    /\ proposals'[j].what = proposals[j].what
                    /\ j # i => proposals'[j].executed = proposals[j].executed
<1>1. proposals \in Seq(Proposal) /\ DOMAIN proposals = 1..Len(proposals)
  BY LenProperties DEF TypeOK
<1>2. proposals[i] \in Proposal
  BY <1>1, ElementOfSeq
<1> DEFINE p == [proposals[i] EXCEPT !.executed = TRUE]
<1>3. p \in Proposal /\ p.what = proposals[i].what /\ p.executed = TRUE
  BY <1>2 DEF Proposal
<1>4. proposals' = [proposals EXCEPT ![i] = p]
  BY DEF Done
<1> HIDE DEF p
<1>5. proposals' \in Seq(Proposal)
  BY <1>1, <1>3, <1>4, ExceptSeq
<1> QED BY <1>1, <1>3, <1>4, <1>5

(* What holds together of the vault and the token.                            *)
Typed == TypeOK /\ TokenInv

(* The log only grows.                                                        *)
LEMMA ToldGrows ==
    ASSUME TokenTyped, Told
    PROVE  Len(log) \in Nat /\ Len(log') \in Nat /\ Len(log) <= Len(log')
<1>1. Len(log) \in Nat /\ log \in Seq(Event)
  BY LenProperties DEF TokenTyped
<1>2. CASE \E e \in Event : log' = Append(log, e)
  BY <1>1, <1>2, AppendProperties
<1> QED BY <1>1, <1>2 DEF Told

(* A screen leaves the token alone.                                           *)
LEMMA ScreensOnlyFile ==
    ASSUME NEW s \in Signer, Screen(s)
    PROVE  UNCHANGED <<account, ready, vaultXlm, log, oldest>>
BY DEF Screen, CheckRegistered, CheckFails, Unlock, UnlockFails, Refresh, RefreshFails,
       ProposeSetup, ProposeDeposit, ProposeSettle, ProposeTransfer,
       ProposeWithdraw, Propose, Starts, File, FileFails, token

LEMMA StepTold ==
    ASSUME Typed, [Next]_vars
    PROVE  Told /\ TokenInv'
<1>1. CASE Executes
  <2>1. PICK i \in DOMAIN proposals : ExecuteAllow(i) \/ ExecuteCall(i)
    BY <1>1 DEF Executes
  <2>2. CASE ExecuteAllow(i)
    BY <2>2 DEF ExecuteAllow, token, Told, Typed, TokenInv, TokenTyped, AccountFirst, HasAccount
  <2>3. CASE ExecuteCall(i)
    BY <2>3, WhatTyped, CallsAreTold DEF ExecuteCall, Typed
  <2> QED BY <2>1, <2>2, <2>3
<1>2. CASE Others
  BY <1>2, OthersAreTold DEF Typed
<1>3. CASE (\E s \in Signer : Screen(s)) \/ Age \/ UNCHANGED vars
  <2>1. UNCHANGED <<account, ready, vaultXlm, log>>
    BY <1>3, ScreensOnlyFile DEF Age, vars, token
  <2> QED BY <2>1 DEF Told, Typed, TokenInv, TokenTyped, AccountFirst, HasAccount
<1> QED BY <1>1, <1>2, <1>3 DEF Next

LEMMA StepTyped ==
    ASSUME Typed, [Next]_vars
    PROVE  Typed'
<1>1. TokenInv' /\ Len(log) \in Nat /\ Len(log') \in Nat /\ Len(log) <= Len(log')
  BY StepTold, ToldGrows DEF Typed, TokenInv
<1>2. CASE \E s \in Signer : Screen(s)
  BY <1>1, <1>2, ScreenTyped DEF Typed
<1>3. CASE Executes
  <2>1. PICK i \in DOMAIN proposals : ExecuteAllow(i) \/ ExecuteCall(i)
    BY <1>3 DEF Executes
  <2>2. proposals' \in Seq(Proposal)
    BY <2>1, DoneMarksOne DEF Typed, ExecuteAllow, ExecuteCall
  <2>3. proposals[i].what \in Operation
    BY WhatTyped DEF Typed
  <2>4. allowed' \subseteq Contract /\ UNCHANGED <<oldest, screens, faults>>
    BY <2>1, <2>3 DEF Typed, TypeOK, ExecuteAllow, ExecuteCall, Operation
  <2>5. oldest' \in 1..Len(log') + 1
    BY <1>1, <2>4 DEF Typed, TypeOK
  <2> QED BY <1>1, <2>2, <2>4, <2>5 DEF Typed, TypeOK, TokenInv, TokenTyped, screens
<1>4. CASE Others
  <2>1. UNCHANGED <<oldest, vault, screens, faults>>
    BY <1>4 DEF Others, OthersDeposit, OthersPay, Join
  <2>2. oldest' \in 1..Len(log') + 1
    BY <1>1, <2>1 DEF Typed, TypeOK
  <2> QED BY <1>1, <2>1, <2>2 DEF Typed, TypeOK, TokenInv, TokenTyped, vault, screens
<1>5. CASE Age
  <2>1. oldest' \in 1..Len(log') + 1 /\ UNCHANGED <<token, vault, screens, faults>>
    BY <1>1, <1>5 DEF Typed, TypeOK, Age, token
  <2> QED BY <1>1, <2>1 DEF Typed, TypeOK, TokenInv, TokenTyped, vault, screens
<1>6. CASE UNCHANGED vars
  BY <1>1, <1>6 DEF vars, Typed, TypeOK, TokenInv, TokenTyped
<1> QED BY <1>2, <1>3, <1>4, <1>5, <1>6 DEF Next

LEMMA InitTyped ==
    ASSUME Init
    PROVE  Typed
<1>1. account \in [key : Signer \cup {Nobody}, spendable : Opening, receiving : Opening]
  BY SumsAreOpenings DEF Init
<1>2. log \in Seq(Event) /\ Len(log) = 0 /\ oldest \in 1..Len(log) + 1
  BY EmptySeq DEF Init
<1>3. proposals \in Seq(Proposal) /\ job \in [Signer -> Jobs]
  BY EmptySeq DEF Init, Jobs
<1>4. page \in [Signer -> Screens]
  BY DEF Init, Screens
<1>5. TypeOK
  BY <1>1, <1>2, <1>3, <1>4, ConfidentialAssumption DEF Init, TypeOK, Screens, Jobs
<1>6. TokenInv
  BY <1>5 DEF TypeOK, Init, TokenInv, TokenTyped, AccountFirst, HasAccount
<1> QED BY <1>5, <1>6 DEF Typed

(* In every state the model's variables have their types, and without an      *)
(* account the token has logged nothing and holds nothing for the vault.      *)
THEOREM ConfidentialTypeCorrect == Spec => []Typed
<1>1. Init => Typed
  BY InitTyped
<1>2. Typed /\ [Next]_vars => Typed'
  BY StepTyped
<1> QED BY <1>1, <1>2, PTL DEF Spec

------------------------------------------------------------------------------
(* The replay tells the balances.                                             *)
(* With the key on file and the whole log, the replay gives both balances.    *)
ReplayInv == ReplayAs(account.key, account.key, log) = Held

LEMMA ReplayStep ==
    ASSUME Typed, ReplayInv, [Next]_vars
    PROVE  ReplayInv'
<1> DEFINE o == account'.key
<1>1. CASE UNCHANGED <<account, log>>
  BY <1>1 DEF ReplayInv, Held
<1>2. CASE /\ account'.key = account.key \/ log = <<>>
           /\ \E e \in Event : log' = Append(log, e) /\ Held' = ApplyAs(o, o, Held, e)
  <2>1. PICK e \in Event : log' = Append(log, e) /\ Held' = ApplyAs(o, o, Held, e)
    BY <1>2
  <2>2. ReplayAs(o, o, log) = Held
    <3>1. CASE account'.key = account.key
      BY <3>1 DEF ReplayInv
    <3>2. CASE log = <<>>
      BY <3>2, ReplayStarts DEF ReplayInv
    <3> QED BY <1>2, <3>1, <3>2
  <2>3. ReplayAs(o, o, log') = ApplyAs(o, o, ReplayAs(o, o, log), e)
    BY <2>1, ReplayGoesOn DEF Typed, TypeOK
  <2> QED BY <2>1, <2>2, <2>3 DEF ReplayInv
<1> QED BY <1>1, <1>2, StepTold DEF Told

LEMMA InitReplay == Init => ReplayInv
BY ReplayStarts DEF Init, ReplayInv, Held, Empty

(* The replay's rules are the token's: with the key on file and the whole     *)
(* history, it gives the openings of both balances on chain.                  *)
THEOREM ReplayTellsTheBalance == Spec => []ReplayIsExact
<1>1. Typed /\ ReplayInv /\ [Next]_vars => ReplayInv'
  BY ReplayStep
<1>2. ReplayInv => ReplayIsExact
  BY ReplayNamesTheOwner DEF ReplayInv, ReplayIsExact, Held
<1> QED BY <1>1, <1>2, InitReplay, ConfidentialTypeCorrect, PTL DEF Spec

(* A replay that starts late: at any event, or after all of them.             *)
Below(b, a) == b.spendable.v <= a.spendable.v /\ b.receiving.v <= a.receiving.v
Since(k) == SubSeq(log, k, Len(log))

SuffixInv ==
    \A k \in 1..Len(log) + 1 :
        Below(ReplayAs(account.key, account.key, Since(k)), Held)

(* An event moves what the late replay has no further than what there is.     *)
LEMMA ApplyKeepsOrder ==
    ASSUME NEW o, NEW a \in Balances, NEW b \in Balances, NEW e \in Event, Below(b, a)
    PROVE  Below(ApplyAs(o, o, b, e), ApplyAs(o, o, a, e))
<1> DEFINE left == Opened(o, o, "own", e.rest, e)
           came == Opened(o, o, "tx", e.amount, e)
           paid == Moved(e.amount)
           after(s) == CASE e.type = "register" -> s
              [] e.type = "deposit"  -> [s EXCEPT !.receiving = Plus(@, paid)]
              [] e.type = "merge"    -> [spendable |-> Plus(s.spendable, s.receiving), receiving |-> Zero]
              [] e.type = "withdraw" -> [s EXCEPT !.spendable = left]
              [] e.type = "transfer" ->
                    [spendable |-> IF "from" \in e.me THEN left ELSE s.spendable,
                     receiving |-> IF "to" \in e.me THEN Plus(s.receiving, came) ELSE s.receiving]
<1>1. \A s : ApplyAs(o, o, s, e) = after(s)
  BY DEF ApplyAs
<1>2. /\ left.v \in Nat /\ came.v = e.amount /\ paid.v = e.amount /\ Zero.v = 0 /\ e.amount \in Nat
      /\ e.type \in {"register", "deposit", "merge", "withdraw", "transfer"}
  BY DEF Event, Zero, Opened, Moved
<1>3. /\ a.spendable.v \in Nat /\ a.receiving.v \in Nat
      /\ b.spendable.v \in Nat /\ b.receiving.v \in Nat
  BY DEF Balances, Opening
<1>4. \A x, y : Plus(x, y).v = x.v + y.v
  BY DEF Plus
<1> HIDE DEF left, came, paid
<1>5. ASSUME NEW s \in Balances
      PROVE  /\ e.type = "register" => after(s) = s
             /\ e.type = "deposit" =>
                    /\ after(s).spendable = s.spendable
                    /\ after(s).receiving.v = s.receiving.v + e.amount
             /\ e.type = "merge" =>
                    /\ after(s).spendable.v = s.spendable.v + s.receiving.v
                    /\ after(s).receiving.v = 0
             /\ e.type = "withdraw" =>
                    after(s).spendable = left /\ after(s).receiving = s.receiving
             /\ e.type = "transfer" =>
                    /\ after(s).spendable = IF "from" \in e.me THEN left ELSE s.spendable
                    /\ after(s).receiving.v =
                            IF "to" \in e.me THEN s.receiving.v + e.amount ELSE s.receiving.v
  BY <1>2, <1>4 DEF Balances
<1> HIDE DEF after
<1>6. Below(after(b), after(a))
  BY <1>2, <1>3, <1>5 DEF Below
<1> QED BY <1>1, <1>6

LEMMA SuffixesGrow ==
    ASSUME NEW es \in Seq(Event), NEW e \in Event, NEW k \in 1..Len(es) + 1
    PROVE  /\ SubSeq(es, k, Len(es)) \in Seq(Event)
           /\ SubSeq(Append(es, e), k, Len(es) + 1) = Append(SubSeq(es, k, Len(es)), e)
<1> DEFINE fs == Append(es, e)
           n  == Len(es)
           l  == SubSeq(es, k, n)
           r  == SubSeq(fs, k, n + 1)
<1>1. /\ n \in Nat /\ fs \in Seq(Event) /\ Len(fs) = n + 1 /\ fs[n + 1] = e
      /\ \A i \in 1..n : fs[i] = es[i]
  BY LenProperties, AppendProperties
<1>2. (\A i \in k..n : es[i] \in Event) /\ (\A i \in k..n + 1 : fs[i] \in Event)
  BY <1>1, ElementOfSeq
<1>3. l \in Seq(Event) /\ Len(l) = n - k + 1 /\ \A i \in 1..n - k + 1 : l[i] = es[k + i - 1]
  BY <1>1, <1>2, SubSeqProperties
<1> HIDE DEF fs
<1>4. r \in Seq(Event) /\ Len(r) = n - k + 2 /\ \A i \in 1..n - k + 2 : r[i] = fs[k + i - 1]
  <2>1. k \in Int /\ n + 1 \in Int /\ k <= n + 1 /\ n + 1 - k + 1 = n - k + 2
    BY <1>1
  <2> QED BY <1>2, <2>1, SubSeqProperties
<1> HIDE DEF l, r, n
<1>5. /\ Append(l, e) \in Seq(Event) /\ Len(Append(l, e)) = n - k + 2
      /\ \A i \in 1..n - k + 1 : Append(l, e)[i] = l[i]
      /\ Append(l, e)[n - k + 2] = e
  <2>1. n - k + 1 + 1 = n - k + 2
    BY <1>1
  <2> QED BY <1>3, <2>1, AppendProperties
<1>6. \A i \in 1..n - k + 2 : r[i] = Append(l, e)[i]
  <2>1. ASSUME NEW i \in 1..n - k + 2, i # n - k + 2 PROVE r[i] = Append(l, e)[i]
    <3>1. i \in 1..n - k + 1 /\ k + i - 1 \in 1..n
      BY <1>1, <2>1 DEF n
    <3> QED BY <1>1, <1>3, <1>4, <1>5, <3>1
  <2>2. r[n - k + 2] = e
    <3>1. n - k + 2 \in 1..n - k + 2 /\ k + (n - k + 2) - 1 = n + 1
      BY <1>1 DEF n
    <3>2. r[n - k + 2] = fs[k + (n - k + 2) - 1]
      BY <1>4, <3>1
    <3> QED BY <1>1, <3>1, <3>2
  <2> QED BY <1>5, <2>1, <2>2
<1>7. r = Append(l, e)
  BY <1>4, <1>5, <1>6, SeqEqual
<1> QED BY <1>3, <1>7 DEF l, r, fs, n

LEMMA NothingSince ==
    ASSUME Typed, NEW o, NEW k \in Int, k > Len(log)
    PROVE  ReplayAs(o, o, Since(k)) = Empty
<1>1. Len(log) \in Nat
  BY LenProperties DEF Typed, TypeOK
<1>2. Since(k) = <<>>
  BY <1>1, SubSeqEmpty DEF Since
<1> QED BY <1>2, ReplayStarts

LEMMA SuffixStep ==
    ASSUME Typed, Typed', SuffixInv, [Next]_vars
    PROVE  SuffixInv'
<1> DEFINE o == account'.key
<1>1. CASE UNCHANGED <<account, log>>
  BY <1>1 DEF SuffixInv, Held, Since
<1>2. CASE /\ account'.key = account.key \/ log = <<>>
           /\ \E e \in Event : log' = Append(log, e) /\ Held' = ApplyAs(o, o, Held, e)
  <2>1. PICK e \in Event : log' = Append(log, e) /\ Held' = ApplyAs(o, o, Held, e)
    BY <1>2
  <2>2. log \in Seq(Event) /\ Len(log) \in Nat /\ Len(log') = Len(log) + 1
    BY <2>1, LenProperties, AppendProperties DEF Typed, TypeOK
  <2>3. Held \in Balances
    BY DEF Held, Balances, Typed, TypeOK
  <2>4. Held'.spendable.v \in Nat /\ Held'.receiving.v \in Nat
    <3>1. account'.spendable \in Opening /\ account'.receiving \in Opening
      BY DEF Typed, TypeOK
    <3> QED BY <3>1 DEF Held, Opening
  <2>5. ASSUME NEW k \in 1..Len(log) + 1 PROVE Below(ReplayAs(o, o, Since(k)'), Held')
    <3>1. Since(k)' = Append(Since(k), e) /\ Since(k) \in Seq(Event)
      BY <2>1, <2>2, SuffixesGrow DEF Since
    <3>2. Below(ReplayAs(o, o, Since(k)), Held)
      <4>1. CASE account'.key = account.key
        BY <4>1 DEF SuffixInv
      <4>2. CASE log = <<>>
        <5>1. k > Len(log) - 0 /\ k \in Int
          BY <4>2, <2>2
        <5>2. ReplayAs(o, o, Since(k)) = Empty
          BY <5>1, <2>2, NothingSince
        <5> QED BY <2>3, <5>2 DEF Below, Empty, Zero, Balances, Opening
      <4> QED BY <1>2, <4>1, <4>2
    <3>3. ReplayAs(o, o, Since(k)) \in Balances
      BY <3>1, ReplayTyped
    <3>4. ReplayAs(o, o, Since(k)') = ApplyAs(o, o, ReplayAs(o, o, Since(k)), e)
      BY <3>1, ReplayGoesOn
    <3> QED BY <2>1, <2>3, <3>2, <3>3, <3>4, ApplyKeepsOrder
  <2>6. ASSUME NEW k \in Nat, k = Len(log) + 2 PROVE Below(ReplayAs(o, o, Since(k)'), Held')
    <3>1. Since(k)' = <<>>
      BY <2>2, <2>6, SubSeqEmpty DEF Since
    <3>2. ReplayAs(o, o, <<>>) = Empty
      BY ReplayStarts
    <3> QED BY <2>4, <3>1, <3>2 DEF Below, Empty, Zero
  <2>7. \A k \in 1..Len(log') + 1 : k \in 1..Len(log) + 1 \/ (k \in Nat /\ k = Len(log) + 2)
    BY <2>2
  <2> QED BY <2>5, <2>6, <2>7 DEF SuffixInv
<1> QED BY <1>1, <1>2, StepTold DEF Told

LEMMA InitSuffix == Init => SuffixInv
<1>1. SUFFICES ASSUME Init PROVE SuffixInv
  OBVIOUS
<1>2. log = <<>> /\ Len(log) = 0
  BY <1>1 DEF Init
<1>3. Since(1) = <<>>
  BY <1>2, SubSeqEmpty DEF Since
<1>4. ReplayAs(account.key, account.key, Since(1)) = Empty
  BY <1>3, ReplayStarts
<1> QED BY <1>1, <1>2, <1>4 DEF Init, SuffixInv, Held, Below, Empty, Zero

(* A replay that has lost old events may show too little, never too much.     *)
THEOREM LateReplayShowsNoMore == Spec => []ColdStartNeverOverstates
<1>1. Typed /\ Typed' /\ SuffixInv /\ [Next]_vars => SuffixInv'
  BY SuffixStep
<1>2. Typed /\ SuffixInv => ColdStartNeverOverstates
  <2>1. SUFFICES ASSUME Typed, SuffixInv PROVE ColdStartNeverOverstates
    OBVIOUS
  <2>2. oldest \in 1..Len(log) + 1
    BY <2>1 DEF Typed, TypeOK
  <2>3. Sync(account.key) = ReplayAs(account.key, account.key, Since(oldest))
    BY ReplayNamesTheOwner DEF Sync, Since
  <2>4. Below(ReplayAs(account.key, account.key, Since(oldest)), Held)
    BY <2>1, <2>2 DEF SuffixInv
  <2> QED BY <2>3, <2>4 DEF ColdStartNeverOverstates, Below, Held
<1> QED BY <1>1, <1>2, InitSuffix, ConfidentialTypeCorrect, PTL DEF Spec
------------------------------------------------------------------------------
(* The proofs that wait.                                                      *)

(* What a payment was proved for, filed or still to be: the balance on chain, *)
(* unless the vault has settled or spent since it was built.                  *)
Good(w) ==
    Payment(w) =>
        /\ HasAccount /\ w.at \in 0..Len(log)
        /\ /\ w.by = account.key /\ w.whole
           /\ \A n \in w.at + 1..Len(log) : ~Own(log[n])
           => Verifies(w)

JobsGood   == \A s \in Signer, k \in Slot : \A i \in DOMAIN job[s][k] : Good(job[s][k][i])
FiledGood  == \A i \in DOMAIN proposals : Good(proposals[i].what)
ProofsInv  == JobsGood /\ FiledGood

(* An event that is not the vault's own leaves the spendable balance alone.   *)
LEMMA NotOwn ==
    ASSUME NEW o, NEW e \in Event, ~Own(e)
    PROVE  ApplyAs(o, o, Held, e).spendable = account.spendable
<1>1. e.type \in {"register", "deposit", "transfer"} /\ (e.type = "transfer" => "from" \notin e.me)
  BY DEF Own, Event
<1> QED BY <1>1 DEF ApplyAs, Held

LEMMA GoodStays ==
    ASSUME Typed, Told, NEW w, Good(w)
    PROVE  Good(w)'
<1>1. SUFFICES ASSUME Payment(w) PROVE Good(w)'
  BY DEF Good, Payment
<1>2. HasAccount /\ w.at \in 0..Len(log) /\ Len(log) \in Nat /\ log \in Seq(Event)
  BY <1>1, LenProperties DEF Good, Typed, TypeOK
<1>3. CASE UNCHANGED <<account, log>>
  BY <1>3 DEF Good, HasAccount, Verifies, Payment
<1>4. CASE ~UNCHANGED <<account, log>>
  <2>1. account'.key = account.key /\ HasAccount'
    BY <1>2, <1>4 DEF Told
  <2>2. PICK e \in Event :
            /\ log' = Append(log, e)
            /\ Held' = ApplyAs(account'.key, account'.key, Held, e)
    BY <1>4 DEF Told
  <2>3. /\ Len(log') = Len(log) + 1 /\ log'[Len(log) + 1] = e
        /\ \A n \in 1..Len(log) : log'[n] = log[n]
    BY <1>2, <2>2, AppendProperties
  <2>4. SUFFICES ASSUME w.by = account'.key, w.whole,
                        \A n \in w.at + 1..Len(log') : ~Own(log'[n])
                 PROVE  Verifies(w)'
    BY <1>2, <2>1, <2>3 DEF Good
  <2>5. \A n \in w.at + 1..Len(log) : ~Own(log[n])
    BY <1>2, <2>3, <2>4
  <2>6. Verifies(w)
    BY <1>1, <2>1, <2>4, <2>5 DEF Good
  <2>7. ~Own(e)
    BY <1>2, <2>3, <2>4
  <2>8. account'.spendable = account.spendable
    <3>1. Held'.spendable = account.spendable
      BY <2>2, <2>7, NotOwn
    <3> QED BY <3>1 DEF Held
  <2> QED BY <2>1, <2>6, <2>8 DEF Verifies
<1> QED BY <1>3, <1>4

(* A proof is built for the balance on chain when nothing is forgotten.       *)
LEMMA BuiltGood ==
    ASSUME Typed, ReplayInv, NEW s \in Signer, NEW op, NEW amount \in Pay, NEW to,
           Covered(s, amount)
    PROVE  Good(Proven(s, op, amount, to))
<1> DEFINE w == Proven(s, op, amount, to)
<1>1. /\ w.by = s /\ w.amount = amount /\ w.opening = Sync(s).spendable
      /\ w.at = Len(log) /\ w.whole = (oldest = 1)
  BY DEF Proven, Plain
<1>2. /\ log \in Seq(Event) /\ Len(log) \in Nat /\ oldest \in 1..Len(log) + 1
      /\ amount \in Nat /\ amount > 0 /\ Sync(s).spendable.v >= amount
  BY LenProperties, ConfidentialAssumption DEF Typed, TypeOK, Covered
<1>3. HasAccount
  <2>1. SUFFICES ASSUME ~HasAccount PROVE FALSE
    OBVIOUS
  <2>2. log = <<>> /\ Len(log) = 0
    BY <2>1 DEF Typed, TokenInv, AccountFirst
  <2>3. oldest > Len(log)
    BY <1>2, <2>2
  <2>4. SubSeq(log, oldest, Len(log)) = <<>>
    BY <1>2, <2>3, SubSeqEmpty
  <2>5. Sync(s) = Empty
    BY <2>4, ReplayNamesTheOwner, ReplayStarts DEF Sync
  <2> QED BY <1>2, <2>5 DEF Empty, Zero
<1>4. ASSUME s = account.key, oldest = 1
      PROVE  Sync(s).spendable = account.spendable
  <2>1. SubSeq(log, oldest, Len(log)) = log
    BY <1>2, <1>4, SubSeqFull
  <2>2. Sync(s) = Held
    BY <1>4, <2>1, ReplayNamesTheOwner DEF Sync, ReplayInv
  <2> QED BY <2>2 DEF Held
<1> HIDE DEF w
<1>5. w.at \in 0..Len(log)
  BY <1>1, <1>2
<1>6. w.by = account.key /\ w.whole => Verifies(w)
  BY <1>1, <1>2, <1>4 DEF Verifies
<1> QED BY <1>3, <1>5, <1>6 DEF Good, w

LEMMA StartsGood ==
    ASSUME Typed, ProofsInv, NEW s \in Signer, NEW operations \in Seq(Operation),
           Starts(s, operations), \A i \in DOMAIN operations : Good(operations[i])
    PROVE  ProofsInv'
<1>1. PICK k \in Slot : job' = [job EXCEPT ![s][k] = operations]
  BY DEF Starts
<1>2. UNCHANGED <<account, log, proposals>>
  BY DEF Starts, token, vault
<1>3. \A w : Good(w)' <=> Good(w)
  BY <1>2 DEF Good, Payment, HasAccount, Verifies
<1>4. \A t \in Signer, l \in Slot :
        job'[t][l] = IF t = s /\ l = k THEN operations ELSE job[t][l]
  BY <1>1 DEF Typed, TypeOK
<1>5. JobsGood'
  BY <1>3, <1>4 DEF ProofsInv, JobsGood
<1>6. FiledGood'
  BY <1>2, <1>3 DEF ProofsInv, FiledGood
<1> QED BY <1>5, <1>6 DEF ProofsInv

LEMMA ProposeGood ==
    ASSUME Typed, ProofsInv, NEW s \in Signer, NEW needs, NEW operation \in Operation,
           NEW built \in BOOLEAN, Propose(s, needs, operation, built),
           built => Good(operation)
    PROVE  ProofsInv'
<1>1. PICK operations \in Seq(Operation) :
        /\ Starts(s, operations)
        /\ \A i \in DOMAIN operations :
                operations[i].op = "allow" \/ (built /\ operations[i] = operation)
  <2>1. TypeOK
    BY DEF Typed
  <2>2. StartsSome(s, operation, built)
    BY <2>1, ProposeStarts
  <2> QED BY <2>2 DEF StartsSome
<1>2. \A i \in DOMAIN operations : Good(operations[i])
  BY <1>1 DEF Good, Payment
<1> QED BY <1>1, <1>2, StartsGood

LEMMA ScreenGood ==
    ASSUME Typed, ReplayInv, ProofsInv, NEW s \in Signer, Screen(s)
    PROVE  ProofsInv'
<1>1. UNCHANGED <<account, log>>
  BY ScreensOnlyFile
<1>2. \A w : Good(w)' <=> Good(w)
  BY <1>1 DEF Good, Payment, HasAccount, Verifies
<1>3. CASE UNCHANGED <<job, proposals>>
  BY <1>2, <1>3 DEF ProofsInv, JobsGood, FiledGood
<1>4. CASE ProposeSetup(s)
  BY <1>4, BuildersTyped, ProposeGood DEF ProposeSetup, Op, Typed, Good, Payment, Plain
<1>5. CASE ProposeDeposit(s)
  <2>1. PICK amount \in Deposit :
            Propose(s, {"token", "xlm"}, Plain(s, "deposit", amount, Nobody), TRUE)
    BY <1>5 DEF ProposeDeposit
  <2>2. Plain(s, "deposit", amount, Nobody) \in Operation
    BY BuildersTyped, ConfidentialAssumption DEF Op, Typed
  <2>3. Good(Plain(s, "deposit", amount, Nobody))
    BY DEF Good, Payment, Plain
  <2> QED BY <2>1, <2>2, <2>3, ProposeGood
<1>6. CASE ProposeSettle(s)
  BY <1>6, BuildersTyped, ProposeGood DEF ProposeSettle, Op, Typed, Good, Payment, Plain
<1>7. CASE ProposeTransfer(s)
  <2>1. PICK amount \in Pay, to \in Outsider \cup {Self} :
            Propose(s, {"token"}, Proven(s, "confidential_transfer", amount, to),
                    Covered(s, amount) /\ HoldsAccount(to))
    BY <1>7 DEF ProposeTransfer
  <2>2. Proven(s, "confidential_transfer", amount, to) \in Operation
    BY BuildersTyped, ConfidentialAssumption DEF Op, Typed
  <2>3. (Covered(s, amount) /\ HoldsAccount(to)) \in BOOLEAN
    BY DEF Covered
  <2> QED BY <2>1, <2>2, <2>3, BuiltGood, ProposeGood
<1>8. CASE ProposeWithdraw(s)
  <2>1. PICK amount \in Pay, to \in Outsider \cup {Self} :
            Propose(s, {"token"}, Proven(s, "withdraw", amount, to), Covered(s, amount))
    BY <1>8 DEF ProposeWithdraw
  <2>2. Proven(s, "withdraw", amount, to) \in Operation
    BY BuildersTyped, ConfidentialAssumption DEF Op, Typed
  <2>3. Covered(s, amount) \in BOOLEAN
    BY DEF Covered
  <2> QED BY <2>1, <2>2, <2>3, BuiltGood, ProposeGood
<1>9. CASE File(s)
  <2>1. PICK k \in Slot :
            /\ job[s][k] # <<>>
            /\ proposals' = Append(proposals, [what |-> Head(job[s][k]), executed |-> FALSE])
            /\ Goes(s, k, Tail(job[s][k]))
    BY <1>9 DEF File
  <2> DEFINE ws == job[s][k]
             p  == [what |-> Head(ws), executed |-> FALSE]
  <2>2. ws \in Seq(Operation) /\ ws # <<>> /\ \A i \in DOMAIN ws : Good(ws[i])
    BY <2>1 DEF Typed, TypeOK, ProofsInv, JobsGood
  <2>3. job' = [job EXCEPT ![s][k] = Tail(ws)] /\ proposals' = Append(proposals, p)
    BY <2>1 DEF Goes
  <2> HIDE DEF ws
  <2>4. /\ Head(ws) = ws[1] /\ Len(ws) \in Nat /\ Len(ws) >= 1
        /\ Tail(ws) \in Seq(Operation) /\ Len(Tail(ws)) = Len(ws) - 1
        /\ \A i \in 1..Len(Tail(ws)) : Tail(ws)[i] = ws[i + 1]
    BY <2>2, HeadTailProperties, LenProperties
  <2>5. DOMAIN ws = 1..Len(ws) /\ DOMAIN Tail(ws) = 1..Len(Tail(ws))
    BY <2>2, <2>4, LenProperties
  <2>6. \A i \in DOMAIN Tail(ws) : Good(Tail(ws)[i])
    BY <2>2, <2>4, <2>5
  <2>7. \A t \in Signer, l \in Slot :
            job'[t][l] = IF t = s /\ l = k THEN Tail(ws) ELSE job[t][l]
    BY <2>3 DEF Typed, TypeOK
  <2>8. JobsGood'
    BY <1>2, <2>6, <2>7 DEF ProofsInv, JobsGood
  <2>9. p \in Proposal /\ Good(p.what) /\ proposals \in Seq(Proposal)
    <3>1. Head(ws) \in Operation
      BY <2>2, HeadTailProperties
    <3>2. 1 \in DOMAIN ws
      BY <2>4, <2>5
    <3> QED BY <2>2, <2>4, <3>1, <3>2 DEF Proposal, Typed, TypeOK
  <2> HIDE DEF p
  <2>10. /\ Len(proposals) \in Nat /\ DOMAIN proposals = 1..Len(proposals)
         /\ DOMAIN proposals' = 1..Len(proposals) + 1
         /\ \A i \in 1..Len(proposals) : proposals'[i] = proposals[i]
         /\ proposals'[Len(proposals) + 1] = p
    <3>1. proposals' \in Seq(Proposal) /\ Len(proposals') = Len(proposals) + 1
      BY <2>3, <2>9, AppendProperties
    <3> QED BY <2>3, <2>9, <3>1, AppendProperties, LenProperties
  <2>11. FiledGood'
    BY <1>2, <2>9, <2>10 DEF ProofsInv, FiledGood
  <2> QED BY <2>8, <2>11 DEF ProofsInv
<1>10. CASE FileFails(s)
  <2>1. PICK k \in Slot : job' = [job EXCEPT ![s][k] = <<>>] /\ UNCHANGED proposals
    BY <1>10 DEF FileFails, Goes, vault
  <2>2. \A t \in Signer, l \in Slot :
            job'[t][l] = IF t = s /\ l = k THEN <<>> ELSE job[t][l]
    BY <2>1 DEF Typed, TypeOK
  <2>3. \A i \in DOMAIN <<>> : FALSE
    OBVIOUS
  <2> QED BY <1>2, <2>1, <2>2, <2>3 DEF ProofsInv, JobsGood, FiledGood
<1> QED BY <1>3, <1>4, <1>5, <1>6, <1>7, <1>8, <1>9, <1>10
        DEF Screen, CheckRegistered, CheckFails, Unlock, UnlockFails, Refresh, RefreshFails, vault

LEMMA ProofsStep ==
    ASSUME Typed, ReplayInv, ProofsInv, [Next]_vars
    PROVE  ProofsInv'
<1>1. \A w : Good(w) => Good(w)'
  BY StepTold, GoodStays
<1>2. CASE \E s \in Signer : Screen(s)
  BY <1>2, ScreenGood
<1>3. CASE Executes
  <2>1. PICK i \in DOMAIN proposals : Done(i) /\ UNCHANGED job
    BY <1>3 DEF Executes, ExecuteAllow, ExecuteCall, screens
  <2>2. /\ DOMAIN proposals' = DOMAIN proposals
        /\ \A j \in DOMAIN proposals : proposals'[j].what = proposals[j].what
    BY <2>1, DoneMarksOne DEF Typed
  <2>3. FiledGood'
    BY <1>1, <2>2 DEF ProofsInv, FiledGood
  <2> QED BY <1>1, <2>1, <2>3 DEF ProofsInv, JobsGood
<1>4. CASE Others \/ Age \/ UNCHANGED vars
  <2>1. UNCHANGED <<job, proposals>>
    BY <1>4 DEF Others, OthersDeposit, OthersPay, Join, Age, vars, vault, screens
  <2> QED BY <1>1, <2>1 DEF ProofsInv, JobsGood, FiledGood
<1> QED BY <1>2, <1>3, <1>4 DEF Next

LEMMA InitProofs == Init => ProofsInv
<1>1. SUFFICES ASSUME Init PROVE ProofsInv
  OBVIOUS
<1>2. DOMAIN <<>> = {}
  OBVIOUS
<1> QED BY <1>1, <1>2 DEF Init, ProofsInv, JobsGood, FiledGood

(* A payment built from the whole history verifies until the vault itself     *)
(* settles or spends.                                                         *)
THEOREM HiddenPaymentsVerify == Spec => []FreshProofsVerify
<1>1. Typed /\ ReplayInv /\ [Next]_vars => ReplayInv'
  BY ReplayStep
<1>2. Typed /\ ReplayInv /\ ProofsInv /\ [Next]_vars => ProofsInv'
  BY ProofsStep
<1>3. ProofsInv => FreshProofsVerify
  BY DEF ProofsInv, FiledGood, Good, FreshProofsVerify
<1> QED BY <1>1, <1>2, <1>3, InitReplay, InitProofs, ConfidentialTypeCorrect, PTL DEF Spec
==============================================================================
