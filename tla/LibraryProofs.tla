---------------------------- MODULE LibraryProofs ----------------------------
(* The dashboard's library (web/lib).  The transaction client: for any number *)
(* of calls and accounts and for every choice of the limits under which the   *)
(* polls outlast the transaction, invoke implements Submission.  The amounts: *)
(* for every base, number of decimals and width of a group, and for texts of  *)
(* any length, what is written is read back and nothing else is accepted.     *)
EXTENDS TxClient, Amounts, SequenceTheorems, WellFoundedInduction, TLAPS

(* What a call has left behind in the network, by where its invocation is.    *)
Unsent == {"idle", "prepare", "sign", "send", "refused", "rejected"}

Unsubmitted == \A c \in Call :
    pc[c] \in Unsent => c \notin pool /\ result[c] = "none"

Queued == \A c \in pool : result[c] = "none"

Truthful == \A c \in Call :
    /\ pc[c] = "done" => result[c] = "ok"
    /\ pc[c] = "failed" => result[c] = "failed"

(* An inclusion uses up the sequence number, so nothing is included again.    *)
UsedUp == \A c \in Call : result[c] # "none" => seq[c] <= sequence[Source[c]]

(* Every poll counted was preceded by a second of sleep, in which the         *)
(* transaction aged too; the present sleep is still to come.                  *)
Ageing == \A c \in Call :
    pc[c] = "poll" => ttl[c] = 0 \/ ttl[c] + tries[c] <= TxTimeout + nap[c]

Expired == \A c \in Call : pc[c] = "gaveUp" => ttl[c] = 0

IInv ==
    /\ TypeOK
    /\ Unsubmitted
    /\ Queued
    /\ Truthful
    /\ UsedUp
    /\ Ageing
    /\ Expired

(* The steps of one call, grouped by what they touch.                         *)
Waiting(c) ==
    \/ Build(c) \/ BuildFails(c) \/ Prepare(c) \/ Sign(c) \/ RefuseToSign(c)
    \/ SendTurnedAway(c) \/ SendOver(c) \/ Poll(c)
Submitting(c) == SendAccepted(c) \/ SendBreaks(c)
Including(c)  == Include(c) \/ Drop(c)

LEMMA InitIInv == Init => IInv
BY ClientAssumption
DEF Init, IInv, TypeOK, Unsubmitted, Queued, Truthful, UsedUp, Ageing, Expired,
    Running, Unsent

LEMMA WaitingKeepsIInv ==
    ASSUME IInv, NEW c \in Call, Waiting(c) PROVE IInv'
<1> USE ClientAssumption DEF IInv, Running, Ended, client, network
<1>1. CASE Build(c)
  BY <1>1
  DEF Build, TypeOK, Unsubmitted, Queued, Truthful, UsedUp, Ageing, Expired,
      Unsent
<1>2. CASE BuildFails(c) \/ RefuseToSign(c) \/ Sign(c) \/ PrepareOver(c)
           \/ Prepared(c)
  BY <1>2
  DEF BuildFails, RefuseToSign, Sign, PrepareOver, Prepared, Enter, Awake,
      TypeOK, Unsubmitted, Queued, Truthful, UsedUp, Ageing, Expired, Unsent
<1>3. CASE PrepareFails(c) \/ SendTurnedAway(c)
  BY <1>3
  DEF PrepareFails, SendTurnedAway, TryAgain, Awake,
      TypeOK, Unsubmitted, Queued, Truthful, UsedUp, Ageing, Expired, Unsent
<1>4. CASE SendOver(c)
  BY <1>4
  DEF SendOver, Enter, Awake,
      TypeOK, Unsubmitted, Queued, Truthful, UsedUp, Ageing, Expired, Unsent
<1>5. CASE NotFoundYet(c)
  BY <1>5
  DEF NotFoundYet, TryAgain, Awake,
      TypeOK, Unsubmitted, Queued, Truthful, UsedUp, Ageing, Expired, Unsent
<1>6. CASE GiveUp(c)
  BY <1>6
  DEF GiveUp, Enter, Awake,
      TypeOK, Unsubmitted, Queued, Truthful, UsedUp, Ageing, Expired, Unsent
<1>7. CASE Found(c) \/ PollBreaks(c)
  BY <1>7
  DEF Found, PollBreaks, Visible, Enter, Awake,
      TypeOK, Unsubmitted, Queued, Truthful, UsedUp, Ageing, Expired, Unsent
<1> QED
  BY <1>1, <1>2, <1>3, <1>4, <1>5, <1>6, <1>7 DEF Waiting, Prepare, Poll

LEMMA SubmittingKeepsIInv ==
    ASSUME IInv, NEW c \in Call, Submitting(c) PROVE IInv'
BY ClientAssumption
DEF IInv, Submitting, SendAccepted, SendBreaks, Enter, Awake, Valid, Running,
    Ended, TypeOK, Unsubmitted, Queued, Truthful, UsedUp, Ageing, Expired, Unsent

LEMMA IncludingKeepsIInv ==
    ASSUME IInv, NEW c \in Call, Including(c) PROVE IInv'
BY ClientAssumption
DEF IInv, Including, Include, Drop, Valid, client, Running, Ended, TypeOK,
    Unsubmitted, Queued, Truthful, UsedUp, Ageing, Expired, Unsent

LEMMA ClockKeepsIInv ==
    ASSUME IInv, Tick \/ \E a \in Account : Ingest(a) PROVE IInv'
<1> USE ClientAssumption DEF IInv, client, network
<1>1. CASE Tick
  BY <1>1
  DEF Tick, OneLess, Running, Ended, TypeOK, Unsubmitted, Queued, Truthful,
      UsedUp, Ageing, Expired
<1>2. CASE \E a \in Account : Ingest(a)
  BY <1>2
  DEF Ingest, TypeOK, Unsubmitted, Queued, Truthful, UsedUp, Ageing, Expired
<1> QED
  BY <1>1, <1>2

LEMMA StepCases ==
    ASSUME Next
    PROVE  \/ \E c \in Call : Waiting(c) \/ Submitting(c) \/ Including(c)
           \/ Tick
           \/ \E a \in Account : Ingest(a)
BY DEF Next, Send, Waiting, Submitting, Including

LEMMA NextKeepsIInv == IInv /\ [Next]_vars => IInv'
<1> SUFFICES ASSUME IInv, [Next]_vars PROVE IInv'
  OBVIOUS
<1>1. CASE Next
  BY <1>1, StepCases, WaitingKeepsIInv, SubmittingKeepsIInv, IncludingKeepsIInv,
     ClockKeepsIInv
<1>2. CASE UNCHANGED vars
  BY <1>2
  DEF vars, IInv, TypeOK, Unsubmitted, Queued, Truthful, UsedUp, Ageing, Expired
<1> QED
  BY <1>1, <1>2

(* Type correctness of invoke's bookkeeping, for every value of the limits.   *)
THEOREM ClientTypeCorrect == Spec => []TypeOK
<1>1. IInv => TypeOK
  BY DEF IInv
<1> QED
  BY <1>1, InitIInv, NextKeepsIInv, PTL DEF Spec

------------------------------------------------------------------------------
(* The refinement: one step of a call is one report, one inclusion, or        *)
(* nothing that the caller could notice.                                      *)
LEMMA InitIsAbstract == Init => Promise!Init
BY DEF Init, Promise!Init, ReportOf, Running

LEMMA WaitingIsAbstract ==
    ASSUME IInv, NEW c \in Call, Waiting(c) PROVE [Promise!Next]_(Promise!vars)
<1> DEFINE told == [d \in Call |-> ReportOf(d)]
<1>1. /\ result' = result
      /\ \A d \in Call \ {c} : ReportOf(d)' = ReportOf(d)
  BY DEF Waiting, Build, BuildFails, Prepare, Prepared, PrepareFails,
         PrepareOver, Sign, RefuseToSign, SendTurnedAway, SendOver, Poll, Found,
         NotFoundYet, GiveUp, PollBreaks, Enter, TryAgain, network, client,
         ReportOf, IInv, TypeOK
<1>2. told' = [told EXCEPT ![c] = ReportOf(c)']
  BY <1>1
<1>3. \/ ReportOf(c)' = ReportOf(c)
      \/ /\ ReportOf(c) = "pending"
         /\ ReportOf(c)' \in Promise!Report
         /\ ReportOf(c)' = "done" => result[c] = "ok"
         /\ ReportOf(c)' = "failed" => result[c] = "failed"
         /\ ReportOf(c)' = "refused" => result[c] = "none"
  BY DEF Waiting, Build, BuildFails, Prepare, Prepared, PrepareFails,
         PrepareOver, Sign, RefuseToSign, SendTurnedAway, SendOver, Poll, Found,
         NotFoundYet, GiveUp, PollBreaks, Enter, TryAgain, Awake, Visible,
         ReportOf, Running, Unsent, Promise!Report, IInv, TypeOK, Unsubmitted
<1>4. CASE ReportOf(c)' = ReportOf(c)
  BY <1>1, <1>2, <1>4 DEF Promise!vars
<1>5. CASE ReportOf(c)' # ReportOf(c)
  <2>1. Promise!Tell(c, ReportOf(c)')
    BY <1>1, <1>2, <1>3, <1>5 DEF Promise!Tell
  <2> QED
    BY <1>3, <1>5, <2>1 DEF Promise!Next
<1> QED
  BY <1>4, <1>5

LEMMA SubmittingIsAbstract ==
    ASSUME IInv, NEW c \in Call, Submitting(c)
    PROVE  [Promise!Next]_(Promise!vars)
<1> DEFINE told == [d \in Call |-> ReportOf(d)]
<1>1. /\ result' = result
      /\ told' = [told EXCEPT ![c] = ReportOf(c)']
      /\ told[c] = "pending"
      /\ ReportOf(c)' \in {"pending", "unknown"}
  BY ZenonT(60) DEF Submitting, SendAccepted, SendBreaks, Enter, Awake, ReportOf, Running,
         IInv, TypeOK
<1>2. Promise!Tell(c, ReportOf(c)')
  BY <1>1 DEF Promise!Tell
<1> QED
  BY <1>1, <1>2 DEF Promise!Next, Promise!Report

LEMMA IncludingIsAbstract ==
    ASSUME IInv, NEW c \in Call, Including(c)
    PROVE  [Promise!Next]_(Promise!vars)
<1> DEFINE told == [d \in Call |-> ReportOf(d)]
<1>1. told' = told
  BY DEF Including, Include, Drop, client, ReportOf
<1>2. CASE Include(c)
  <2>1. told[c] \in {"pending", "unknown"} /\ result[c] = "none"
    BY <1>2, ClientAssumption
    DEF Include, Valid, ReportOf, IInv, TypeOK, Unsubmitted, Queued, Truthful,
        Expired, Unsent, Running, Ended
  <2>2. Promise!TakeEffect(c)
    BY <1>1, <1>2, <2>1 DEF Include, Promise!TakeEffect
  <2> QED
    BY <2>2 DEF Promise!Next
<1>3. CASE Drop(c)
  BY <1>1, <1>3 DEF Drop, Promise!vars
<1> QED
  BY <1>2, <1>3 DEF Including

LEMMA ClockIsAbstract ==
    ASSUME Tick \/ (\E a \in Account : Ingest(a)) \/ UNCHANGED vars
    PROVE  UNCHANGED Promise!vars
BY DEF Tick, Ingest, vars, client, network, Promise!vars, ReportOf

(* Whatever the number of calls, tries and polls: invoke takes effect at most *)
(* once, reports nothing that is not so, and what it gave up on is over.      *)
THEOREM InvokeKeepsItsPromise == Spec => ImplementsSubmission
<1>1. IInv /\ [Next]_vars => [Promise!Next]_(Promise!vars)
  BY StepCases, WaitingIsAbstract, SubmittingIsAbstract, IncludingIsAbstract,
     ClockIsAbstract
<1> QED
  BY <1>1, InitIInv, NextKeepsIInv, InitIsAbstract, PTL
  DEF Spec, ImplementsSubmission, Promise!Spec

------------------------------------------------------------------------------
(* Amounts: everything below is about stellar.ts.                             *)

(* Induction, as the proofs below use it: over numbers, and over sequences    *)
(* that grow at their end.  The property is given as the set that has it.     *)
LEMMA LeastNat ==
    ASSUME NEW S, S \subseteq Nat, S # {}
    PROVE  \E m \in S : \A n \in S : m <= n
<1> DEFINE R == OpToRel(<, Nat)
<1>1. IsWellFoundedOn(R, Nat)
  BY NatLessThanWellFounded
<1>2. PICK m \in S : \A n \in S : <<n, m>> \notin R
  <2> HIDE DEF R
  <2> QED BY <1>1, WFMin
<1>3. \A n \in S : ~(n < m)
  BY <1>2 DEF OpToRel
<1>4. \A n \in S : m <= n
  BY <1>3
<1> QED BY <1>4

LEMMA NatInduct ==
    ASSUME NEW T, 0 \in T, \A n \in Nat : n \in T => n + 1 \in T
    PROVE  \A n \in Nat : n \in T
<1> DEFINE Bad == Nat \ T
<1> SUFFICES ASSUME Bad # {} PROVE FALSE
  OBVIOUS
<1>1. PICK m \in Bad : \A n \in Bad : m <= n
  <2>1. Bad \subseteq Nat
    OBVIOUS
  <2> HIDE DEF Bad
  <2> QED BY <2>1, LeastNat
<1>2. m - 1 \in Nat /\ m - 1 \notin Bad
  BY <1>1
<1>3. (m - 1) + 1 \in T
  BY <1>2
<1> QED BY <1>1, <1>3

LEMMA SeqInduct ==
    ASSUME NEW S, NEW T, <<>> \in T,
           \A s \in Seq(S), e \in S : s \in T => Append(s, e) \in T
    PROVE  \A s \in Seq(S) : s \in T
<1> DEFINE L == {n \in Nat : \A s \in Seq(S) : Len(s) = n => s \in T}
<1>1. 0 \in L
  BY EmptySeq
<1>2. ASSUME NEW n \in Nat, n \in L PROVE n + 1 \in L
  <2> SUFFICES ASSUME NEW s \in Seq(S), Len(s) = n + 1 PROVE s \in T
    OBVIOUS
  <2>1. PICK r \in Seq(S), e \in S : s = Append(r, e)
    BY SequenceEmptyOrAppend
  <2>2. Len(r) = n
    BY <2>1, AppendProperties, LenProperties
  <2>3. r \in T
    BY <1>2, <2>2
  <2> QED BY <2>1, <2>3
<1>3. \A n \in Nat : n \in L
  <2> HIDE DEF L
  <2> QED BY <1>1, <1>2, NatInduct
<1> QED BY <1>3, LenProperties

------------------------------------------------------------------------------
(* What digits spell.                                                         *)
Values(s, value) ==
    value = [i \in 0..Len(s) |->
                IF i = 0 THEN 0 ELSE value[i - 1] * Base + s[i]]

LEMMA ValuesExist == \A s \in Seq(Nat) : \E value : Values(s, value)
<1> DEFINE T == {s \in Seq(Nat) : \E value : Values(s, value)}
<1>1. <<>> \in T
  <2>1. Values(<<>>, [i \in 0..0 |-> 0])
    BY DEF Values
  <2> QED BY <2>1
<1>2. ASSUME NEW s \in Seq(Nat), NEW e \in Nat, s \in T
      PROVE  Append(s, e) \in T
  <2>1. PICK value : Values(s, value)
    BY <1>2
  <2> DEFINE t == Append(s, e)
  <2>2. /\ t \in Seq(Nat) /\ Len(t) = Len(s) + 1 /\ Len(s) \in Nat
        /\ t[Len(s) + 1] = e /\ \A i \in 1..Len(s) : t[i] = s[i]
    OBVIOUS
  <2> HIDE DEF t
  <2> DEFINE next == [i \in 0..Len(t) |->
                        IF i = 0 THEN 0
                        ELSE IF i <= Len(s) THEN value[i - 1] * Base + s[i]
                        ELSE value[Len(s)] * Base + e]
  <2>3. ASSUME NEW i \in 0..Len(s) PROVE next[i] = value[i]
    <3>1. i \in 0..Len(t) /\ i <= Len(s) /\ i \in Nat
      BY <2>2
    <3>2. value[i] = IF i = 0 THEN 0 ELSE value[i - 1] * Base + s[i]
      BY <2>1 DEF Values
    <3>3. next[i] = IF i = 0 THEN 0 ELSE value[i - 1] * Base + s[i]
      BY <3>1
    <3> QED BY <3>2, <3>3
  <2>4. ASSUME NEW i \in 0..Len(t), i # 0
        PROVE  next[i] = next[i - 1] * Base + t[i]
    <3>0. i - 1 \in 0..Len(s)
      BY <2>2, <2>4
    <3>1. next[i - 1] = value[i - 1]
      <4> HIDE DEF next
      <4> QED BY <2>3, <3>0
    <3>2. CASE i <= Len(s)
      BY <2>2, <2>4, <3>1, <3>2
    <3>3. CASE i = Len(s) + 1
      BY <2>2, <2>4, <3>1, <3>3
    <3> QED BY <2>2, <3>2, <3>3
  <2>5. next[0] = 0
    BY <2>2
  <2>6. Values(t, next)
    <3>1. next = [i \in 0..Len(t) |-> next[i]]
      OBVIOUS
    <3> HIDE DEF next
    <3> QED BY <2>4, <2>5, <3>1 DEF Values
  <2> QED BY <2>2, <2>6 DEF t
<1> HIDE DEF T
<1>3. \A s \in Seq(Nat) : s \in T
  BY <1>1, <1>2, SeqInduct
<1> QED BY <1>3 DEF T

LEMMA NumberIsLastValue ==
    ASSUME NEW s \in Seq(Nat)
    PROVE  \E value : Values(s, value) /\ Number(s) = value[Len(s)]
<1> DEFINE v == CHOOSE value : Values(s, value)
<1>1. Values(s, v)
  BY ValuesExist
<1>2. Number(s) = v[Len(s)]
  BY DEF Number, Values
<1> QED BY <1>1, <1>2

LEMMA NumberOfNone == Number(<<>>) = 0
<1>1. <<>> \in Seq(Nat) /\ Len(<<>>) = 0
  OBVIOUS
<1>2. PICK value : Values(<<>>, value) /\ Number(<<>>) = value[0]
  BY <1>1, NumberIsLastValue
<1> QED BY <1>1, <1>2 DEF Values

LEMMA NumberOfAppend ==
    ASSUME NEW s \in Seq(Nat), NEW e \in Nat
    PROVE  Number(Append(s, e)) = Number(s) * Base + e
<1> DEFINE t == Append(s, e)
<1>1. /\ t \in Seq(Nat) /\ Len(t) = Len(s) + 1 /\ Len(s) \in Nat
      /\ t[Len(s) + 1] = e /\ \A i \in 1..Len(s) : t[i] = s[i]
  OBVIOUS
<1> HIDE DEF t
<1>2. PICK a : Values(s, a) /\ Number(s) = a[Len(s)]
  BY NumberIsLastValue
<1>3. PICK b : Values(t, b) /\ Number(t) = b[Len(t)]
  BY <1>1, NumberIsLastValue
<1> DEFINE T == {n \in Nat : n <= Len(s) => a[n] = b[n]}
<1>4. 0 \in T
  BY <1>1, <1>2, <1>3 DEF Values
<1>5. ASSUME NEW n \in Nat, n \in T PROVE n + 1 \in T
  <2> SUFFICES ASSUME n + 1 <= Len(s) PROVE a[n + 1] = b[n + 1]
    OBVIOUS
  <2>1. a[n] = b[n] /\ n + 1 \in 1..Len(s) /\ (n + 1) - 1 = n
    <3>1. n <= Len(s) /\ n + 1 \in 1..Len(s) /\ (n + 1) - 1 = n
      BY <1>1
    <3>2. n <= Len(s) => a[n] = b[n]
      BY <1>5
    <3> QED BY <3>1, <3>2
  <2>2. a[n + 1] = a[n] * Base + s[n + 1]
    BY <1>1, <1>2, <2>1 DEF Values
  <2>3. b[n + 1] = b[n] * Base + t[n + 1]
    BY <1>1, <1>3, <2>1 DEF Values
  <2> QED BY <1>1, <2>1, <2>2, <2>3
<1>6. \A n \in Nat : n \in T
  <2> HIDE DEF T
  <2> QED BY <1>4, <1>5, NatInduct
<1>7. a[Len(s)] = b[Len(s)]
  BY <1>1, <1>6
<1>8. b[Len(t)] = b[Len(s)] * Base + t[Len(t)]
  <2>1. Len(t) \in 0..Len(t) /\ Len(t) # 0 /\ Len(t) - 1 = Len(s)
    BY <1>1
  <2> QED BY <1>3, <2>1 DEF Values
<1> QED BY <1>1, <1>2, <1>3, <1>7, <1>8 DEF t

LEMMA BaseType == Base \in Nat /\ Base >= 2
BY AmountAssumption

LEMMA NumberType == \A s \in Seq(Nat) : Number(s) \in Nat
<1> DEFINE T == {s \in Seq(Nat) : Number(s) \in Nat}
<1>1. <<>> \in T
  BY NumberOfNone
<1>2. ASSUME NEW s \in Seq(Nat), NEW e \in Nat, s \in T
      PROVE  Append(s, e) \in T
  <2>1. Number(s) \in Nat /\ Number(Append(s, e)) = Number(s) * Base + e
    BY <1>2, NumberOfAppend
  <2>2. Number(s) * Base \in Nat
    BY <2>1, BaseType
  <2> QED BY <2>1, <2>2
<1> HIDE DEF T
<1>3. \A s \in Seq(Nat) : s \in T
  BY <1>1, <1>2, SeqInduct
<1> QED BY <1>3 DEF T

LEMMA PowerOfNone == Power(0) = 1
<1>1. <<1>> \o Zeros(0) = Append(<<>>, 1)
  BY DEF Zeros
<1>2. Number(Append(<<>>, 1)) = Number(<<>>) * Base + 1
  <2>1. <<>> \in Seq(Nat) /\ 1 \in Nat
    OBVIOUS
  <2> QED BY <2>1, NumberOfAppend
<1>3. Number(<<>>) * Base + 1 = 1
  BY NumberOfNone, BaseType
<1> QED BY <1>1, <1>2, <1>3, Zenon DEF Power

LEMMA ZerosType ==
    ASSUME NEW n \in Nat
    PROVE  Zeros(n) \in Seq({0}) /\ Len(Zeros(n)) = n
BY DEF Zeros

LEMMA PowerOfMore ==
    ASSUME NEW n \in Nat
    PROVE  Power(n + 1) = Power(n) * Base
<1> DEFINE s == <<1>> \o Zeros(n)
<1>1. s \in Seq(Nat)
  BY ZerosType, SeqMonotonic, ConcatProperties
<1>2. <<1>> \o Zeros(n + 1) = Append(s, 0)
  BY DEF Zeros
<1>3. Number(Append(s, 0)) = Number(s) * Base + 0
  <2> HIDE DEF s
  <2> QED BY <1>1, NumberOfAppend
<1>4. Number(s) * Base + 0 = Number(s) * Base
  <2> HIDE DEF s
  <2> QED BY <1>1, NumberType, BaseType
<1> QED BY <1>2, <1>3, <1>4, Zenon DEF Power

LEMMA ProductsGrow ==
    ASSUME NEW p \in Nat, NEW a \in Nat, NEW b \in Nat, a <= b
    PROVE  p * a \in Nat /\ p * b \in Nat /\ p * a <= p * b
<1> DEFINE d == b - a
<1>1. d \in Nat /\ b = a + d
  OBVIOUS
<1> HIDE DEF d
<1>2. p * a \in Nat /\ p * d \in Nat /\ p * b = p * a + p * d
  BY <1>1
<1> QED
  BY <1>1, <1>2

LEMMA PowerType == \A n \in Nat : Power(n) \in Nat /\ n < Power(n)
<1> DEFINE T == {n \in Nat : Power(n) \in Nat /\ n < Power(n)}
<1>1. 0 \in T
  BY PowerOfNone
<1>2. ASSUME NEW n \in Nat, n \in T PROVE n + 1 \in T
  <2>1. Power(n) \in Nat /\ n < Power(n)
    BY <1>2
  <2>2. Power(n) * 2 <= Power(n) * Base /\ Power(n) * Base \in Nat
    BY <2>1, BaseType, ProductsGrow
  <2> QED BY <2>1, <2>2, PowerOfMore
<1> HIDE DEF T
<1>3. \A n \in Nat : n \in T
  BY <1>1, <1>2, NatInduct
<1> QED BY <1>3 DEF T

LEMMA PowerGrows ==
    ASSUME NEW a \in Nat
    PROVE  \A n \in Nat : a <= n => Power(a) <= Power(n)
<1> DEFINE T == {n \in Nat : a <= n => Power(a) <= Power(n)}
<1>1. 0 \in T
  BY PowerType
<1>2. ASSUME NEW n \in Nat, n \in T PROVE n + 1 \in T
  <2> SUFFICES ASSUME a <= n + 1, a # n + 1 PROVE Power(a) <= Power(n + 1)
    BY PowerType
  <2>1. Power(a) <= Power(n) /\ Power(a) \in Nat /\ Power(n) \in Nat
    BY <1>2, PowerType
  <2>2. Power(n) * 1 <= Power(n) * Base /\ Power(n) * Base \in Nat
    BY <2>1, BaseType, ProductsGrow
  <2> QED BY <2>1, <2>2, PowerOfMore
<1> HIDE DEF T
<1>3. \A n \in Nat : n \in T
  BY <1>1, <1>2, NatInduct
<1> QED BY <1>3 DEF T

LEMMA AppendAfterConcat ==
    ASSUME NEW S, NEW a \in Seq(S), NEW b \in Seq(S), NEW e \in S
    PROVE  a \o Append(b, e) = Append(a \o b, e)
OBVIOUS

(* A number is that of its first digits, moved to the left, and of the others. *)
LEMMA NumberOfConcat ==
    ASSUME NEW a \in Seq(Nat)
    PROVE  \A b \in Seq(Nat) : Number(a \o b) = Number(a) * Power(Len(b)) + Number(b)
<1> DEFINE T == {b \in Seq(Nat) :
                    Number(a \o b) = Number(a) * Power(Len(b)) + Number(b)}
<1>1. <<>> \in T
  <2>1. a \o <<>> = a /\ <<>> \in Seq(Nat) /\ Len(<<>>) = 0
    OBVIOUS
  <2>2. Number(a) * 1 + 0 = Number(a)
    BY NumberType
  <2> QED BY <2>1, <2>2, NumberOfNone, PowerOfNone
<1>2. ASSUME NEW b \in Seq(Nat), NEW e \in Nat, b \in T
      PROVE  Append(b, e) \in T
  <2> DEFINE x == Number(a)
             p == Power(Len(b))
             y == Number(b)
  <2>1. a \o b \in Seq(Nat) /\ Append(b, e) \in Seq(Nat)
        /\ Len(Append(b, e)) = Len(b) + 1 /\ Len(b) \in Nat
    OBVIOUS
  <2>2. Number(a \o b) = x * p + y
    BY <1>2
  <2>3. Number(a \o Append(b, e)) = Number(a \o b) * Base + e
    <3>1. a \o Append(b, e) = Append(a \o b, e)
      BY AppendAfterConcat
    <3>2. Number(Append(a \o b, e)) = Number(a \o b) * Base + e
      BY <2>1, NumberOfAppend
    <3> QED BY <3>1, <3>2, Zenon
  <2>4. Power(Len(Append(b, e))) = p * Base /\ Number(Append(b, e)) = y * Base + e
    BY <2>1, PowerOfMore, NumberOfAppend
  <2>5. x \in Nat /\ p \in Nat /\ y \in Nat
    BY <2>1, NumberType, PowerType
  <2> HIDE DEF x, p, y
  <2>6. (x * p + y) * Base + e = x * (p * Base) + (y * Base + e)
    BY <2>5, BaseType
  <2>7. Number(a \o Append(b, e))
            = x * Power(Len(Append(b, e))) + Number(Append(b, e))
    BY <2>2, <2>3, <2>4, <2>6
  <2> QED BY <2>1, <2>7 DEF x
<1> HIDE DEF T
<1>3. \A b \in Seq(Nat) : b \in T
  BY <1>1, <1>2, SeqInduct
<1> QED BY <1>3 DEF T

LEMMA DigitType == Digit \subseteq Nat /\ Comma \in Nat /\ Dot \in Nat
                   /\ Comma \notin Digit /\ Dot \notin Digit /\ Comma # Dot
                   /\ 0 \in Digit
BY BaseType DEF Digit, Comma, Dot

LEMMA DigitsAreNumbers ==
    ASSUME NEW s \in Seq(Digit)
    PROVE  /\ s \in Seq(Nat) /\ Len(s) \in Nat
           /\ \A i \in 1..Len(s) : s[i] \in Digit /\ s[i] \in Nat /\ s[i] < Base
<1>1. s \in Seq(Nat)
  BY DigitType, SeqMonotonic
<1>2. \A i \in 1..Len(s) : s[i] \in Digit
  OBVIOUS
<1>3. \A d \in Digit : d \in Nat /\ d < Base
  BY BaseType DEF Digit
<1> QED BY <1>1, <1>2, <1>3, LenProperties

LEMMA NumberIsBelow == \A s \in Seq(Digit) : Number(s) < Power(Len(s))
<1> DEFINE T == {s \in Seq(Digit) : Number(s) < Power(Len(s))}
<1>1. <<>> \in T
  BY NumberOfNone, PowerOfNone
<1>2. ASSUME NEW s \in Seq(Digit), NEW e \in Digit, s \in T
      PROVE  Append(s, e) \in T
  <2>1. /\ s \in Seq(Nat) /\ e \in Nat /\ Len(s) \in Nat
        /\ Append(s, e) \in Seq(Digit) /\ Len(Append(s, e)) = Len(s) + 1
    <3>1. s \in Seq(Nat) /\ e \in Nat
      BY DigitType, SeqMonotonic
    <3>2. Append(s, e) \in Seq(Digit) /\ Len(Append(s, e)) = Len(s) + 1
      OBVIOUS
    <3> QED BY <3>1, <3>2
  <2>2. Number(s) \in Nat /\ Power(Len(s)) \in Nat /\ Number(s) + 1 <= Power(Len(s))
    BY <1>2, <2>1, NumberType, PowerType
  <2>3. Base * (Number(s) + 1) <= Base * Power(Len(s))
    BY <2>2, BaseType, ProductsGrow
  <2>4. Base * (Number(s) + 1) = Number(s) * Base + Base
        /\ Base * Power(Len(s)) = Power(Len(s)) * Base
        /\ Number(s) * Base \in Nat /\ Power(Len(s)) * Base \in Nat
    BY <2>2, BaseType
  <2>5. e < Base
    BY BaseType DEF Digit
  <2>6. Number(Append(s, e)) < Power(Len(s) + 1)
    <3>1. Number(Append(s, e)) = Number(s) * Base + e
      BY <2>1, NumberOfAppend
    <3>2. Power(Len(s) + 1) = Power(Len(s)) * Base
      BY <2>1, PowerOfMore
    <3> DEFINE x == Number(s) * Base
               y == Power(Len(s)) * Base
    <3>3. x \in Nat /\ y \in Nat /\ x + Base <= y
      BY <2>3, <2>4
    <3> HIDE DEF x, y
    <3>4. x + e < y
      BY <2>1, <2>5, <3>3, BaseType
    <3> QED BY <3>1, <3>2, <3>4 DEF x, y
  <2> QED BY <2>1, <2>6
<1> HIDE DEF T
<1>3. \A s \in Seq(Digit) : s \in T
  BY <1>1, <1>2, SeqInduct
<1> QED BY <1>3 DEF T

LEMMA NumberOfZeros == \A s \in Seq({0}) : Number(s) = 0
<1> DEFINE T == {s \in Seq({0}) : Number(s) = 0}
<1>1. <<>> \in T
  BY NumberOfNone
<1>2. ASSUME NEW s \in Seq({0}), NEW e \in {0}, s \in T
      PROVE  Append(s, e) \in T
  <2>1. s \in Seq(Nat) /\ e = 0 /\ Number(s) = 0
    BY <1>2, SeqMonotonic
  <2>2. Number(Append(s, e)) = 0 * Base + 0
    BY <2>1, NumberOfAppend
  <2> QED BY <2>2, BaseType
<1> HIDE DEF T
<1>3. \A s \in Seq({0}) : s \in T
  BY <1>1, <1>2, SeqInduct
<1> QED BY <1>3 DEF T

LEMMA OnlyZeros ==
    ASSUME NEW S, NEW s \in Seq(S), \A i \in 1..Len(s) : s[i] = 0
    PROVE  s \in Seq({0})
<1>1. Len(s) \in Nat /\ s = [i \in 1..Len(s) |-> s[i]]
  BY LenProperties
<1>2. s \in [1..Len(s) -> {0}]
  BY <1>1
<1> QED BY <1>1, <1>2, SeqDef

(* Division with remainder, by what it says.                                  *)
LEMMA Quotient ==
    ASSUME NEW p \in Nat, NEW q \in Nat, NEW r \in Nat, r < p
    PROVE  (q * p + r) \div p = q /\ (q * p + r) % p = r
OBVIOUS

(* A sequence is what comes up to a place and what comes after it.            *)
LEMMA Cut ==
    ASSUME NEW S, NEW s \in Seq(S), NEW i \in 0..Len(s)
    PROVE  /\ SubSeq(s, 1, i) \in Seq(S) /\ Len(SubSeq(s, 1, i)) = i
           /\ \A j \in 1..i : SubSeq(s, 1, i)[j] = s[j]
           /\ SubSeq(s, i + 1, Len(s)) \in Seq(S)
           /\ Len(SubSeq(s, i + 1, Len(s))) = Len(s) - i
           /\ \A j \in 1..(Len(s) - i) : SubSeq(s, i + 1, Len(s))[j] = s[i + j]
           /\ s = SubSeq(s, 1, i) \o SubSeq(s, i + 1, Len(s))
<1>1. Len(s) \in Nat /\ i \in Nat /\ i <= Len(s) /\ \A j \in 1..Len(s) : s[j] \in S
  OBVIOUS
<1>2. /\ SubSeq(s, 1, i) \in Seq(S) /\ Len(SubSeq(s, 1, i)) = i
      /\ \A j \in 1..i : SubSeq(s, 1, i)[j] = s[j]
  BY <1>1, SubSeqProperties
<1>3. /\ SubSeq(s, i + 1, Len(s)) \in Seq(S)
      /\ Len(SubSeq(s, i + 1, Len(s))) = Len(s) - i
      /\ \A j \in 1..(Len(s) - i) : SubSeq(s, i + 1, Len(s))[j] = s[i + j]
  <2>1. i + 1 \in Int /\ Len(s) \in Int /\ \A j \in (i + 1)..Len(s) : s[j] \in S
    BY <1>1
  <2>2. /\ SubSeq(s, i + 1, Len(s)) \in Seq(S)
        /\ Len(SubSeq(s, i + 1, Len(s))) =
              IF i + 1 <= Len(s) THEN Len(s) - (i + 1) + 1 ELSE 0
        /\ \A j \in 1..(Len(s) - (i + 1) + 1) :
              SubSeq(s, i + 1, Len(s))[j] = s[(i + 1) + j - 1]
    BY <2>1, SubSeqProperties
  <2> QED BY <1>1, <2>2
<1>4. SubSeq(s, 1, i) \o SubSeq(s, i + 1, Len(s)) = SubSeq(s, 1, Len(s))
  <2>1. 1 \in 1..(Len(s) + 1) /\ i \in (1 - 1)..Len(s) /\ Len(s) \in i..Len(s)
    BY <1>1
  <2> QED BY <2>1, ConcatAdjacentSubSeq
<1>5. SubSeq(s, 1, Len(s)) = s
  BY SubSeqFull
<1> QED BY <1>2, <1>3, <1>4, <1>5

LEMMA NumberOfCut ==
    ASSUME NEW s \in Seq(Digit), NEW i \in 0..Len(s)
    PROVE  /\ Number(s) = Number(SubSeq(s, 1, i)) * Power(Len(s) - i)
                          + Number(SubSeq(s, i + 1, Len(s)))
           /\ Number(SubSeq(s, i + 1, Len(s))) \in Nat
           /\ Number(SubSeq(s, i + 1, Len(s))) < Power(Len(s) - i)
           /\ Number(s) \div Power(Len(s) - i) = Number(SubSeq(s, 1, i))
           /\ Number(SubSeq(s, 1, i)) \in Nat
<1> DEFINE a == SubSeq(s, 1, i)
           b == SubSeq(s, i + 1, Len(s))
<1>1. a \in Seq(Digit) /\ b \in Seq(Digit) /\ Len(b) = Len(s) - i /\ s = a \o b
  BY Cut
<1> HIDE DEF a, b
<1>2. a \in Seq(Nat) /\ b \in Seq(Nat) /\ Len(b) \in Nat
  BY <1>1, DigitsAreNumbers
<1>3. Number(s) = Number(a) * Power(Len(b)) + Number(b)
  BY <1>1, <1>2, NumberOfConcat
<1>4. Number(a) \in Nat /\ Number(b) \in Nat /\ Power(Len(b)) \in Nat
  BY <1>2, NumberType, PowerType
<1>5. Number(b) < Power(Len(b))
  BY <1>1, NumberIsBelow
<1>6. (Number(a) * Power(Len(b)) + Number(b)) \div Power(Len(b)) = Number(a)
  BY <1>4, <1>5, Quotient
<1> QED BY <1>1, <1>3, <1>4, <1>5, <1>6 DEF a, b

LEMMA PlacesOfNumber ==
    ASSUME NEW s \in Seq(Digit)
    PROVE  Places(Number(s), Len(s)) = s
<1> DEFINE n == Number(s)
<1>1. ASSUME NEW i \in 1..Len(s)
      PROVE  (n \div Power(Len(s) - i)) % Base = s[i]
  <2> DEFINE a == SubSeq(s, 1, i - 1)
  <2>1. /\ Len(s) \in Nat /\ i \in 0..Len(s) /\ i - 1 \in 0..Len(s)
        /\ s[i] \in Digit
    BY <1>1
  <2>2. n \div Power(Len(s) - i) = Number(SubSeq(s, 1, i))
    BY <2>1, NumberOfCut
  <2>3. SubSeq(s, 1, i) = Append(a, s[i]) /\ a \in Seq(Digit)
    <3>1. SubSeq(s, 1, i) = a \o <<s[i]>>
      <4>1. 1 \in 1..Len(s) /\ i \in 1..Len(s)
        BY <1>1
      <4> QED BY <4>1, SubSeqRecursiveSecond
    <3>2. a \in Seq(Digit)
      BY <2>1, Cut
    <3> HIDE DEF a
    <3>3. a \o <<s[i]>> = Append(a, s[i])
      BY <2>1, <3>2, AppendIsConcat
    <3> QED BY <3>1, <3>2, <3>3
  <2> HIDE DEF a, n
  <2>4. Number(Append(a, s[i])) = Number(a) * Base + s[i]
        /\ Number(a) \in Nat /\ s[i] \in Nat /\ s[i] < Base
    <3>1. a \in Seq(Nat) /\ s[i] \in Nat
      BY <2>1, <2>3, DigitType, SeqMonotonic
    <3>2. s[i] < Base
      BY <2>1, BaseType DEF Digit
    <3> QED BY <3>1, <3>2, NumberOfAppend, NumberType
  <2>5. (Number(a) * Base + s[i]) % Base = s[i]
    BY <2>4, BaseType, Quotient
  <2> QED BY <2>2, <2>3, <2>4, <2>5
<1>2. Places(n, Len(s)) = [i \in 1..Len(s) |-> s[i]]
  <2> HIDE DEF n
  <2> QED BY <1>1 DEF Places
<1>3. s = [i \in 1..Len(s) |-> s[i]]
  OBVIOUS
<1> QED BY <1>2, <1>3

LEMMA SpelledOut ==
    \A w \in Nat : \A n \in Nat :
        n < Power(w) => \E s \in Seq(Digit) : Len(s) = w /\ Number(s) = n
<1> DEFINE T == {w \in Nat : \A n \in Nat :
                    n < Power(w) => \E s \in Seq(Digit) : Len(s) = w /\ Number(s) = n}
<1>1. 0 \in T
  <2>1. <<>> \in Seq(Digit) /\ Len(<<>>) = 0
    OBVIOUS
  <2>2. \A n \in Nat : n < Power(0) => n = 0
    BY PowerOfNone
  <2> QED BY <2>1, <2>2, NumberOfNone
<1>2. ASSUME NEW w \in Nat, w \in T PROVE w + 1 \in T
  <2> SUFFICES ASSUME NEW n \in Nat, n < Power(w + 1)
               PROVE  \E s \in Seq(Digit) : Len(s) = w + 1 /\ Number(s) = n
    OBVIOUS
  <2> DEFINE q == n \div Base
             r == n % Base
  <2>1. q \in Nat /\ r \in Nat /\ r < Base /\ n = q * Base + r
    BY BaseType
  <2>2. q < Power(w)
    <3>1. Power(w) \in Nat /\ Power(w + 1) = Power(w) * Base
      BY PowerType, PowerOfMore
    <3> HIDE DEF q, r
    <3> SUFFICES ASSUME Power(w) <= q PROVE FALSE
      BY <2>1, <3>1
    <3>2. Base * Power(w) <= Base * q
      BY <2>1, <3>1, BaseType, ProductsGrow
    <3>3. Base * Power(w) = Power(w) * Base /\ Base * q = q * Base
          /\ Power(w) * Base \in Nat /\ q * Base \in Nat
      BY <2>1, <3>1, BaseType
    <3> QED BY <2>1, <3>1, <3>2, <3>3
  <2> HIDE DEF q, r
  <2>3. PICK s \in Seq(Digit) : Len(s) = w /\ Number(s) = q
    BY <1>2, <2>1, <2>2
  <2>4. r \in Digit
    BY <2>1, BaseType DEF Digit
  <2>5. Append(s, r) \in Seq(Digit) /\ Len(Append(s, r)) = w + 1
    BY <2>3, <2>4, AppendProperties
  <2>6. Number(Append(s, r)) = q * Base + r
    <3>1. s \in Seq(Nat)
      BY DigitType, SeqMonotonic
    <3> QED BY <2>1, <2>3, <3>1, NumberOfAppend
  <2> QED BY <2>1, <2>5, <2>6
<1> HIDE DEF T
<1>3. \A w \in Nat : w \in T
  BY <1>1, <1>2, NatInduct
<1> QED BY <1>3 DEF T

(* Places is the one spelling with that many digits.                          *)
LEMMA PlacesSpell ==
    ASSUME NEW w \in Nat, NEW n \in Nat, n < Power(w)
    PROVE  /\ Places(n, w) \in Seq(Digit) /\ Len(Places(n, w)) = w
           /\ Number(Places(n, w)) = n
<1>1. PICK s \in Seq(Digit) : Len(s) = w /\ Number(s) = n
  BY SpelledOut
<1>2. Places(n, w) = s
  BY <1>1, PlacesOfNumber
<1> QED BY <1>1, <1>2

WideAs(n, w) == n < Power(w) /\ \A v \in 1..(w - 1) : n >= Power(v)

LEMMA WidthExists ==
    ASSUME NEW n \in Nat
    PROVE  \E w \in 1..(n + 1) : WideAs(n, w)
<1> DEFINE W == {w \in Nat : w > 0 /\ n < Power(w)}
<1>1. n + 1 \in W
  BY PowerType
<1>2. PICK w \in W : \A v \in W : w <= v
  <2>1. W \subseteq Nat /\ W # {}
    BY <1>1
  <2> HIDE DEF W
  <2> QED BY <2>1, LeastNat
<1>3. w \in 1..(n + 1)
  BY <1>1, <1>2
<1>4. \A v \in 1..(w - 1) : n >= Power(v)
  <2> SUFFICES ASSUME NEW v \in 1..(w - 1), ~(n >= Power(v)) PROVE FALSE
    OBVIOUS
  <2>1. v \in Nat /\ v > 0 /\ v < w /\ Power(v) \in Nat
    BY <1>3, PowerType
  <2>2. v \in W
    BY <2>1
  <2> QED BY <1>2, <1>3, <2>1, <2>2
<1> QED BY <1>2, <1>3, <1>4 DEF WideAs

LEMMA WidthIsOne ==
    ASSUME NEW n \in Nat, NEW w \in Nat \ {0}, NEW u \in Nat \ {0},
           WideAs(n, w), WideAs(n, u)
    PROVE  w = u
<1>1. Power(w) \in Nat /\ Power(u) \in Nat
  BY PowerType
<1>2. ~(w < u)
  BY <1>1 DEF WideAs
<1>3. ~(u < w)
  BY <1>1 DEF WideAs
<1> QED BY <1>2, <1>3

LEMMA DigitsSpell ==
    ASSUME NEW n \in Nat
    PROVE  /\ Digits(n) \in Seq(Digit) /\ Len(Digits(n)) \in Nat \ {0}
           /\ Number(Digits(n)) = n
<1> DEFINE w == CHOOSE w \in 1..(n + 1) : WideAs(n, w)
<1>1. w \in 1..(n + 1) /\ WideAs(n, w)
  BY WidthExists
<1>2. Digits(n) = Places(n, w)
  BY DEF Digits, WideAs
<1> HIDE DEF w
<1>3. w \in Nat \ {0} /\ n < Power(w)
  BY <1>1 DEF WideAs
<1> QED BY <1>2, <1>3, PlacesSpell

LEMMA DigitsOfNumber ==
    ASSUME NEW s \in Seq(Digit), Len(s) > 0, s[1] # 0 \/ Len(s) = 1
    PROVE  Digits(Number(s)) = s
<1> DEFINE n == Number(s)
           u == CHOOSE w \in 1..(n + 1) : WideAs(n, w)
<1>1. n \in Nat /\ Len(s) \in Nat /\ Len(s) >= 1
  BY DigitsAreNumbers, NumberType
<1>2. u \in 1..(n + 1) /\ WideAs(n, u)
  <2> HIDE DEF n
  <2> QED BY <1>1, WidthExists
<1>3. WideAs(n, Len(s))
  <2>1. n < Power(Len(s))
    BY NumberIsBelow
  <2>2. ASSUME NEW v \in 1..(Len(s) - 1) PROVE n >= Power(v)
    <3> DEFINE a == SubSeq(s, 1, 1)
               b == SubSeq(s, 2, Len(s))
               p == Power(Len(s) - 1)
    <3>1. s[1] # 0 /\ s[1] \in Nat /\ 1 \in 0..Len(s) /\ 1 + 1 = 2
      <4> HIDE DEF n
      <4>1. Len(s) # 1 /\ 1 \in 1..Len(s)
        <5>1. Len(s) - 1 \in Nat /\ Len(s) - 1 >= 1
          BY <1>1, <2>2
        <5> DEFINE l == Len(s)
        <5>2. l \in Nat /\ l - 1 >= 1
          BY <1>1, <5>1
        <5> HIDE DEF l
        <5>3. l # 1 /\ 1 \in 1..l
          BY <5>2
        <5> QED BY <5>3 DEF l
      <4> QED BY <4>1, DigitsAreNumbers
    <3>2. n = Number(a) * p + Number(b) /\ Number(a) \in Nat /\ Number(b) \in Nat
      BY <3>1, NumberOfCut
    <3>3. Number(a) = s[1]
      <4>1. a = <<s[1]>>
        <5>1. a \in Seq(Digit) /\ Len(a) = 1 /\ a[1] = s[1]
          BY <3>1, Cut
        <5> HIDE DEF a
        <5> QED BY <5>1
      <4>2. <<s[1]>> = Append(<<>>, s[1])
        OBVIOUS
      <4>3. s[1] \in Nat /\ <<>> \in Seq(Nat)
        BY <3>1
      <4>4. Number(Append(<<>>, s[1])) = Number(<<>>) * Base + s[1]
        BY <4>3, NumberOfAppend
      <4>5. Number(<<>>) * Base + s[1] = s[1]
        BY <4>3, NumberOfNone, BaseType
      <4> QED BY <4>1, <4>2, <4>4, <4>5, Zenon
    <3>4. p \in Nat /\ Power(v) <= p /\ Power(v) \in Nat
      <4>1. v \in Nat /\ Len(s) - 1 \in Nat /\ v <= Len(s) - 1
        BY <1>1
      <4> QED BY <4>1, PowerGrows, PowerType
    <3>5. Number(a) \in Nat /\ Number(a) >= 1
      <4> HIDE DEF a
      <4> QED BY <3>1, <3>3
    <3> HIDE DEF a, b, p, n
    <3>6. p * 1 <= p * Number(a) /\ p * Number(a) = Number(a) * p
          /\ p * Number(a) \in Nat
      BY <3>4, <3>5, ProductsGrow
    <3> QED BY <3>2, <3>4, <3>6
  <2> HIDE DEF n
  <2> QED BY <2>1, <2>2 DEF WideAs
<1>4. u = Len(s)
  <2> HIDE DEF n, u
  <2> QED BY <1>1, <1>2, <1>3, WidthIsOne
<1>5. Digits(n) = Places(n, u)
  BY DEF Digits, WideAs
<1> QED BY <1>4, <1>5, PlacesOfNumber

------------------------------------------------------------------------------
(* Trimming and padding.                                                      *)
LastAt(s, n) ==
    /\ n \in 0..Len(s)
    /\ n > 0 => s[n] # 0
    /\ \A i \in (n + 1)..Len(s) : s[i] = 0

LEMMA LastExists ==
    ASSUME NEW s \in Seq(Nat)
    PROVE  \E n : LastAt(s, n)
<1> DEFINE N == {n \in Nat : n <= Len(s) /\ \A i \in (n + 1)..Len(s) : s[i] = 0}
<1>1. Len(s) \in Nat
  BY LenProperties
<1>2. Len(s) \in N
  BY <1>1
<1>3. PICK n \in N : \A m \in N : n <= m
  <2>1. N \subseteq Nat /\ N # {}
    BY <1>2
  <2> HIDE DEF N
  <2> QED BY <2>1, LeastNat
<1>4. n \in 0..Len(s) /\ \A i \in (n + 1)..Len(s) : s[i] = 0
  BY <1>1, <1>3
<1>5. ASSUME n > 0, s[n] = 0 PROVE FALSE
  <2>1. n - 1 \in Nat /\ n - 1 <= Len(s)
    BY <1>1, <1>4, <1>5
  <2>2. \A i \in ((n - 1) + 1)..Len(s) : s[i] = 0
    <3> SUFFICES ASSUME NEW i \in ((n - 1) + 1)..Len(s) PROVE s[i] = 0
      OBVIOUS
    <3>1. i = n \/ i \in (n + 1)..Len(s)
      BY <1>1, <1>4
    <3> QED BY <1>4, <1>5, <3>1
  <2>3. n - 1 \in N
    BY <2>1, <2>2
  <2>4. n <= n - 1
    <3> HIDE DEF N
    <3> QED BY <1>3, <2>3
  <2> QED BY <1>4, <2>4
<1> QED BY <1>4, <1>5 DEF LastAt

LEMMA LastIsOne ==
    ASSUME NEW s \in Seq(Nat), NEW n, NEW m, LastAt(s, n), LastAt(s, m)
    PROVE  n = m
<1>1. Len(s) \in Nat /\ n \in Nat /\ m \in Nat /\ n <= Len(s) /\ m <= Len(s)
  BY LenProperties DEF LastAt
<1>2. ~(n < m)
  BY <1>1 DEF LastAt
<1>3. ~(m < n)
  BY <1>1 DEF LastAt
<1> QED BY <1>1, <1>2, <1>3

LEMMA Trimmed ==
    ASSUME NEW s \in Seq(Nat)
    PROVE  /\ \E n : LastAt(s, n) /\ TrimZeros(s) = SubSeq(s, 1, n)
           /\ \A n : LastAt(s, n) => TrimZeros(s) = SubSeq(s, 1, n)
<1> DEFINE m == CHOOSE n \in 0..Len(s) :
                    (n > 0 => s[n] # 0) /\ \A i \in (n + 1)..Len(s) : s[i] = 0
<1>1. LastAt(s, m)
  BY LastExists DEF LastAt
<1>2. TrimZeros(s) = SubSeq(s, 1, m)
  BY DEF TrimZeros
<1> HIDE DEF m
<1>3. \A n : LastAt(s, n) => n = m
  BY <1>1, LastIsOne
<1> QED BY <1>1, <1>2, <1>3

LEMMA TrimType ==
    ASSUME NEW S, S \subseteq Nat, NEW s \in Seq(S)
    PROVE  /\ TrimZeros(s) \in Seq(S) /\ Len(TrimZeros(s)) \in Nat
           /\ Len(TrimZeros(s)) <= Len(s)
           /\ s = TrimZeros(s) \o Zeros(Len(s) - Len(TrimZeros(s)))
<1>1. s \in Seq(Nat)
  BY SeqMonotonic
<1>2. PICK n : LastAt(s, n) /\ TrimZeros(s) = SubSeq(s, 1, n)
  BY <1>1, Trimmed
<1>3. n \in 0..Len(s) /\ Len(s) \in Nat /\ \A i \in (n + 1)..Len(s) : s[i] = 0
  BY <1>2, LenProperties DEF LastAt
<1> DEFINE a == SubSeq(s, 1, n)
           b == SubSeq(s, n + 1, Len(s))
<1>4. /\ SubSeq(s, 1, n) \in Seq(S) /\ Len(SubSeq(s, 1, n)) = n
      /\ b \in Seq(S) /\ Len(b) = Len(s) - n
      /\ \A j \in 1..(Len(s) - n) : b[j] = s[n + j]
      /\ s = SubSeq(s, 1, n) \o b
  BY ZenonT(60), <1>3, Cut
<1>5. b = Zeros(Len(s) - n)
  <2> HIDE DEF b
  <2>1. \A j \in 1..(Len(s) - n) : b[j] = 0
    BY <1>3, <1>4
  <2>2. b = [j \in 1..(Len(s) - n) |-> b[j]]
    BY <1>4, LenProperties
  <2> QED BY <2>1, <2>2 DEF Zeros
<1>6. /\ TrimZeros(s) = a /\ a \in Seq(S) /\ Len(a) = n /\ n <= Len(s)
      /\ n \in Nat /\ s = a \o Zeros(Len(s) - n)
  <2>1. /\ TrimZeros(s) = a /\ a \in Seq(S) /\ Len(a) = n /\ s = a \o b
    BY <1>2, <1>4
  <2> HIDE DEF a, b
  <2>2. n \in Nat /\ n <= Len(s)
    BY <1>3
  <2> QED BY <1>5, <2>1, <2>2
<1> HIDE DEF a
<1> QED BY <1>6

LEMMA TrimOfPadded ==
    ASSUME NEW s \in Seq(Nat), NEW k \in Nat
    PROVE  TrimZeros(s \o Zeros(k)) = TrimZeros(s)
<1> DEFINE t == s \o Zeros(k)
<1>1. /\ Zeros(k) \in Seq(Nat) /\ Len(Zeros(k)) = k
      /\ \A i \in 1..k : Zeros(k)[i] = 0
  BY ZerosType, SeqMonotonic DEF Zeros
<1>2. /\ t \in Seq(Nat) /\ Len(t) = Len(s) + k /\ Len(s) \in Nat
      /\ \A i \in 1..(Len(s) + k) :
            t[i] = IF i <= Len(s) THEN s[i] ELSE Zeros(k)[i - Len(s)]
  BY <1>1, ConcatProperties, LenProperties
<1> HIDE DEF t
<1>3. PICK n : LastAt(s, n) /\ TrimZeros(s) = SubSeq(s, 1, n)
  BY Trimmed
<1>4. n \in Nat /\ n <= Len(s) /\ (n > 0 => s[n] # 0)
      /\ \A i \in (n + 1)..Len(s) : s[i] = 0
  BY <1>2, <1>3 DEF LastAt
<1>5. LastAt(t, n)
  <2>1. n > 0 => t[n] # 0
    BY <1>2, <1>4
  <2>2. ASSUME NEW i \in (n + 1)..Len(t) PROVE t[i] = 0
    <3>1. i \in 1..(Len(s) + k)
      BY <1>2, <1>4
    <3>2. CASE i <= Len(s)
      BY SMTT(30), <1>2, <1>4, <3>1, <3>2
    <3>3. CASE i > Len(s)
      <4>1. i - Len(s) \in 1..k
        BY <1>2, <3>1, <3>3
      <4> QED BY <1>1, <1>2, <3>1, <3>3, <4>1
    <3> QED BY <1>2, <3>1, <3>2, <3>3
  <2> QED BY <1>2, <1>4, <2>1, <2>2 DEF LastAt
<1>6. TrimZeros(t) = SubSeq(t, 1, n)
  BY <1>2, <1>5, Trimmed
<1>7. SubSeq(t, 1, n) = SubSeq(s, 1, n)
  <2>1. \A i \in 1..n : t[i] = s[i]
    BY SMTT(30), <1>2, <1>4
  <2>2. n \in 0..Len(t) /\ n \in 0..Len(s)
    BY <1>2, <1>4
  <2>3. /\ SubSeq(t, 1, n) \in Seq(Nat) /\ Len(SubSeq(t, 1, n)) = n
        /\ \A j \in 1..n : SubSeq(t, 1, n)[j] = t[j]
    BY <1>2, <2>2, Cut
  <2>4. /\ SubSeq(s, 1, n) \in Seq(Nat) /\ Len(SubSeq(s, 1, n)) = n
        /\ \A j \in 1..n : SubSeq(s, 1, n)[j] = s[j]
    BY <2>2, Cut
  <2> QED BY <2>1, <2>3, <2>4, SeqEqual
<1> QED BY <1>3, <1>6, <1>7 DEF t

LEMMA ZerosAdd ==
    ASSUME NEW a \in Nat, NEW b \in Nat
    PROVE  Zeros(a) \o Zeros(b) = Zeros(a + b)
<1>1. /\ Zeros(a) \in Seq({0}) /\ Len(Zeros(a)) = a
      /\ Zeros(b) \in Seq({0}) /\ Len(Zeros(b)) = b
      /\ Zeros(a + b) \in Seq({0}) /\ Len(Zeros(a + b)) = a + b
  BY ZerosType
<1>2. Zeros(a) \o Zeros(b) \in Seq({0}) /\ Len(Zeros(a) \o Zeros(b)) = a + b
  BY <1>1, ConcatProperties
<1>3. \A z \in Seq({0}) : \A i \in 1..Len(z) : z[i] = 0
  OBVIOUS
<1> QED BY <1>1, <1>2, <1>3, SeqEqual

(* What was trimmed is padded again, whatever has been padded before.         *)
LEMMA PadRestores ==
    ASSUME NEW s \in Seq(Digit), NEW k \in 0..Len(s)
    PROVE  /\ PadEnd(TrimZeros(s), Len(s)) = s
           /\ PadEnd(PadEnd(TrimZeros(s), k), Len(s)) = s
           /\ PadEnd(TrimZeros(s), k) \in Seq(Digit)
           /\ Len(PadEnd(TrimZeros(s), k)) \in k..Len(s)
<1> DEFINE t == TrimZeros(s)
           l == Len(s)
<1>1. /\ t \in Seq(Digit) /\ Len(t) \in Nat /\ Len(t) <= l /\ l \in Nat
      /\ s = t \o Zeros(l - Len(t))
  BY DigitType, TrimType, LenProperties
<1>2. l \in Nat /\ k \in Nat /\ k <= l
  BY <1>1
<1> HIDE DEF t, l
<1>3. t \o Zeros(0) = t
  <2>1. Zeros(0) = <<>>
    BY DEF Zeros
  <2> QED BY <1>1, <2>1, ConcatEmptySeq
<1>4. PadEnd(t, l) = s
  <2>1. CASE Len(t) < l
    BY <1>1, <2>1 DEF PadEnd
  <2>2. CASE Len(t) = l
    <3>1. l - Len(t) = 0
      BY <1>1, <2>2
    <3> QED BY <1>1, <1>3, <2>2, <3>1 DEF PadEnd
  <2> QED BY <1>1, <2>1, <2>2
<1>5. /\ PadEnd(PadEnd(t, k), l) = s
      /\ PadEnd(t, k) \in Seq(Digit) /\ Len(PadEnd(t, k)) \in k..l
  <2>1. CASE ~(Len(t) < k)
    BY <1>1, <1>2, <1>4, <2>1 DEF PadEnd
  <2>2. CASE Len(t) < k
    <3> DEFINE z == Zeros(k - Len(t))
    <3>1. k - Len(t) \in Nat
      BY <1>1, <1>2, <2>2
    <3>2. z \in Seq(Digit) /\ Len(z) = k - Len(t)
      BY ZenonT(60), <3>1, ZerosType, DigitType, SeqMonotonic
    <3>3. PadEnd(t, k) = t \o z
      BY <2>2 DEF PadEnd
    <3> HIDE DEF z
    <3>4. t \o z \in Seq(Digit) /\ Len(t \o z) = k
      BY <1>1, <1>2, <3>2, ConcatProperties
    <3>5. CASE k = l
      <4>1. PadEnd(t \o z, l) = t \o z
        BY <1>2, <3>4, <3>5 DEF PadEnd
      <4>2. PadEnd(t, l) = t \o z
        BY <3>3, <3>5
      <4> QED BY <1>2, <1>4, <3>3, <3>4, <3>5, <4>1, <4>2
    <3>6. CASE k < l
      <4> DEFINE y == Zeros(l - k)
      <4>1. l - k \in Nat /\ (k - Len(t)) + (l - k) = l - Len(t)
        BY <1>1, <1>2
      <4>2. y \in Seq(Digit) /\ z \o y = Zeros(l - Len(t))
        <5>1. z \o y = Zeros((k - Len(t)) + (l - k))
          BY <3>1, <4>1, ZerosAdd DEF z
        <5> QED BY <4>1, <5>1, ZerosType, DigitType, SeqMonotonic
      <4>3. PadEnd(t \o z, l) = (t \o z) \o y
        BY <3>4, <3>6 DEF PadEnd
      <4> HIDE DEF y
      <4>4. (t \o z) \o y = t \o (z \o y)
        <5>1. t \in Seq(Digit) /\ z \in Seq(Digit) /\ y \in Seq(Digit)
          BY <1>1, <3>2, <4>2
        <5> QED BY SMTT(30), <5>1, ConcatAssociative
      <4> QED BY <1>1, <1>2, <3>3, <3>4, <4>2, <4>3, <4>4
    <3> QED BY <1>2, <3>5, <3>6
  <2> QED BY <2>1, <2>2
<1> QED BY <1>4, <1>5 DEF t, l

------------------------------------------------------------------------------
(* What is left of a text without its commas.                                 *)
Keeps(s, kept) ==
    kept = [i \in 0..Len(s) |->
                IF i = 0 THEN <<>>
                ELSE IF s[i] = Comma THEN kept[i - 1] ELSE Append(kept[i - 1], s[i])]

LEMMA KeepsExist == \A s \in Seq(Nat) : \E kept : Keeps(s, kept)
<1> DEFINE T == {s \in Seq(Nat) : \E kept : Keeps(s, kept)}
           With(r, c) == IF c = Comma THEN r ELSE Append(r, c)
<1>1. <<>> \in T
  <2>1. Keeps(<<>>, [i \in 0..0 |-> <<>>])
    BY DEF Keeps
  <2> QED BY <2>1
<1>2. ASSUME NEW s \in Seq(Nat), NEW e \in Nat, s \in T
      PROVE  Append(s, e) \in T
  <2>1. PICK kept : Keeps(s, kept)
    BY <1>2
  <2> DEFINE t == Append(s, e)
  <2>2. /\ t \in Seq(Nat) /\ Len(t) = Len(s) + 1 /\ Len(s) \in Nat
        /\ t[Len(s) + 1] = e /\ \A i \in 1..Len(s) : t[i] = s[i]
    OBVIOUS
  <2> HIDE DEF t, With
  <2> DEFINE next == [i \in 0..Len(t) |->
                        IF i = 0 THEN <<>>
                        ELSE IF i <= Len(s) THEN With(kept[i - 1], s[i])
                        ELSE With(kept[Len(s)], e)]
  <2>3. ASSUME NEW i \in 0..Len(s) PROVE next[i] = kept[i]
    <3>1. i \in 0..Len(t) /\ i <= Len(s) /\ i \in Nat
      BY <2>2
    <3>2. kept[i] = IF i = 0 THEN <<>> ELSE With(kept[i - 1], s[i])
      BY <2>1 DEF Keeps, With
    <3>3. next[i] = IF i = 0 THEN <<>> ELSE With(kept[i - 1], s[i])
      BY <3>1
    <3> QED BY <3>2, <3>3
  <2>4. ASSUME NEW i \in 0..Len(t), i # 0
        PROVE  next[i] = With(next[i - 1], t[i])
    <3>1. i - 1 \in 0..Len(s)
      BY <2>2, <2>4
    <3>2. next[i - 1] = kept[i - 1]
      <4> HIDE DEF next
      <4> QED BY <2>3, <3>1
    <3>3. CASE i <= Len(s)
      BY <2>2, <2>4, <3>2, <3>3
    <3>4. CASE i = Len(s) + 1
      BY <2>2, <2>4, <3>2, <3>4
    <3> QED BY <2>2, <3>3, <3>4
  <2>5. next[0] = <<>>
    BY <2>2
  <2>6. Keeps(t, next)
    <3>1. next = [i \in 0..Len(t) |-> next[i]]
      OBVIOUS
    <3> HIDE DEF next
    <3>2. next = [i \in 0..Len(t) |->
                    IF i = 0 THEN <<>> ELSE With(next[i - 1], t[i])]
      BY <2>4, <2>5, <3>1
    <3> QED BY <3>2 DEF Keeps, With
  <2> QED BY <2>2, <2>6 DEF t
<1> HIDE DEF T
<1>3. \A s \in Seq(Nat) : s \in T
  BY <1>1, <1>2, SeqInduct
<1> QED BY <1>3 DEF T

LEMMA WithoutIsLast ==
    ASSUME NEW s \in Seq(Nat)
    PROVE  \E kept : Keeps(s, kept) /\ WithoutCommas(s) = kept[Len(s)]
<1> DEFINE k == CHOOSE kept : Keeps(s, kept)
<1>1. Keeps(s, k)
  BY KeepsExist
<1>2. WithoutCommas(s) = k[Len(s)]
  BY DEF WithoutCommas, Keeps
<1> QED BY <1>1, <1>2

LEMMA WithoutOfNone == WithoutCommas(<<>>) = <<>>
<1>1. <<>> \in Seq(Nat) /\ Len(<<>>) = 0
  OBVIOUS
<1>2. PICK kept : Keeps(<<>>, kept) /\ WithoutCommas(<<>>) = kept[0]
  BY <1>1, WithoutIsLast
<1> QED BY <1>1, <1>2 DEF Keeps

LEMMA WithoutOfAppend ==
    ASSUME NEW s \in Seq(Nat), NEW e \in Nat
    PROVE  WithoutCommas(Append(s, e)) =
              IF e = Comma THEN WithoutCommas(s) ELSE Append(WithoutCommas(s), e)
<1> DEFINE t == Append(s, e)
           With(r, c) == IF c = Comma THEN r ELSE Append(r, c)
<1>1. /\ t \in Seq(Nat) /\ Len(t) = Len(s) + 1 /\ Len(s) \in Nat
      /\ t[Len(s) + 1] = e /\ \A i \in 1..Len(s) : t[i] = s[i]
  OBVIOUS
<1> HIDE DEF t
<1>2. PICK a : Keeps(s, a) /\ WithoutCommas(s) = a[Len(s)]
  BY WithoutIsLast
<1>3. PICK b : Keeps(t, b) /\ WithoutCommas(t) = b[Len(t)]
  BY <1>1, WithoutIsLast
<1>4. /\ a[0] = <<>> /\ b[0] = <<>>
      /\ \A i \in 1..Len(s) : a[i] = With(a[i - 1], s[i])
      /\ \A i \in 1..Len(t) : b[i] = With(b[i - 1], t[i])
  <2>1. /\ 0 \in 0..Len(s) /\ 0 \in 0..Len(t)
        /\ \A i \in 1..Len(s) : i \in 0..Len(s) /\ i # 0
        /\ \A i \in 1..Len(t) : i \in 0..Len(t) /\ i # 0
    BY <1>1
  <2>2. a[0] = <<>> /\ b[0] = <<>>
    BY <1>2, <1>3, <2>1 DEF Keeps
  <2>3. \A i \in 1..Len(s) : a[i] = With(a[i - 1], s[i])
    BY <1>2, <2>1 DEF Keeps
  <2>4. \A i \in 1..Len(t) : b[i] = With(b[i - 1], t[i])
    BY <1>3, <2>1 DEF Keeps
  <2> QED BY <2>2, <2>3, <2>4
<1> HIDE DEF With
<1> DEFINE T == {n \in Nat : n <= Len(s) => a[n] = b[n]}
<1>5. 0 \in T
  BY <1>4
<1>6. ASSUME NEW n \in Nat, n \in T PROVE n + 1 \in T
  <2> SUFFICES ASSUME n + 1 <= Len(s) PROVE a[n + 1] = b[n + 1]
    OBVIOUS
  <2>1. n <= Len(s) /\ n + 1 \in 1..Len(s) /\ (n + 1) - 1 = n /\ n + 1 \in 1..Len(t)
    BY <1>1
  <2>2. a[n] = b[n]
    BY <1>6, <2>1
  <2>3. a[n + 1] = With(a[n], s[n + 1]) /\ b[n + 1] = With(b[n], t[n + 1])
    BY <1>4, <2>1
  <2> QED BY <1>1, <2>1, <2>2, <2>3
<1>7. \A n \in Nat : n \in T
  <2> HIDE DEF T
  <2> QED BY <1>5, <1>6, NatInduct
<1>8. a[Len(s)] = b[Len(s)]
  BY <1>1, <1>7
<1>9. b[Len(t)] = With(b[Len(s)], e)
  <2>1. Len(t) \in 1..Len(t) /\ Len(t) - 1 = Len(s)
    BY <1>1
  <2>2. b[Len(t)] = With(b[Len(t) - 1], t[Len(t)])
    BY <1>4, <2>1
  <2> QED BY <1>1, <2>1, <2>2
<1> QED BY <1>2, <1>3, <1>8, <1>9 DEF t, With

LEMMA WithoutType ==
    ASSUME NEW S, S \subseteq Nat
    PROVE  \A s \in Seq(S) : WithoutCommas(s) \in Seq(S \ {Comma})
<1> DEFINE T == {s \in Seq(S) : WithoutCommas(s) \in Seq(S \ {Comma})}
<1>1. <<>> \in T
  <2>1. <<>> \in Seq(S) /\ <<>> \in Seq(S \ {Comma})
    OBVIOUS
  <2> QED BY <2>1, WithoutOfNone
<1>2. ASSUME NEW s \in Seq(S), NEW e \in S, s \in T
      PROVE  Append(s, e) \in T
  <2>1. s \in Seq(Nat) /\ e \in Nat /\ WithoutCommas(s) \in Seq(S \ {Comma})
    BY <1>2, SeqMonotonic
  <2>2. CASE e = Comma
    BY <2>1, <2>2, WithoutOfAppend
  <2>3. CASE e # Comma
    <3>1. WithoutCommas(Append(s, e)) = Append(WithoutCommas(s), e)
      BY <2>1, <2>3, WithoutOfAppend
    <3>2. Append(WithoutCommas(s), e) \in Seq(S \ {Comma})
      BY <2>1, <2>3, AppendProperties
    <3> QED BY <3>1, <3>2
  <2> QED BY <2>2, <2>3
<1> HIDE DEF T
<1>3. \A s \in Seq(S) : s \in T
  BY <1>1, <1>2, SeqInduct
<1> QED BY <1>3 DEF T

LEMMA WithoutOfConcat ==
    ASSUME NEW a \in Seq(Nat)
    PROVE  \A b \in Seq(Nat) :
              WithoutCommas(a \o b) = WithoutCommas(a) \o WithoutCommas(b)
<1> DEFINE W(s) == WithoutCommas(s)
           T == {b \in Seq(Nat) : W(a \o b) = W(a) \o W(b)}
<1>0. \A s \in Seq(Nat) : W(s) \in Seq(Nat)
  BY WithoutType, SeqMonotonic
<1>1. <<>> \in T
  <2>1. a \o <<>> = a /\ <<>> \in Seq(Nat) /\ W(a) \o <<>> = W(a)
    <3> HIDE DEF W
    <3> QED BY <1>0
  <2> QED BY <2>1, WithoutOfNone
<1>2. ASSUME NEW b \in Seq(Nat), NEW e \in Nat, b \in T
      PROVE  Append(b, e) \in T
  <2>1. a \o b \in Seq(Nat) /\ Append(b, e) \in Seq(Nat)
    OBVIOUS
  <2>2. a \o Append(b, e) = Append(a \o b, e)
    BY AppendAfterConcat
  <2>3. W(a \o Append(b, e)) = IF e = Comma THEN W(a \o b) ELSE Append(W(a \o b), e)
    <3>1. W(Append(a \o b, e)) = IF e = Comma THEN W(a \o b) ELSE Append(W(a \o b), e)
      BY <2>1, WithoutOfAppend
    <3> QED BY <2>2, <3>1, Zenon
  <2>4. W(Append(b, e)) = IF e = Comma THEN W(b) ELSE Append(W(b), e)
    BY WithoutOfAppend
  <2>5. W(a \o b) = W(a) \o W(b)
    BY <1>2
  <2>6. W(a) \o Append(W(b), e) = Append(W(a) \o W(b), e)
    <3>1. W(a) \in Seq(Nat) /\ W(b) \in Seq(Nat)
      BY <1>0
    <3> HIDE DEF W
    <3> QED BY SMTT(30), <3>1, AppendAfterConcat
  <2>7. W(a \o Append(b, e)) = W(a) \o W(Append(b, e))
    <3> HIDE DEF W
    <3> QED BY <2>3, <2>4, <2>5, <2>6, Zenon
  <2> QED BY <2>1, <2>7
<1> HIDE DEF T
<1>3. \A b \in Seq(Nat) : b \in T
  BY <1>1, <1>2, SeqInduct
<1> QED BY <1>3 DEF T

LEMMA WithoutOfPlain ==
    \A s \in Seq(Nat \ {Comma}) : WithoutCommas(s) = s
<1> DEFINE T == {s \in Seq(Nat \ {Comma}) : WithoutCommas(s) = s}
<1>1. <<>> \in T
  BY WithoutOfNone
<1>2. ASSUME NEW s \in Seq(Nat \ {Comma}), NEW e \in Nat \ {Comma}, s \in T
      PROVE  Append(s, e) \in T
  <2>1. s \in Seq(Nat) /\ WithoutCommas(s) = s
    BY <1>2, SeqMonotonic
  <2>2. WithoutCommas(Append(s, e)) = Append(s, e)
    BY <2>1, WithoutOfAppend
  <2> QED BY <2>2, AppendProperties
<1> HIDE DEF T
<1>3. \A s \in Seq(Nat \ {Comma}) : s \in T
  BY <1>1, <1>2, SeqInduct
<1> QED BY <1>3 DEF T

------------------------------------------------------------------------------
(* Where a text is cut in two.                                                *)
LEMMA DotPlace ==
    ASSUME NEW t \in Seq(Nat)
    PROVE  /\ DotAt(t) \in 1..(Len(t) + 1)
           /\ DotAt(t) <= Len(t) => t[DotAt(t)] = Dot
           /\ \A j \in 1..(DotAt(t) - 1) : t[j] # Dot
<1> DEFINE D == {i \in Nat : i = Len(t) + 1 \/ (i \in 1..Len(t) /\ t[i] = Dot)}
           P(i) == (i <= Len(t) => t[i] = Dot) /\ \A j \in 1..(i - 1) : t[j] # Dot
<1>1. Len(t) \in Nat
  BY LenProperties
<1>2. PICK d \in D : \A i \in D : d <= i
  <2>1. D \subseteq Nat /\ Len(t) + 1 \in D
    BY <1>1
  <2> HIDE DEF D
  <2>2. D # {}
    BY <2>1
  <2> QED BY <2>1, <2>2, LeastNat
<1>3. d \in 1..(Len(t) + 1) /\ (d <= Len(t) => t[d] = Dot)
  BY <1>1, <1>2
<1>4. ASSUME NEW j \in 1..(d - 1), t[j] = Dot PROVE FALSE
  <2>1. j \in Nat /\ j < d /\ j \in 1..Len(t)
    BY <1>1, <1>3
  <2>2. j \in D
    BY <1>4, <2>1
  <2> QED BY <1>2, <1>3, <2>1, <2>2
<1>5. \E i \in 1..(Len(t) + 1) : P(i)
  BY <1>3, <1>4
<1> HIDE DEF P
<1>6. DotAt(t) = CHOOSE i \in 1..(Len(t) + 1) : P(i)
  BY DEF DotAt, P
<1>7. DotAt(t) \in 1..(Len(t) + 1) /\ P(DotAt(t))
  BY <1>5, <1>6
<1> QED BY <1>7 DEF P

LEMMA DotIsFirst ==
    ASSUME NEW t \in Seq(Nat), NEW d \in 1..(Len(t) + 1),
           d <= Len(t) => t[d] = Dot, \A j \in 1..(d - 1) : t[j] # Dot
    PROVE  DotAt(t) = d
<1> DEFINE e == DotAt(t)
<1>1. /\ e \in 1..(Len(t) + 1) /\ (e <= Len(t) => t[e] = Dot)
      /\ \A j \in 1..(e - 1) : t[j] # Dot
  BY DotPlace
<1>2. Len(t) \in Nat
  BY LenProperties
<1> HIDE DEF e
<1>3. ~(e < d)
  BY <1>1, <1>2
<1>4. ~(d < e)
  BY <1>1, <1>2
<1>5. e = d
  BY <1>1, <1>2, <1>3, <1>4
<1> QED BY <1>5 DEF e

LEMMA TextIsSplit ==
    ASSUME NEW S, S \subseteq Nat, NEW t \in Seq(S)
    PROVE  /\ Before(t) \in Seq(S \ {Dot}) /\ After(t) \in Seq(S)
           /\ Dot \in Range(t) => t = Before(t) \o <<Dot>> \o After(t)
           /\ Dot \notin Range(t) => t = Before(t) /\ After(t) = <<>>
<1> DEFINE d == DotAt(t)
           l == Len(t)
           w == SubSeq(t, 1, d - 1)
           f == SubSeq(t, d + 1, l)
<1>0. t \in Seq(Nat) /\ l \in Nat /\ \A i \in 1..l : t[i] \in S
  BY SeqMonotonic, LenProperties
<1>1. /\ d \in 1..(l + 1) /\ (d <= l => t[d] = Dot)
      /\ \A j \in 1..(d - 1) : t[j] # Dot
  BY <1>0, DotPlace
<1>2. Before(t) = w /\ After(t) = f
  BY DEF Before, After
<1> HIDE DEF d
<1>3. w \in Seq(S \ {Dot})
  <2>1. 1 \in Int /\ d - 1 \in Int /\ \A i \in 1..(d - 1) : t[i] \in S \ {Dot}
    BY <1>0, <1>1
  <2> QED BY <2>1, SubSeqProperties
<1>4. f \in Seq(S)
  <2>1. d + 1 \in Int /\ l \in Int /\ \A i \in (d + 1)..l : t[i] \in S
    BY <1>0, <1>1
  <2> QED BY <2>1, SubSeqProperties
<1>5. ASSUME Dot \in Range(t) PROVE t = w \o <<Dot>> \o f
  <2>1. PICK i \in 1..l : t[i] = Dot
    BY <1>5, LenProperties DEF Range
  <2>2. d \in 1..l /\ t[d] = Dot /\ d \in Nat /\ d - 1 \in 0..l
    BY <1>0, <1>1, <2>1
  <2>3. w \o <<Dot>> = SubSeq(t, 1, d)
    <3>1. 1 \in 1..l
      BY <1>0, <2>2
    <3> HIDE DEF l
    <3> QED BY <2>2, <3>1, SubSeqRecursiveSecond DEF l
  <2>4. SubSeq(t, 1, d) \o f = t
    <3>1. d \in 0..l
      BY <1>0, <2>2
    <3> QED BY <3>1, Cut
  <2> HIDE DEF w, f
  <2> QED BY <2>3, <2>4, Zenon
<1>6. ASSUME Dot \notin Range(t) PROVE t = w /\ f = <<>>
  <2>1. \A i \in 1..l : t[i] # Dot
    BY <1>6, LenProperties DEF Range
  <2>2. d = l + 1
    BY <1>0, <1>1, <2>1
  <2>3. d - 1 = l /\ l < d + 1 /\ d + 1 \in Int /\ l \in Int
    BY <1>0, <2>2
  <2>4. w = t
    BY <2>3, SubSeqFull
  <2>5. f = <<>>
    BY <2>3, SubSeqEmpty
  <2> QED BY <2>4, <2>5
<1> QED BY <1>2, <1>3, <1>4, <1>5, <1>6

LEMMA SplitAtDot ==
    ASSUME NEW w \in Seq(Nat \ {Dot}), NEW f \in Seq(Nat)
    PROVE  /\ Before(w \o <<Dot>> \o f) = w /\ After(w \o <<Dot>> \o f) = f
           /\ Dot \in Range(w \o <<Dot>> \o f)
<1> DEFINE a == w \o <<Dot>>
           t == a \o f
<1>1. w \in Seq(Nat) /\ Len(w) \in Nat /\ Len(f) \in Nat
      /\ \A i \in 1..Len(w) : w[i] # Dot
  BY SeqMonotonic, LenProperties
<1>2. /\ a \in Seq(Nat) /\ Len(a) = Len(w) + 1 /\ a[Len(w) + 1] = Dot
      /\ \A i \in 1..Len(w) : a[i] = w[i]
  <2>1. a = Append(w, Dot)
    BY <1>1, DigitType, AppendIsConcat
  <2>2. Append(w, Dot) \in Seq(Nat) /\ Len(Append(w, Dot)) = Len(w) + 1
        /\ Append(w, Dot)[Len(w) + 1] = Dot
        /\ \A i \in 1..Len(w) : Append(w, Dot)[i] = w[i]
    BY <1>1, DigitType, AppendProperties
  <2> HIDE DEF a
  <2> QED BY <2>1, <2>2
<1> HIDE DEF a
<1>3. /\ t \in Seq(Nat) /\ Len(t) = Len(a) + Len(f)
      /\ \A i \in 1..(Len(a) + Len(f)) :
            t[i] = IF i <= Len(a) THEN a[i] ELSE f[i - Len(a)]
  BY <1>2, ConcatProperties
<1> HIDE DEF t
<1>4. DotAt(t) = Len(w) + 1
  <2> DEFINE d == Len(w) + 1
  <2>1. d \in 1..(Len(t) + 1) /\ d \in 1..(Len(a) + Len(f)) /\ d <= Len(a)
    BY <1>1, <1>2, <1>3
  <2>2. t[d] = Dot
    BY <1>2, <1>3, <2>1
  <2>3. ASSUME NEW j \in 1..(d - 1) PROVE t[j] # Dot
    <3>1. j \in 1..(Len(a) + Len(f)) /\ j <= Len(a) /\ j \in 1..Len(w)
      BY <1>1, <1>2
    <3>2. t[j] = w[j]
      BY <1>2, <1>3, <3>1
    <3> QED BY <1>1, <3>1, <3>2
  <2> HIDE DEF d
  <2>4. DotAt(t) = d
    BY <1>3, <2>1, <2>2, <2>3, DotIsFirst
  <2> QED BY <2>4 DEF d
<1>5. Before(t) = w
  <2>1. Before(t) = SubSeq(t, 1, Len(w))
    BY <1>1, <1>4 DEF Before
  <2>2. Len(w) \in 0..Len(t) /\ \A j \in 1..Len(w) : t[j] = w[j]
    <3>1. Len(w) \in 0..Len(t)
      BY <1>1, <1>2, <1>3
    <3>2. ASSUME NEW j \in 1..Len(w) PROVE t[j] = w[j]
      <4>1. j \in 1..(Len(a) + Len(f)) /\ j <= Len(a)
        BY <1>1, <1>2
      <4> QED BY <1>2, <1>3, <4>1
    <3> QED BY <3>1, <3>2
  <2>3. /\ SubSeq(t, 1, Len(w)) \in Seq(Nat) /\ Len(SubSeq(t, 1, Len(w))) = Len(w)
        /\ \A j \in 1..Len(w) : SubSeq(t, 1, Len(w))[j] = t[j]
    BY <1>3, <2>2, Cut
  <2>4. SubSeq(t, 1, Len(w)) = w
    BY <1>1, <2>2, <2>3, SeqEqual
  <2> QED BY <2>1, <2>4
<1>6. After(t) = f
  <2>1. After(t) = SubSeq(t, Len(a) + 1, Len(t)) /\ Len(a) \in 0..Len(t)
    BY <1>1, <1>2, <1>3, <1>4 DEF After
  <2>2. /\ SubSeq(t, Len(a) + 1, Len(t)) \in Seq(Nat)
        /\ Len(SubSeq(t, Len(a) + 1, Len(t))) = Len(t) - Len(a)
        /\ \A j \in 1..(Len(t) - Len(a)) :
              SubSeq(t, Len(a) + 1, Len(t))[j] = t[Len(a) + j]
    BY ZenonT(60), <1>3, <2>1, Cut
  <2>3. ASSUME NEW j \in 1..Len(f) PROVE t[Len(a) + j] = f[j]
    <3>1. /\ Len(a) + j \in 1..(Len(a) + Len(f)) /\ ~(Len(a) + j <= Len(a))
          /\ (Len(a) + j) - Len(a) = j
      BY <1>1, <1>2
    <3> QED BY <1>3, <3>1
  <2>4. SubSeq(t, Len(a) + 1, Len(t)) = f
    <3>1. Len(t) - Len(a) = Len(f)
      BY <1>1, <1>2, <1>3
    <3> QED BY <2>2, <2>3, <3>1, SeqEqual
  <2> QED BY <2>1, <2>4
<1>7. Dot \in Range(t)
  <2>1. Len(w) + 1 \in 1..Len(t) /\ t[Len(w) + 1] = Dot
    BY <1>1, <1>2, <1>3
  <2>2. DOMAIN t = 1..Len(t)
    BY <1>3, LenProperties
  <2> QED BY <2>1, <2>2 DEF Range
<1> QED BY <1>5, <1>6, <1>7 DEF t, a

LEMMA SplitWithoutDot ==
    ASSUME NEW w \in Seq(Nat \ {Dot})
    PROVE  Before(w) = w /\ After(w) = <<>> /\ Dot \notin Range(w)
<1>1. w \in Seq(Nat)
  BY SeqMonotonic
<1>2. Dot \notin Range(w)
  BY LenProperties, ElementOfSeq DEF Range
<1> QED BY <1>1, <1>2, TextIsSplit

------------------------------------------------------------------------------
(* Commas.  Of the last r characters of a grouped number, Cnt(r) are digits.  *)
Cnt(r) == r - r \div (Group + 1)

LEMMA GroupType == Group \in Nat /\ Group >= 1
BY AmountAssumption

LEMMA CommaOrDigit ==
    ASSUME NEW r \in Nat
    PROVE  /\ Cnt(r) \in Int
           /\ (r + 1) % (Group + 1) = 0 => Cnt(r + 1) = Cnt(r)
           /\ (r + 1) % (Group + 1) # 0 => Cnt(r + 1) = Cnt(r) + 1
<1> DEFINE g == Group + 1
           q == r \div g
           e == r % g
<1>1. g \in Nat /\ g >= 2
  BY GroupType
<1>2. q \in Nat /\ e \in Nat /\ e < g /\ r = q * g + e
  <2> HIDE DEF g
  <2> QED BY <1>1
<1>3. Cnt(r) = r - q /\ Cnt(r + 1) = (r + 1) - (r + 1) \div g
  BY DEF Cnt
<1> HIDE DEF g, q, e
<1>4. CASE e + 1 < g
  <2>1. q * g \in Nat /\ r + 1 = q * g + (e + 1)
    BY <1>1, <1>2
  <2>2. (q * g + (e + 1)) \div g = q /\ (q * g + (e + 1)) % g = e + 1
    BY <1>1, <1>2, <1>4, Quotient
  <2>3. (r + 1) \div g = q /\ (r + 1) % g # 0
    BY <1>2, <2>1, <2>2
  <2> QED BY <1>2, <1>3, <2>3 DEF g
<1>5. CASE e + 1 = g
  <2>1. (q + 1) * g = q * g + g /\ q * g \in Nat
    BY <1>1, <1>2
  <2>2. r + 1 = (q + 1) * g + 0
    BY <1>1, <1>2, <1>5, <2>1
  <2>3. ((q + 1) * g + 0) \div g = q + 1 /\ ((q + 1) * g + 0) % g = 0
    <3>1. q + 1 \in Nat /\ 0 \in Nat /\ 0 < g
      BY <1>1, <1>2
    <3> QED BY <1>1, <3>1, Quotient
  <2>4. (r + 1) \div g = q + 1 /\ (r + 1) % g = 0
    BY <2>2, <2>3
  <2> QED BY <1>2, <1>3, <2>4 DEF g
<1> QED BY <1>1, <1>2, <1>4, <1>5

LEMMA CntGrows ==
    ASSUME NEW r \in Nat
    PROVE  /\ Cnt(r) \in Nat /\ Cnt(0) = 0
           /\ \A n \in Nat : r <= n => Cnt(r) <= Cnt(n)
<1>1. Cnt(0) = 0
  BY GroupType DEF Cnt
<1> DEFINE T == {n \in Nat : Cnt(n) \in Nat /\ (r <= n => Cnt(r) <= Cnt(n))}
<1>2. 0 \in T
  <2>1. Cnt(r) \in Int
    BY CommaOrDigit
  <2> QED BY <1>1, <2>1
<1>3. ASSUME NEW n \in Nat, n \in T PROVE n + 1 \in T
  <2>1. Cnt(n) \in Nat /\ Cnt(r) \in Int
    BY <1>3, CommaOrDigit
  <2>2. Cnt(n + 1) = Cnt(n) \/ Cnt(n + 1) = Cnt(n) + 1
    BY CommaOrDigit
  <2>3. ASSUME r <= n + 1 PROVE Cnt(r) <= Cnt(n + 1)
    <3>1. CASE r = n + 1
      BY <2>1, <2>2, <3>1
    <3>2. CASE r <= n
      BY <1>3, <2>1, <2>2, <3>2
    <3> QED BY <2>3, <3>1, <3>2
  <2> QED BY <2>1, <2>2, <2>3
<1> HIDE DEF T
<1>4. \A n \in Nat : n \in T
  BY <1>2, <1>3, NatInduct
<1> QED BY <1>1, <1>4 DEF T

LEMMA GroupedLength ==
    ASSUME NEW len \in Nat \ {0}
    PROVE  LET n == len + (len - 1) \div Group
           IN  n \in Nat \ {0} /\ Cnt(n) = len /\ n % (Group + 1) # 0
<1> DEFINE q == (len - 1) \div Group
           e == (len - 1) % Group
           n == len + q
           g == Group + 1
<1>1. q \in Nat /\ e \in Nat /\ e < Group /\ len - 1 = q * Group + e
  BY GroupType
<1> HIDE DEF q, e
<1>2. q * g = q * Group + q /\ q * Group \in Nat
  BY <1>1, GroupType
<1>3. n = q * g + (e + 1) /\ e + 1 \in Nat /\ e + 1 < g /\ g \in Nat
  BY <1>1, <1>2, GroupType
<1>4. n \div g = q /\ n % g = e + 1
  <2> HIDE DEF n, g
  <2> QED BY <1>1, <1>3, Quotient
<1>5. n \in Nat \ {0} /\ n - n \div g = len
  <2> HIDE DEF g
  <2> QED BY <1>1, <1>4
<1>6. n % g # 0
  BY <1>1, <1>4
<1> QED BY <1>5, <1>6 DEF q, Cnt

LEMMA UngroupedLength ==
    ASSUME NEW n \in Nat, n % (Group + 1) # 0
    PROVE  Cnt(n) \in Nat \ {0} /\ Cnt(n) + (Cnt(n) - 1) \div Group = n
<1> DEFINE g == Group + 1
           q == n \div g
           e == n % g
<1>1. g \in Nat /\ g >= 2
  BY GroupType
<1>2. q \in Nat /\ e \in Nat /\ e < g /\ n = q * g + e /\ e # 0
  <2>1. e # 0
    OBVIOUS
  <2> HIDE DEF g
  <2> QED BY <1>1, <2>1
<1>3. Cnt(n) = n - q
  BY DEF Cnt
<1> HIDE DEF q, e
<1>4. q * g = q * Group + q /\ q * Group \in Nat
  BY <1>2, GroupType
<1>5. Cnt(n) - 1 = q * Group + (e - 1) /\ e - 1 \in Nat /\ e - 1 < Group
  BY <1>2, <1>3, <1>4, GroupType
<1>6. (Cnt(n) - 1) \div Group = q
  BY ZenonT(60), <1>2, <1>5, GroupType, Quotient
<1> QED BY <1>2, <1>3, <1>5, <1>6, <1>4

(* g is what s looks like with its commas.                                    *)
InPlace(g, i)   == (Len(g) - i + 1) % (Group + 1) = 0
DigitAt(g, i)   == Cnt(Len(g)) - Cnt(Len(g) - i + 1) + 1
LaidOut(g, s) ==
    /\ Len(s) = Cnt(Len(g))
    /\ \A i \in 1..Len(g) : g[i] = IF InPlace(g, i) THEN Comma ELSE s[DigitAt(g, i)]

(* Of the first i characters of a text of n, these are digits.                *)
Ahead(n, i) == Cnt(n) - Cnt(n - i)

LEMMA DigitsBefore ==
    ASSUME NEW n \in Nat
    PROVE  /\ Ahead(n, 0) = 0 /\ Ahead(n, n) = Cnt(n)
           /\ \A i \in 0..n : Ahead(n, i) \in 0..Cnt(n)
           /\ \A i \in 1..n :
                IF (n - i + 1) % (Group + 1) = 0
                THEN Ahead(n, i) = Ahead(n, i - 1)
                ELSE /\ Ahead(n, i) = Ahead(n, i - 1) + 1
                     /\ Ahead(n, i) = Cnt(n) - Cnt(n - i + 1) + 1
<1>1. Cnt(n) \in Nat /\ Cnt(0) = 0 /\ n - 0 = n /\ n - n = 0
  BY CntGrows
<1>2. Ahead(n, 0) = 0 /\ Ahead(n, n) = Cnt(n)
  BY <1>1 DEF Ahead
<1>3. ASSUME NEW i \in 0..n PROVE Ahead(n, i) \in 0..Cnt(n)
  <2>1. n - i \in Nat /\ n - i <= n
    OBVIOUS
  <2>2. Cnt(n - i) \in Nat /\ Cnt(n - i) <= Cnt(n)
    BY <2>1, CntGrows
  <2> QED BY <1>1, <2>2 DEF Ahead
<1>4. ASSUME NEW i \in 1..n
      PROVE  IF (n - i + 1) % (Group + 1) = 0
             THEN Ahead(n, i) = Ahead(n, i - 1)
             ELSE /\ Ahead(n, i) = Ahead(n, i - 1) + 1
                  /\ Ahead(n, i) = Cnt(n) - Cnt(n - i + 1) + 1
  <2> DEFINE r == n - i
  <2>1. r \in Nat /\ n - (i - 1) = r + 1 /\ n - i + 1 = r + 1
    OBVIOUS
  <2>2. Ahead(n, i) = Cnt(n) - Cnt(r) /\ Ahead(n, i - 1) = Cnt(n) - Cnt(r + 1)
    BY <2>1 DEF Ahead
  <2> HIDE DEF r
  <2>3. Cnt(r) \in Nat /\ Cnt(r + 1) \in Nat
    BY <2>1, CntGrows
  <2>4. CASE (r + 1) % (Group + 1) = 0
    <3>1. Cnt(r + 1) = Cnt(r)
      BY <2>1, <2>4, CommaOrDigit
    <3> QED BY <2>1, <2>2, <2>4, <3>1
  <2>5. CASE (r + 1) % (Group + 1) # 0
    <3>1. Cnt(r + 1) = Cnt(r) + 1
      BY <2>1, <2>5, CommaOrDigit
    <3>2. /\ Ahead(n, i) = Ahead(n, i - 1) + 1
          /\ Ahead(n, i) = Cnt(n) - Cnt(r + 1) + 1
      BY <1>1, <2>2, <2>3, <3>1
    <3> QED BY <2>1, <2>5, <3>2
  <2> QED BY <2>4, <2>5
<1> QED BY <1>2, <1>3, <1>4

LEMMA OneMore ==
    ASSUME NEW S, NEW s \in Seq(S), NEW i \in 1..Len(s)
    PROVE  /\ SubSeq(s, 1, i) = Append(SubSeq(s, 1, i - 1), s[i])
           /\ SubSeq(s, 1, i - 1) \in Seq(S) /\ s[i] \in S
<1>1. Len(s) \in Nat /\ i - 1 \in 0..Len(s) /\ s[i] \in S /\ 1 \in 1..Len(s)
      /\ i \in 1..Len(s)
  OBVIOUS
<1>2. SubSeq(s, 1, i) = SubSeq(s, 1, i - 1) \o <<s[i]>>
  BY <1>1, SubSeqRecursiveSecond
<1>3. SubSeq(s, 1, i - 1) \in Seq(S)
  BY <1>1, Cut
<1>4. Append(SubSeq(s, 1, i - 1), s[i]) = SubSeq(s, 1, i - 1) \o <<s[i]>>
  BY <1>1, <1>3, AppendIsConcat
<1> QED BY <1>1, <1>2, <1>3, <1>4, Zenon

LEMMA NoneOfIt ==
    ASSUME NEW S, NEW s \in Seq(S)
    PROVE  SubSeq(s, 1, 0) = <<>>
BY SubSeqEmpty

LEMMA WithoutOfLaidOut ==
    ASSUME NEW g \in Seq(Nat), NEW s \in Seq(Digit), LaidOut(g, s)
    PROVE  WithoutCommas(g) = s
<1> DEFINE n == Len(g)
           T == {i \in Nat : i <= n =>
                    WithoutCommas(SubSeq(g, 1, i)) = SubSeq(s, 1, Ahead(n, i))}
<1>1. /\ n \in Nat /\ Len(s) \in Nat /\ Len(s) = Cnt(n)
      /\ \A i \in 1..n : g[i] \in Nat
  BY LenProperties DEF LaidOut
<1>2. 0 \in T
  BY <1>1, DigitsBefore, NoneOfIt, WithoutOfNone
<1>3. ASSUME NEW j \in Nat, j \in T PROVE j + 1 \in T
  <2> DEFINE i == j + 1
             a == SubSeq(g, 1, i - 1)
             k == Ahead(n, i)
  <2> SUFFICES ASSUME i <= n
               PROVE  WithoutCommas(SubSeq(g, 1, i)) = SubSeq(s, 1, k)
    OBVIOUS
  <2>1. i \in 1..n /\ i - 1 = j /\ j <= n /\ i - 1 \in 0..n
    BY <1>1
  <2>2. /\ SubSeq(g, 1, i) = Append(a, g[i]) /\ a \in Seq(Nat) /\ g[i] \in Nat
    BY <2>1, OneMore
  <2>3. WithoutCommas(a) = SubSeq(s, 1, Ahead(n, i - 1))
    BY <1>3, <2>1
  <2>4. WithoutCommas(SubSeq(g, 1, i)) =
            IF g[i] = Comma THEN WithoutCommas(a) ELSE Append(WithoutCommas(a), g[i])
    <3>1. WithoutCommas(Append(a, g[i])) =
            IF g[i] = Comma THEN WithoutCommas(a) ELSE Append(WithoutCommas(a), g[i])
      <4> HIDE DEF a, i
      <4> QED BY <2>2, WithoutOfAppend
    <3> HIDE DEF a, i
    <3> QED BY <2>2, <3>1, Zenon
  <2> HIDE DEF a, i, T
  <2>5. CASE InPlace(g, i)
    <3>1. g[i] = Comma
      BY <2>1, <2>5 DEF LaidOut
    <3>2. k = Ahead(n, i - 1)
      BY <1>1, <2>1, <2>5, DigitsBefore DEF InPlace
    <3> HIDE DEF k, n
    <3> QED BY <2>3, <2>4, <3>1, <3>2, Zenon
  <2>6. CASE ~InPlace(g, i)
    <3>1. k = Ahead(n, i - 1) + 1 /\ k = DigitAt(g, i)
      BY <1>1, <2>1, <2>6, DigitsBefore DEF InPlace, DigitAt
    <3>2. k \in 0..Cnt(n) /\ Ahead(n, i - 1) \in 0..Cnt(n)
      BY <1>1, <2>1, DigitsBefore
    <3>3. g[i] = s[k]
      BY <2>1, <2>6, <3>1 DEF LaidOut
    <3> HIDE DEF k
    <3>4. k \in 1..Len(s) /\ k - 1 = Ahead(n, i - 1)
      BY <1>1, <3>1, <3>2
    <3>5. SubSeq(s, 1, k) = Append(SubSeq(s, 1, k - 1), s[k]) /\ s[k] \in Digit
      BY <3>4, OneMore
    <3>6. g[i] # Comma
      BY <3>3, <3>5, DigitType
    <3> HIDE DEF n
    <3> QED BY <2>3, <2>4, <3>3, <3>4, <3>5, <3>6
  <2> QED BY <2>5, <2>6
<1>4. \A i \in Nat : i \in T
  <2> HIDE DEF T
  <2> QED BY <1>2, <1>3, NatInduct
<1>5. WithoutCommas(SubSeq(g, 1, n)) = SubSeq(s, 1, Len(s))
  <2>1. Ahead(n, n) = Len(s)
    BY <1>1, DigitsBefore
  <2>2. n \in Nat /\ n <= n
    BY <1>1
  <2>3. WithoutCommas(SubSeq(g, 1, n)) = SubSeq(s, 1, Ahead(n, n))
    <3> HIDE DEF n
    <3> QED BY <1>4, <2>2
  <2> HIDE DEF n
  <2> QED BY <2>1, <2>3
<1>6. SubSeq(s, 1, Len(s)) = s /\ SubSeq(g, 1, n) = g
  BY SubSeqFull
<1> HIDE DEF n
<1> QED BY <1>5, <1>6

LEMMA GroupedIsLaidOut ==
    ASSUME NEW s \in Seq(Digit), Len(s) > 0
    PROVE  /\ Grouped(s) \in Seq(Digit \cup {Comma}) /\ LaidOut(Grouped(s), s)
           /\ Len(Grouped(s)) \in Nat \ {0}
           /\ Len(Grouped(s)) = Len(s) + (Len(s) - 1) \div Group
           /\ Len(Grouped(s)) % (Group + 1) # 0
<1> DEFINE n == Len(s) + (Len(s) - 1) \div Group
           g == Grouped(s)
<1>1. Len(s) \in Nat \ {0} /\ \A k \in 1..Len(s) : s[k] \in Digit
  BY DigitsAreNumbers
<1>2. n \in Nat \ {0} /\ Cnt(n) = Len(s) /\ n % (Group + 1) # 0
  <2> DEFINE l == Len(s)
  <2>1. l \in Nat \ {0}
    BY <1>1
  <2> HIDE DEF l
  <2>2. LET m == l + (l - 1) \div Group
        IN  m \in Nat \ {0} /\ Cnt(m) = l /\ m % (Group + 1) # 0
    BY <2>1, GroupedLength
  <2> QED BY <2>2 DEF l
<1> HIDE DEF n
<1>3. g = [i \in 1..n |-> IF (n - i + 1) % (Group + 1) = 0 THEN Comma
                          ELSE s[Cnt(n) - Cnt(n - i + 1) + 1]]
  <2>1. g = [i \in 1..n |-> IF (n - i + 1) % (Group + 1) = 0 THEN Comma
                          ELSE s[Len(s) - Cnt(n - i + 1) + 1]]
    BY DEF Grouped, n, Cnt
  <2> HIDE DEF g
  <2> QED BY <1>2, <2>1
<1> HIDE DEF g
<1>4. ASSUME NEW i \in 1..n
      PROVE  g[i] \in Digit \cup {Comma}
  <2>1. CASE (n - i + 1) % (Group + 1) = 0
    BY <1>3, <2>1
  <2>2. CASE (n - i + 1) % (Group + 1) # 0
    <3>1. /\ Ahead(n, i) = Ahead(n, i - 1) + 1
          /\ Ahead(n, i) = Cnt(n) - Cnt(n - i + 1) + 1
      BY <1>2, <2>2, DigitsBefore
    <3>2. Ahead(n, i) \in 0..Cnt(n) /\ Ahead(n, i - 1) \in 0..Cnt(n)
      <4>1. i \in 0..n /\ i - 1 \in 0..n
        BY <1>2
      <4> QED BY <1>2, <4>1, DigitsBefore
    <3>3. Cnt(n) - Cnt(n - i + 1) + 1 \in 1..Len(s)
      BY <1>1, <1>2, <3>1, <3>2
    <3> QED BY <1>1, <1>3, <2>2, <3>3
  <2> QED BY <2>1, <2>2
<1>5. g \in [1..n -> Digit \cup {Comma}]
  BY <1>3, <1>4
<1>6. g \in Seq(Digit \cup {Comma}) /\ Len(g) = n
  BY <1>2, <1>5
<1>7. LaidOut(g, s)
  BY <1>2, <1>3, <1>6 DEF LaidOut, InPlace, DigitAt
<1> QED BY <1>2, <1>6, <1>7 DEF g, n

(* There is one way to put the commas in their places.                        *)
LEMMA GroupedIsTheOnly ==
    ASSUME NEW g \in Seq(Digit \cup {Comma}), Len(g) > 0, g[1] # Comma,
           \A i \in 1..Len(g) : g[i] = Comma <=> InPlace(g, i)
    PROVE  WithoutCommas(g) \in Seq(Digit) /\ Grouped(WithoutCommas(g)) = g
<1> DEFINE n == Len(g)
           W(s) == WithoutCommas(s)
           w == WithoutCommas(g)
           T == {i \in Nat : i <= n => Len(W(SubSeq(g, 1, i))) = Ahead(n, i)}
<1>1. /\ n \in Nat \ {0} /\ \A i \in 1..n : g[i] \in Nat /\ g[i] \in Digit \cup {Comma}
      /\ g \in Seq(Nat) /\ Digit \cup {Comma} \subseteq Nat
  <2>1. Digit \cup {Comma} \subseteq Nat
    BY DigitType
  <2>2. g \in Seq(Nat)
    BY <2>1, SeqMonotonic
  <2>3. n \in Nat /\ \A i \in 1..n : g[i] \in Digit \cup {Comma}
    BY LenProperties, ElementOfSeq
  <2> QED BY <2>1, <2>2, <2>3
<1>2. \A s \in Seq(Digit \cup {Comma}) : W(s) \in Seq(Digit) /\ Len(W(s)) \in Nat
  <2>1. (Digit \cup {Comma}) \ {Comma} = Digit
    BY DigitType
  <2>2. \A s \in Seq(Digit \cup {Comma}) : W(s) \in Seq((Digit \cup {Comma}) \ {Comma})
    BY <1>1, WithoutType
  <2>3. \A s \in Seq(Digit \cup {Comma}) : W(s) \in Seq(Digit)
    BY <2>1, <2>2
  <2> QED BY <2>3, LenProperties
(* The i-th character, when it is a digit, is the Ahead(n, i)-th of them.      *)
<1>3. ASSUME NEW i \in 1..n
      PROVE  /\ InPlace(g, i) => W(SubSeq(g, 1, i)) = W(SubSeq(g, 1, i - 1))
             /\ ~InPlace(g, i) => W(SubSeq(g, 1, i)) = Append(W(SubSeq(g, 1, i - 1)), g[i])
             /\ W(SubSeq(g, 1, i - 1)) \in Seq(Digit)
             /\ ~InPlace(g, i) => g[i] \in Digit
  <2> DEFINE a == SubSeq(g, 1, i - 1)
  <2>1. /\ SubSeq(g, 1, i) = Append(a, g[i])
        /\ a \in Seq(Digit \cup {Comma}) /\ g[i] \in Digit \cup {Comma}
    BY OneMore
  <2> HIDE DEF a
  <2>2. a \in Seq(Nat) /\ g[i] \in Nat
    BY <1>1, <2>1, SeqMonotonic
  <2>3. W(Append(a, g[i])) = IF g[i] = Comma THEN W(a) ELSE Append(W(a), g[i])
    BY <2>2, WithoutOfAppend
  <2>4. W(a) \in Seq(Digit)
    BY <1>2, <2>1
  <2>5. g[i] = Comma <=> InPlace(g, i)
    OBVIOUS
  <2> HIDE DEF W
  <2>6. W(SubSeq(g, 1, i)) = IF g[i] = Comma THEN W(a) ELSE Append(W(a), g[i])
    BY <2>1, <2>3, Zenon
  <2>7. ~InPlace(g, i) => g[i] \in Digit
    BY <2>1, <2>5
  <2>8. InPlace(g, i) => W(SubSeq(g, 1, i)) = W(a)
    BY <2>5, <2>6
  <2>9. ~InPlace(g, i) => W(SubSeq(g, 1, i)) = Append(W(a), g[i])
    BY <2>5, <2>6
  <2> QED BY <2>4, <2>7, <2>8, <2>9 DEF a
<1>4. 0 \in T
  <2>1. SubSeq(g, 1, 0) = <<>> /\ Len(<<>>) = 0
    BY NoneOfIt
  <2>2. Ahead(n, 0) = 0
    BY <1>1, DigitsBefore
  <2>3. Len(W(SubSeq(g, 1, 0))) = 0
    BY <2>1, WithoutOfNone
  <2> HIDE DEF n, W
  <2> QED BY <2>2, <2>3
<1>5. ASSUME NEW j \in Nat, j \in T PROVE j + 1 \in T
  <2> DEFINE i == j + 1
  <2> SUFFICES ASSUME i <= n PROVE Len(W(SubSeq(g, 1, i))) = Ahead(n, i)
    OBVIOUS
  <2>1. i \in 1..n /\ i - 1 = j /\ j <= n
    BY <1>1
  <2>2. Len(W(SubSeq(g, 1, i - 1))) = Ahead(n, i - 1)
    BY <1>5, <2>1
  <2> HIDE DEF i, W, T
  <2>3. CASE InPlace(g, i)
    <3>1. Ahead(n, i) = Ahead(n, i - 1)
      BY <1>1, <2>1, <2>3, DigitsBefore DEF InPlace
    <3>2. W(SubSeq(g, 1, i)) = W(SubSeq(g, 1, i - 1))
      BY <1>3, <2>1, <2>3
    <3> QED BY <2>2, <3>1, <3>2
  <2>4. CASE ~InPlace(g, i)
    <3>1. Ahead(n, i) = Ahead(n, i - 1) + 1
      BY <1>1, <2>1, <2>4, DigitsBefore DEF InPlace
    <3>2. /\ W(SubSeq(g, 1, i)) = Append(W(SubSeq(g, 1, i - 1)), g[i])
          /\ W(SubSeq(g, 1, i - 1)) \in Seq(Digit) /\ g[i] \in Digit
      BY <1>3, <2>1, <2>4
    <3>3. Len(Append(W(SubSeq(g, 1, i - 1)), g[i])) = Len(W(SubSeq(g, 1, i - 1))) + 1
      BY <3>2, AppendProperties
    <3> QED BY <2>2, <3>1, <3>2, <3>3
  <2> QED BY <2>3, <2>4
<1>6. \A i \in Nat : i \in T
  <2> HIDE DEF T
  <2> QED BY <1>4, <1>5, NatInduct
<1>7. \A i \in 0..n : Len(W(SubSeq(g, 1, i))) = Ahead(n, i)
  <2> HIDE DEF W, n
  <2> QED BY <1>1, <1>6
<1>8. w \in Seq(Digit) /\ Len(w) = Cnt(n)
  <2>1. SubSeq(g, 1, n) = g
    BY SubSeqFull
  <2>2. n \in 0..n /\ Ahead(n, n) = Cnt(n)
    BY <1>1, DigitsBefore
  <2>3. Len(W(SubSeq(g, 1, n))) = Ahead(n, n)
    <3> HIDE DEF W, n
    <3> QED BY <1>7, <2>2
  <2>4. w = W(g) /\ w \in Seq(Digit)
    BY <1>2
  <2> HIDE DEF W, w, n
  <2> QED BY <2>1, <2>2, <2>3, <2>4
<1>9. ASSUME NEW i \in 1..n, ~InPlace(g, i)
      PROVE  g[i] = w[DigitAt(g, i)]
  <2> DEFINE a == W(SubSeq(g, 1, i - 1))
             b == SubSeq(g, i + 1, n)
             k == Ahead(n, i)
  <2>1. /\ W(SubSeq(g, 1, i)) = Append(a, g[i])
        /\ a \in Seq(Digit) /\ g[i] \in Digit
    BY <1>3, <1>9
  <2>2. k = DigitAt(g, i) /\ k = Ahead(n, i - 1) + 1
    BY <1>1, <1>9, DigitsBefore DEF InPlace, DigitAt
  <2>3. i \in 0..n /\ i - 1 \in 0..n
    BY <1>1
  <2>4. Len(a) = k - 1 /\ k \in Int
    <3>1. Len(a) = Ahead(n, i - 1) /\ Ahead(n, i - 1) \in Int
      <4>1. Ahead(n, i - 1) \in 0..Cnt(n)
        BY <1>1, <2>3, DigitsBefore
      <4>2. Len(a) = Ahead(n, i - 1)
        <5> HIDE DEF W, n
        <5> QED BY <1>7, <2>3
      <4> QED BY <4>1, <4>2
    <3> HIDE DEF a
    <3> QED BY <2>2, <3>1
  <2>5. /\ SubSeq(g, 1, i) \in Seq(Nat) /\ b \in Seq(Nat)
        /\ b \in Seq(Digit \cup {Comma}) /\ g = SubSeq(g, 1, i) \o b
    <3>1. /\ SubSeq(g, 1, i) \in Seq(Digit \cup {Comma})
          /\ b \in Seq(Digit \cup {Comma}) /\ g = SubSeq(g, 1, i) \o b
      BY <2>3, Cut
    <3> QED BY <1>1, <3>1, SeqMonotonic
  <2>6. w = W(SubSeq(g, 1, i)) \o W(b)
    <3>1. W(SubSeq(g, 1, i) \o b) = W(SubSeq(g, 1, i)) \o W(b)
      BY <2>5, WithoutOfConcat
    <3> HIDE DEF b
    <3>2. W(g) = W(SubSeq(g, 1, i)) \o W(b)
      <4> HIDE DEF W
      <4> QED BY <2>5, <3>1, Zenon
    <3> QED BY <3>2
  <2>7. W(b) \in Seq(Digit)
    BY <1>2, <2>5
  <2> DEFINE c == W(b)
             d == Append(a, g[i])
  <2>8. w = d \o c
    <3> HIDE DEF W, w
    <3> QED BY <2>1, <2>6, Zenon
  <2>9. d \in Seq(Digit) /\ Len(d) = k /\ d[k] = g[i] /\ k \in 1..Len(d)
    <3> HIDE DEF a, k
    <3>1. Len(a) \in Nat
      BY <2>1, LenProperties
    <3>2. /\ d \in Seq(Digit) /\ Len(d) = Len(a) + 1 /\ d[Len(a) + 1] = g[i]
      BY <2>1, AppendProperties
    <3> HIDE DEF d
    <3>3. Len(a) + 1 = k
      BY <2>4
    <3> QED BY <3>1, <3>2, <3>3
  <2> HIDE DEF c, d, k, w
  <2>10. c \in Seq(Digit) /\ Len(c) \in Nat
    BY <2>7, LenProperties DEF c
  <2>11. (d \o c)[k] = d[k]
    <3>1. k \in 1..(Len(d) + Len(c)) /\ k <= Len(d)
      BY <2>9, <2>10
    <3> QED BY <2>9, <2>10, <3>1, ConcatProperties
  <2> QED BY <2>2, <2>8, <2>9, <2>11
<1>10. n % (Group + 1) # 0
  <2>1. 1 \in 1..n /\ n - 1 + 1 = n
    BY <1>1
  <2>2. ~InPlace(g, 1)
    BY <2>1
  <2> QED BY <2>1, <2>2 DEF InPlace
<1>11. Cnt(n) \in Nat \ {0} /\ Cnt(n) + (Cnt(n) - 1) \div Group = n
  <2> HIDE DEF n
  <2> QED BY <1>1, <1>10, UngroupedLength
<1>12. Grouped(w) = g
  <2> DEFINE h == Grouped(w)
  <2>0. Len(w) > 0
    BY <1>8, <1>11
  <2>1. /\ h \in Seq(Digit \cup {Comma}) /\ LaidOut(h, w)
        /\ Len(h) = Len(w) + (Len(w) - 1) \div Group
    <3> HIDE DEF w
    <3> QED BY <1>8, <2>0, GroupedIsLaidOut
  <2> HIDE DEF h, w
  <2>2. Len(h) = n
    BY <1>8, <1>11, <2>1
  <2>3. ASSUME NEW i \in 1..n PROVE h[i] = g[i]
    <3>1. h[i] = IF InPlace(g, i) THEN Comma ELSE w[DigitAt(g, i)]
      BY <2>1, <2>2 DEF LaidOut, InPlace, DigitAt
    <3>2. g[i] = IF InPlace(g, i) THEN Comma ELSE w[DigitAt(g, i)]
      BY <1>9
    <3> QED BY <3>1, <3>2
  <2>4. h = g
    BY <2>1, <2>2, <2>3, SeqEqual
  <2> QED BY <2>4 DEF h
<1> QED BY <1>8, <1>12

------------------------------------------------------------------------------
(* An amount is its whole part and its fraction.                              *)
LEMMA ScaleType == Scale \in Nat /\ Scale >= 1 /\ Decimals \in Nat /\ Kept \in 1..Decimals
BY AmountAssumption, PowerType DEF Scale

LEMMA PartsOfAmount ==
    ASSUME NEW v \in Nat
    PROVE  /\ Whole(v) \in Seq(Digit) /\ Len(Whole(v)) \in Nat \ {0}
           /\ Fraction(v) \in Seq(Digit) /\ Len(Fraction(v)) = Decimals
           /\ Number(Whole(v)) \in Nat /\ Number(Fraction(v)) \in Nat
           /\ v = Number(Whole(v)) * Scale + Number(Fraction(v))
<1> DEFINE q == v \div Scale
           r == v % Scale
<1>1. q \in Nat /\ r \in Nat /\ r < Scale /\ v = q * Scale + r
  BY ScaleType
<1>2. Whole(v) = Digits(q) /\ Fraction(v) = Places(r, Decimals)
  BY DEF Whole, Fraction
<1> HIDE DEF q, r
<1>3. /\ Digits(q) \in Seq(Digit) /\ Len(Digits(q)) \in Nat \ {0}
      /\ Number(Digits(q)) = q
  BY <1>1, DigitsSpell
<1>4. /\ Places(r, Decimals) \in Seq(Digit) /\ Len(Places(r, Decimals)) = Decimals
      /\ Number(Places(r, Decimals)) = r
  BY <1>1, ScaleType, PlacesSpell DEF Scale
<1> QED BY <1>1, <1>2, <1>3, <1>4

LEMMA PartsOfNumber ==
    ASSUME NEW w \in Seq(Digit), NEW f \in Seq(Digit), Len(f) = Decimals
    PROVE  LET v == Number(w) * Scale + Number(f)
           IN  v \in Nat /\ v \div Scale = Number(w) /\ Fraction(v) = f
<1> DEFINE x == Number(w)
           y == Number(f)
           v == x * Scale + y
<1>1. x \in Nat /\ y \in Nat /\ y < Scale
  BY DigitsAreNumbers, NumberType, NumberIsBelow DEF Scale
<1>2. Places(y, Decimals) = f
  BY PlacesOfNumber
<1> HIDE DEF x, y
<1>3. v \div Scale = x /\ v % Scale = y /\ v \in Nat
  BY <1>1, ScaleType, Quotient
<1>4. Fraction(v) = f
  <2> HIDE DEF v
  <2> QED BY <1>2, <1>3 DEF Fraction
<1> QED BY <1>3, <1>4 DEF x, y

LEMMA PlainDigits ==
    ASSUME NEW s \in Seq(Digit)
    PROVE  /\ Plain(s) /\ WithoutCommas(s) = s /\ Comma \notin Range(s)
           /\ s \in Seq(Nat \ {Dot}) /\ s \in Seq(Nat \ {Comma})
           /\ Len(s) > 0 => CommasInPlace(s)
<1>1. Range(s) \subseteq Digit
  BY LenProperties, ElementOfSeq DEF Range
<1>2. s \in Seq(Nat \ {Dot}) /\ s \in Seq(Nat \ {Comma})
  <2>1. Digit \subseteq Nat \ {Dot} /\ Digit \subseteq Nat \ {Comma}
    BY DigitType
  <2> QED BY <2>1, SeqMonotonic
<1>3. Comma \notin Range(s)
  BY <1>1, DigitType
<1>4. WithoutCommas(s) = s
  BY <1>2, WithoutOfPlain
<1>5. ASSUME Len(s) > 0 PROVE CommasInPlace(s)
  <2>1. s # <<>> /\ s[1] \in Digit
    BY <1>5, DigitsAreNumbers, EmptySeq
  <2> QED BY <1>1, <1>3, <1>4, <2>1, DigitType DEF CommasInPlace, Plain
<1> QED BY <1>1, <1>2, <1>3, <1>4, <1>5 DEF Plain

LEMMA GroupedReads ==
    ASSUME NEW s \in Seq(Digit), Len(s) > 0
    PROVE  /\ Grouped(s) \in Seq(Nat \ {Dot}) /\ CommasInPlace(Grouped(s))
           /\ WithoutCommas(Grouped(s)) = s
<1> DEFINE g == Grouped(s)
<1>1. /\ g \in Seq(Digit \cup {Comma}) /\ LaidOut(g, s)
      /\ Len(g) \in Nat \ {0} /\ Len(g) % (Group + 1) # 0
  BY GroupedIsLaidOut
<1> HIDE DEF g
<1>2. g \in Seq(Nat \ {Dot}) /\ g \in Seq(Nat)
  <2>1. Digit \cup {Comma} \subseteq Nat \ {Dot} /\ Nat \ {Dot} \subseteq Nat
    BY DigitType
  <2> QED BY <1>1, <2>1, SeqMonotonic
<1>3. WithoutCommas(g) = s
  BY <1>1, <1>2, WithoutOfLaidOut
<1>4. ASSUME NEW i \in 1..Len(g) PROVE g[i] = Comma <=> InPlace(g, i)
  <2>1. CASE InPlace(g, i)
    BY <1>1, <2>1 DEF LaidOut
  <2>2. CASE ~InPlace(g, i)
    <3> DEFINE n == Len(g)
    <3>1. n \in Nat /\ i \in 0..n /\ i - 1 \in 0..n /\ i \in 1..n
      BY <1>1
    <3>2. DigitAt(g, i) = Ahead(n, i) /\ Ahead(n, i) = Ahead(n, i - 1) + 1
      BY <2>2, <3>1, DigitsBefore DEF InPlace, DigitAt
    <3>3. Ahead(n, i) \in 0..Cnt(n) /\ Ahead(n, i - 1) \in 0..Cnt(n)
      BY <3>1, DigitsBefore
    <3>4. Len(s) = Cnt(n) /\ g[i] = s[DigitAt(g, i)]
      BY <1>1, <2>2 DEF LaidOut
    <3>5. DigitAt(g, i) \in 1..Len(s)
      <4> HIDE DEF n
      <4>1. Ahead(n, i) >= 1 /\ Ahead(n, i) <= Len(s) /\ Ahead(n, i) \in Int
        BY <3>2, <3>3, <3>4
      <4> QED BY <3>2, <4>1, DigitsAreNumbers
    <3>6. g[i] \in Digit
      BY <3>4, <3>5, DigitsAreNumbers
    <3> QED BY <2>2, <3>6, DigitType
  <2> QED BY <2>1, <2>2
<1>5. g # <<>> /\ g[1] # Comma
  <2>1. 1 \in 1..Len(g) /\ Len(g) - 1 + 1 = Len(g)
    BY <1>1
  <2>2. ~InPlace(g, 1)
    BY <1>1, <2>1 DEF InPlace
  <2> QED BY <1>1, <1>4, <2>1, <2>2, EmptySeq
<1>6. CommasInPlace(g)
  BY <1>3, <1>4, <1>5, PlainDigits DEF CommasInPlace, InPlace
<1> QED BY <1>2, <1>3, <1>6 DEF g

(* What a text in order is taken for.                                         *)
LEMMA Reading ==
    ASSUME NEW t, NEW w \in Seq(Digit), NEW f \in Seq(Digit),
           CommasInPlace(Before(t)), WithoutCommas(Before(t)) = w,
           After(t) = f, Dot \in Range(t) => Len(f) \in 1..Decimals
    PROVE  LET v == Number(w) * Scale + Number(PadEnd(f, Decimals))
           IN  toStroops(t) = IF v > 0 THEN v ELSE Refused
<1>1. Plain(f)
  BY PlainDigits
<1> QED BY <1>1 DEF toStroops, Reads

LEMMA PlainReads ==
    ASSUME NEW v \in Nat, v > 0
    PROVE  /\ toStroops(xlmExact(v)) = v /\ xlmExact(v) # <<>>
           /\ ~AllZero(xlmExact(v))
<1> DEFINE w == Whole(v)
           F == Fraction(v)
           f == TrimZeros(F)
           t == xlmExact(v)
<1>1. /\ w \in Seq(Digit) /\ Len(w) \in Nat \ {0} /\ F \in Seq(Digit)
      /\ Len(F) = Decimals /\ Number(w) \in Nat /\ Number(F) \in Nat
      /\ v = Number(w) * Scale + Number(F)
  BY PartsOfAmount
<1>2. t = w \o (IF f = <<>> THEN <<>> ELSE <<Dot>> \o f)
  BY DEF xlmExact
<1> HIDE DEF w, F, t
<1>3. /\ f \in Seq(Digit) /\ Len(f) \in Nat /\ Len(f) <= Decimals
      /\ F = f \o Zeros(Decimals - Len(f))
  BY <1>1, DigitType, TrimType
<1>4. PadEnd(f, Decimals) = F
  <2>1. 0 \in 0..Len(F)
    BY <1>1, ScaleType
  <2> QED BY <1>1, <2>1, PadRestores
<1> HIDE DEF f
<1>5. CommasInPlace(w) /\ WithoutCommas(w) = w /\ w \in Seq(Nat \ {Dot})
  BY <1>1, PlainDigits
<1>6. Before(t) = w /\ After(t) = f /\ (Dot \in Range(t) => Len(f) \in 1..Decimals)
  <2>1. CASE f = <<>>
    <3>1. t = w
      BY <1>1, <1>2, <2>1, ConcatEmptySeq
    <3>2. Before(w) = w /\ After(w) = <<>> /\ Dot \notin Range(w)
      BY <1>5, SplitWithoutDot
    <3> QED BY <2>1, <3>1, <3>2
  <2>2. CASE f # <<>>
    <3>1. w \in Seq(Nat) /\ f \in Seq(Nat) /\ <<Dot>> \in Seq(Nat)
      BY <1>1, <1>3, DigitsAreNumbers, DigitType
    <3>2. t = w \o (<<Dot>> \o f)
      BY <1>2, <2>2
    <3>3. (w \o <<Dot>>) \o f = w \o (<<Dot>> \o f)
      BY <3>1, ConcatAssociative
    <3>4. Before(w \o <<Dot>> \o f) = w /\ After(w \o <<Dot>> \o f) = f
      BY <1>5, <3>1, SplitAtDot
    <3>5. Len(f) \in 1..Decimals
      BY <1>3, <2>2, EmptySeq
    <3>6. t = w \o <<Dot>> \o f
      BY <3>2, <3>3, Zenon
    <3> QED BY <3>4, <3>5, <3>6
  <2> QED BY <2>1, <2>2
<1>7. toStroops(t) = v
  <2>1. LET x == Number(w) * Scale + Number(PadEnd(f, Decimals))
        IN  toStroops(t) = IF x > 0 THEN x ELSE Refused
    BY <1>1, <1>3, <1>5, <1>6, Reading
  <2>2. Number(w) * Scale + Number(PadEnd(f, Decimals)) = v
    BY <1>1, <1>4
  <2> QED BY <2>1, <2>2
<1>8. ASSUME AllZero(t) PROVE FALSE
  <2>1. Range(w \o f) \subseteq {0}
    BY <1>6, <1>8 DEF AllZero
  <2>2. w \in Seq({0}) /\ f \in Seq({0})
    <3>1. /\ w \o f \in Seq(Digit) /\ Len(w \o f) = Len(w) + Len(f)
          /\ \A i \in 1..(Len(w) + Len(f)) :
                (w \o f)[i] = IF i <= Len(w) THEN w[i] ELSE f[i - Len(w)]
      BY <1>1, <1>3, ConcatProperties
    <3>2. \A i \in 1..(Len(w) + Len(f)) : (w \o f)[i] = 0
      <4>1. DOMAIN (w \o f) = 1..(Len(w) + Len(f))
        BY <3>1, LenProperties
      <4> DEFINE wf == w \o f
      <4>2. Range(wf) \subseteq {0} /\ DOMAIN wf = 1..(Len(w) + Len(f))
        BY <2>1, <4>1
      <4> HIDE DEF wf
      <4>3. \A i \in 1..(Len(w) + Len(f)) : wf[i] = 0
        BY <4>2 DEF Range
      <4> QED BY <4>3 DEF wf
    <3>3. \A i \in 1..Len(w) : w[i] = 0
      <4> SUFFICES ASSUME NEW i \in 1..Len(w) PROVE w[i] = 0
        OBVIOUS
      <4>1. i \in 1..(Len(w) + Len(f)) /\ i <= Len(w)
        BY <1>1, <1>3
      <4> QED BY <3>1, <3>2, <4>1
    <3>4. \A i \in 1..Len(f) : f[i] = 0
      <4> SUFFICES ASSUME NEW i \in 1..Len(f) PROVE f[i] = 0
        OBVIOUS
      <4>1. /\ Len(w) + i \in 1..(Len(w) + Len(f)) /\ ~(Len(w) + i <= Len(w))
            /\ (Len(w) + i) - Len(w) = i
        BY <1>1, <1>3
      <4> QED BY <3>1, <3>2, <4>1
    <3> QED BY <1>1, <1>3, <3>3, <3>4, OnlyZeros
  <2>3. F \in Seq({0})
    <3>1. Decimals - Len(f) \in Nat
      BY <1>3, ScaleType
    <3>2. f \o Zeros(Decimals - Len(f)) \in Seq({0})
      BY <2>2, <3>1, ZerosType, ConcatProperties
    <3> QED BY <1>3, <3>2
  <2>4. Number(w) = 0 /\ Number(F) = 0
    BY <2>2, <2>3, NumberOfZeros
  <2>5. v = 0 * Scale + 0
    BY <1>1, <2>4
  <2> QED BY <2>5, ScaleType
<1>9. t # <<>>
  <2> SUFFICES ASSUME t = <<>> PROVE FALSE
    OBVIOUS
  <2>1. <<>> \in Seq(Nat \ {Dot})
    OBVIOUS
  <2>2. Before(<<>>) = <<>>
    BY <2>1, SplitWithoutDot
  <2>3. w = <<>>
    BY <1>6, <2>2
  <2> QED BY <1>1, <2>3
<1> QED BY <1>7, <1>8, <1>9 DEF t

LEMMA GroupedIsRead ==
    ASSUME NEW v \in Nat, v > 0
    PROVE  toStroops(formatXLMExact(v)) = v
<1> DEFINE w == Whole(v)
           F == Fraction(v)
           f == PadEnd(TrimZeros(F), Kept)
           t == formatXLMExact(v)
<1>1. /\ w \in Seq(Digit) /\ Len(w) \in Nat \ {0} /\ F \in Seq(Digit)
      /\ Len(F) = Decimals /\ Number(w) \in Nat /\ Number(F) \in Nat
      /\ v = Number(w) * Scale + Number(F)
  BY PartsOfAmount
<1>2. t = Grouped(w) \o <<Dot>> \o f
  BY DEF formatXLMExact
<1> HIDE DEF w, F, t
<1>3. PadEnd(f, Decimals) = F /\ f \in Seq(Digit) /\ Len(f) \in 1..Decimals
  <2>1. Kept \in 0..Len(F) /\ Kept \in 1..Decimals
    BY <1>1, ScaleType
  <2>2. /\ PadEnd(f, Len(F)) = F /\ f \in Seq(Digit) /\ Len(f) \in Kept..Len(F)
    BY <1>1, <2>1, PadRestores
  <2> HIDE DEF f
  <2>3. Len(f) \in 1..Decimals
    BY <1>1, <2>1, <2>2, ScaleType
  <2> QED BY <1>1, <2>2, <2>3
<1> HIDE DEF f
<1>4. /\ Grouped(w) \in Seq(Nat \ {Dot}) /\ CommasInPlace(Grouped(w))
      /\ WithoutCommas(Grouped(w)) = w
  BY <1>1, GroupedReads
<1>5. Before(t) = Grouped(w) /\ After(t) = f
  <2>1. f \in Seq(Nat)
    BY <1>3, DigitsAreNumbers
  <2> DEFINE g == Grouped(w)
  <2> HIDE DEF g
  <2>2. Before(g \o <<Dot>> \o f) = g /\ After(g \o <<Dot>> \o f) = f
    BY <1>4, <2>1, SplitAtDot DEF g
  <2> QED BY <1>2, <2>2 DEF g
<1>6. LET x == Number(w) * Scale + Number(PadEnd(f, Decimals))
      IN  toStroops(t) = IF x > 0 THEN x ELSE Refused
  BY <1>1, <1>3, <1>4, <1>5, Reading
<1>7. Number(w) * Scale + Number(PadEnd(f, Decimals)) = v
  BY <1>1, <1>3
<1>8. toStroops(t) = v
  BY <1>6, <1>7
<1> QED BY <1>8 DEF t

(* Max cuts the fraction off, so it asks for no more than there is.           *)
LEMMA MaxAsksForLess ==
    ASSUME NEW v \in Nat
    PROVE  toStroops(MaxButton(v)) <= v
<1> DEFINE w == Whole(v)
           F == Fraction(v)
           f == SubSeq(F, 1, Kept)
           r == SubSeq(F, Kept + 1, Decimals)
           t == MaxButton(v)
<1>1. /\ w \in Seq(Digit) /\ Len(w) \in Nat \ {0} /\ F \in Seq(Digit)
      /\ Len(F) = Decimals /\ Number(w) \in Nat /\ Number(F) \in Nat
      /\ v = Number(w) * Scale + Number(F)
  BY PartsOfAmount
<1>2. t = WithoutCommas(Grouped(w) \o <<Dot>> \o f)
  BY DEF MaxButton, formatXLM
<1> HIDE DEF w, F, t
<1>3. /\ f \in Seq(Digit) /\ Len(f) = Kept /\ Kept \in 1..Decimals
      /\ Kept \in Nat /\ Decimals \in Nat /\ Kept <= Decimals
  <2>1. Kept \in 0..Len(F)
    BY <1>1, ScaleType
  <2> QED BY <1>1, <2>1, ScaleType, Cut
<1>4. /\ Number(F) = Number(f) * Power(Decimals - Kept) + Number(r)
      /\ Number(r) \in Nat /\ Number(f) \in Nat
  <2>1. Kept \in 0..Len(F)
    BY <1>1, <1>3
  <2> QED BY <1>1, <2>1, NumberOfCut
<1> HIDE DEF f, r
<1>5. Number(PadEnd(f, Decimals)) = Number(f) * Power(Decimals - Kept)
  <2> DEFINE k == Decimals - Kept
  <2>1. k \in Nat /\ f \in Seq(Nat)
    BY <1>3, DigitsAreNumbers
  <2>2. CASE k = 0
    <3>1. PadEnd(f, Decimals) = f
      BY <1>3, <2>2 DEF PadEnd
    <3>2. Power(k) = 1
      BY <2>2, PowerOfNone
    <3> QED BY <1>4, <3>1, <3>2
  <2>3. CASE k # 0
    <3>1. PadEnd(f, Decimals) = f \o Zeros(k)
      BY <1>3, <2>3 DEF PadEnd
    <3> HIDE DEF k
    <3>2. Zeros(k) \in Seq({0}) /\ Len(Zeros(k)) = k /\ Zeros(k) \in Seq(Nat)
      BY <2>1, ZerosType, SeqMonotonic
    <3>3. Number(f \o Zeros(k)) = Number(f) * Power(Len(Zeros(k))) + Number(Zeros(k))
      BY <2>1, <3>2, NumberOfConcat
    <3>4. Number(Zeros(k)) = 0 /\ Power(k) \in Nat
      BY <2>1, <3>2, NumberOfZeros, PowerType
    <3>5. Number(f \o Zeros(k)) = Number(f) * Power(k)
      BY <1>4, <3>2, <3>3, <3>4
    <3> QED BY <3>1, <3>5 DEF k
  <2> QED BY <2>2, <2>3
<1>6. t = w \o <<Dot>> \o f
  <2> DEFINE g == Grouped(w)
             a == g \o <<Dot>>
  <2>1. g \in Seq(Nat) /\ WithoutCommas(g) = w
    BY <1>1, GroupedReads, SeqMonotonic
  <2>2. <<Dot>> \in Seq(Nat \ {Comma}) /\ <<Dot>> \in Seq(Nat)
    BY DigitType
  <2>3. WithoutCommas(<<Dot>>) = <<Dot>> /\ WithoutCommas(f) = f /\ f \in Seq(Nat)
    BY <1>3, <2>2, WithoutOfPlain, PlainDigits, DigitsAreNumbers
  <2> HIDE DEF g
  <2>4. a \in Seq(Nat) /\ WithoutCommas(a) = WithoutCommas(g) \o WithoutCommas(<<Dot>>)
    BY <2>1, <2>2, WithoutOfConcat, ConcatProperties
  <2> HIDE DEF a
  <2>5. WithoutCommas(a \o f) = WithoutCommas(a) \o WithoutCommas(f)
    BY <2>3, <2>4, WithoutOfConcat
  <2>6. t = WithoutCommas(a \o f)
    BY <1>2 DEF a, g
  <2> QED BY <2>1, <2>3, <2>4, <2>5, <2>6, Zenon
<1>7. Before(t) = w /\ After(t) = f
  <2>1. w \in Seq(Nat \ {Dot}) /\ f \in Seq(Nat)
    BY <1>1, <1>3, PlainDigits, DigitsAreNumbers
  <2>2. Before(w \o <<Dot>> \o f) = w /\ After(w \o <<Dot>> \o f) = f
    BY <2>1, SplitAtDot
  <2> QED BY <1>6, <2>2
<1>8. CommasInPlace(w) /\ WithoutCommas(w) = w
  BY <1>1, PlainDigits
<1> DEFINE x == Number(w) * Scale + Number(PadEnd(f, Decimals))
<1>9. toStroops(t) = IF x > 0 THEN x ELSE Refused
  BY <1>1, <1>3, <1>7, <1>8, Reading
<1>10. x <= v /\ x \in Int
  <2> DEFINE y == Number(f) * Power(Decimals - Kept)
             z == Number(w) * Scale
  <2>1. y \in Nat /\ z \in Nat
    <3>1. Power(Decimals - Kept) \in Nat
      BY <1>3, PowerType
    <3> QED BY SMTT(30), <1>1, <1>4, <3>1, ScaleType
  <2>2. x = z + y /\ v = z + (y + Number(r))
    BY <1>1, <1>4, <1>5
  <2> HIDE DEF x, y, z
  <2> QED BY <1>4, <2>1, <2>2
<1>11. toStroops(t) <= v
  <2> HIDE DEF x
  <2> QED BY <1>9, <1>10 DEF Refused
<1> QED BY <1>11 DEF t

------------------------------------------------------------------------------
(* What is accepted.                                                          *)
LEMMA RestOfConcat ==
    ASSUME NEW S, NEW a \in Seq(S), NEW b \in Seq(S)
    PROVE  /\ SubSeq(a \o b, 1, Len(a)) = a
           /\ SubSeq(a \o b, Len(a) + 1, Len(a \o b)) = b
<1> DEFINE t == a \o b
           x == SubSeq(t, 1, Len(a))
           y == SubSeq(t, Len(a) + 1, Len(t))
<1>1. /\ t \in Seq(S) /\ Len(t) = Len(a) + Len(b) /\ Len(a) \in Nat /\ Len(b) \in Nat
      /\ \A i \in 1..(Len(a) + Len(b)) :
            t[i] = IF i <= Len(a) THEN a[i] ELSE b[i - Len(a)]
  BY ConcatProperties, LenProperties
<1> HIDE DEF t
<1>2. Len(a) \in 0..Len(t)
  BY <1>1
<1>3. /\ x \in Seq(S) /\ Len(x) = Len(a) /\ \A j \in 1..Len(a) : x[j] = t[j]
      /\ y \in Seq(S) /\ Len(y) = Len(t) - Len(a)
      /\ \A j \in 1..(Len(t) - Len(a)) : y[j] = t[Len(a) + j]
  BY <1>1, <1>2, Cut
<1> HIDE DEF x, y
<1>4. ASSUME NEW j \in 1..Len(a) PROVE x[j] = a[j]
  BY <1>1, <1>3
<1>5. ASSUME NEW j \in 1..Len(b) PROVE y[j] = b[j]
  <2>1. /\ j \in 1..(Len(t) - Len(a)) /\ Len(a) + j \in 1..(Len(a) + Len(b))
        /\ ~(Len(a) + j <= Len(a)) /\ (Len(a) + j) - Len(a) = j
    BY <1>1
  <2> QED BY <1>1, <1>3, <2>1
<1>6. x = a
  BY <1>3, <1>4, SeqEqual
<1>7. y = b
  <2>1. Len(y) = Len(b)
    BY <1>1, <1>3
  <2> QED BY <1>3, <1>5, <2>1, SeqEqual
<1> QED BY <1>6, <1>7 DEF x, y, t

(* The zeros in front of a whole part, but for its last digit, and what comes *)
(* after them.                                                                *)
LEMMA FrontZeros ==
    ASSUME NEW h \in Seq(Digit \cup {Comma}), CommasInPlace(h)
    PROVE  \E n \in 0..Len(h) :
              /\ n < Len(h) /\ \A j \in 1..n : h[j] \in {0, Comma}
              /\ h[n + 1] \in Digit /\ (h[n + 1] # 0 \/ n + 1 = Len(h))
<1> DEFINE l == Len(h)
           N == {n \in Nat : n < l /\ (n = l - 1 \/ h[n + 1] \notin {0, Comma})}
<1>1. l \in Nat \ {0} /\ \A i \in 1..l : h[i] \in Digit \cup {Comma}
  <2>1. h # <<>>
    BY DEF CommasInPlace
  <2> QED BY <2>1, LenProperties, EmptySeq, ElementOfSeq
<1> HIDE DEF l
<1>2. PICK n \in N : \A m \in N : n <= m
  <2>1. N \subseteq Nat /\ l - 1 \in N
    BY <1>1
  <2> HIDE DEF N
  <2>2. N # {}
    BY <2>1
  <2> QED BY <2>1, <2>2, LeastNat
<1>3. n \in Nat /\ n < l /\ (n = l - 1 \/ h[n + 1] \notin {0, Comma})
  BY <1>2
<1>4. ASSUME NEW j \in 1..n PROVE h[j] \in {0, Comma}
  <2>1. j - 1 \in Nat /\ j - 1 < n /\ (j - 1) + 1 = j
    BY <1>3
  <2>2. j - 1 \notin N
    <3> HIDE DEF N
    <3> QED BY <1>2, <1>3, <2>1
  <2> QED BY <1>1, <1>3, <2>1, <2>2
<1>5. h[n + 1] # Comma
  <2>1. CASE n = l - 1
    <3> SUFFICES ASSUME h[l] = Comma PROVE FALSE
      BY <1>1, <2>1
    <3>1. l \in 1..l /\ DOMAIN h = 1..l /\ l - l + 1 = 1
      BY <1>1, LenProperties DEF l
    <3>2. Comma \in Range(h)
      BY <3>1 DEF Range
    <3>3. h[l] = Comma <=> (l - l + 1) % (Group + 1) = 0
      BY <3>1, <3>2 DEF CommasInPlace, l
    <3>4. 1 % (Group + 1) = 0
      BY <3>1, <3>3
    <3>5. (0 * (Group + 1) + 1) % (Group + 1) = 1
      BY GroupType, Quotient
    <3>6. 0 * (Group + 1) + 1 = 1
      BY GroupType
    <3> QED BY <3>4, <3>5, <3>6
  <2>2. CASE n # l - 1
    BY <1>3, <2>2
  <2> QED BY <2>1, <2>2
<1>6. n + 1 \in 1..l /\ h[n + 1] \in Digit
  <2>1. n + 1 \in 1..l
    BY <1>1, <1>3
  <2> QED BY <1>1, <1>5, <2>1
<1>7. h[n + 1] # 0 \/ n + 1 = l
  BY <1>1, <1>3
<1>8. n \in 0..l
  BY <1>1, <1>3
<1> QED BY <1>3, <1>4, <1>6, <1>7, <1>8 DEF l

(* A whole part without its front zeros is what the page would print.         *)
LEMMA WholePart ==
    ASSUME NEW h \in Seq(Digit \cup {Comma}), CommasInPlace(h)
    PROVE  \E n \in 0..Len(h) :
              LET g == SubSeq(h, n + 1, Len(h))
                  w == Digits(Number(WithoutCommas(h)))
              IN  /\ Number(WithoutCommas(SubSeq(h, 1, n))) = 0
                  /\ g \in {w, Grouped(w)}
<1> DEFINE C == Digit \cup {Comma}
<1>0. C \subseteq Nat /\ C \ {Comma} = Digit /\ {0, Comma} \subseteq Nat
      /\ {0, Comma} \ {Comma} = {0}
  BY DigitType
<1>1. PICK n \in 0..Len(h) :
          /\ n < Len(h) /\ \A j \in 1..n : h[j] \in {0, Comma}
          /\ h[n + 1] \in Digit /\ (h[n + 1] # 0 \/ n + 1 = Len(h))
  BY FrontZeros
<1> DEFINE p == SubSeq(h, 1, n)
           g == SubSeq(h, n + 1, Len(h))
           wp == WithoutCommas(p)
           wg == WithoutCommas(g)
<1>2. /\ p \in Seq(C) /\ Len(p) = n /\ g \in Seq(C) /\ Len(g) = Len(h) - n
      /\ \A j \in 1..n : p[j] = h[j]
      /\ \A j \in 1..(Len(h) - n) : g[j] = h[n + j]
      /\ h = p \o g /\ Len(h) \in Nat /\ n \in Nat
  <2>1. Len(h) \in Nat /\ n \in Nat /\ h \in Seq(C) /\ n \in 0..Len(h)
    BY <1>1, LenProperties
  <2> HIDE DEF C
  <2>2. /\ SubSeq(h, 1, n) \in Seq(C) /\ Len(SubSeq(h, 1, n)) = n
        /\ \A j \in 1..n : SubSeq(h, 1, n)[j] = h[j]
        /\ SubSeq(h, n + 1, Len(h)) \in Seq(C)
        /\ Len(SubSeq(h, n + 1, Len(h))) = Len(h) - n
        /\ \A j \in 1..(Len(h) - n) : SubSeq(h, n + 1, Len(h))[j] = h[n + j]
        /\ h = SubSeq(h, 1, n) \o SubSeq(h, n + 1, Len(h))
    BY <2>1, Cut
  <2> QED BY <2>1, <2>2 DEF p, g
<1> HIDE DEF p, g
<1>3. p \in Seq({0, Comma})
  <2>1. \A j \in 1..n : p[j] \in {0, Comma}
    BY <1>1, <1>2
  <2>2. p \in [1..n -> {0, Comma}]
    <3>1. p = [j \in 1..n |-> p[j]]
      BY <1>2, LenProperties
    <3> QED BY <2>1, <3>1
  <2> QED BY <1>2, <2>2, SeqDef
<1>4. wp \in Seq({0}) /\ Number(wp) = 0
  BY <1>0, <1>3, WithoutType, NumberOfZeros
<1>5. p \in Seq(Nat) /\ g \in Seq(Nat)
  BY <1>0, <1>2, SeqMonotonic
<1>6. wg \in Seq(Digit)
  BY <1>0, <1>2, WithoutType
<1>7. Number(WithoutCommas(h)) = Number(wg)
  <2>1. WithoutCommas(p \o g) = wp \o wg
    BY <1>5, WithoutOfConcat
  <2> HIDE DEF wp, wg
  <2>2. wp \in Seq(Nat) /\ wg \in Seq(Nat)
    BY <1>4, <1>6, DigitsAreNumbers, SeqMonotonic
  <2>3. Number(wp \o wg) = Number(wp) * Power(Len(wg)) + Number(wg)
    BY <2>2, NumberOfConcat
  <2>4. Power(Len(wg)) \in Nat /\ Number(wg) \in Nat
    BY <2>2, LenProperties, PowerType, NumberType
  <2>5. Number(wp \o wg) = Number(wg)
    BY <1>4, <2>3, <2>4
  <2> QED BY <1>2, <2>1, <2>5, Zenon
<1>8. /\ Len(g) \in Nat \ {0} /\ g[1] = h[n + 1] /\ g[1] \in Digit
      /\ g[1] # 0 \/ Len(g) = 1
  <2>1. 1 \in 1..(Len(h) - n) /\ Len(g) \in Nat \ {0}
    BY <1>1, <1>2
  <2>2. g[1] = h[n + 1]
    BY <1>2, <2>1
  <2>3. n + 1 = Len(h) => Len(g) = 1
    BY <1>2
  <2> QED BY <1>1, <2>1, <2>2, <2>3
<1>9. Len(wg) > 0 /\ (wg[1] # 0 \/ Len(wg) = 1)
  <2> DEFINE a == SubSeq(g, 1, 1)
             b == SubSeq(g, 2, Len(g))
             wb == WithoutCommas(b)
  <2>1. /\ a \in Seq(C) /\ Len(a) = 1 /\ a[1] = g[1] /\ b \in Seq(C)
        /\ Len(b) = Len(g) - 1 /\ g = a \o b
    <3>1. 1 \in 0..Len(g) /\ 1 + 1 = 2 /\ 1 \in 1..1
      BY <1>8
    <3> QED BY <1>2, <3>1, Cut
  <2> HIDE DEF a, b
  <2>2. a \in Seq(Digit) /\ a = <<g[1]>>
    <3>1. a = <<g[1]>>
      BY <2>1
    <3> QED BY <1>8, <3>1
  <2>3. WithoutCommas(a) = a /\ a \in Seq(Nat) /\ b \in Seq(Nat)
    BY <1>0, <2>1, <2>2, PlainDigits, DigitsAreNumbers, SeqMonotonic
  <2>4. WithoutCommas(a \o b) = WithoutCommas(a) \o wb
    BY <2>3, WithoutOfConcat
  <2>5. wb \in Seq(Digit)
    BY <1>0, <2>1, WithoutType
  <2> HIDE DEF wb, wg
  <2>6. wg = a \o wb
    BY <2>1, <2>3, <2>4, Zenon DEF wg
  <2>7. /\ Len(a \o wb) = 1 + Len(wb) /\ Len(wb) \in Nat /\ (a \o wb)[1] = g[1]
    <3>0. a \in Seq(Digit) /\ wb \in Seq(Digit)
      BY <2>2, <2>5
    <3>1. Len(wb) \in Nat /\ Len(a) = 1
      BY <2>1, <3>0, LenProperties
    <3>2. /\ Len(a \o wb) = Len(a) + Len(wb)
          /\ \A i \in 1..(Len(a) + Len(wb)) :
                (a \o wb)[i] = IF i <= Len(a) THEN a[i] ELSE wb[i - Len(a)]
      BY <3>0, ConcatProperties
    <3>3. 1 \in 1..(Len(a) + Len(wb)) /\ 1 <= Len(a)
      BY <3>1
    <3>4. (a \o wb)[1] = a[1]
      BY <3>2, <3>3
    <3>5. a[1] = g[1]
      BY <2>1
    <3>6. Len(a \o wb) = 1 + Len(wb)
      BY <3>1, <3>2
    <3> QED BY <3>1, <3>4, <3>5, <3>6, Zenon
  <2>8. CASE g[1] # 0
    BY <2>6, <2>7, <2>8
  <2>9. CASE Len(g) = 1
    <3>1. b = <<>>
      BY <2>1, <2>9, EmptySeq
    <3>2. wb = <<>>
      BY <3>1, WithoutOfNone DEF wb
    <3>3. Len(wb) = 0
      BY <3>2
    <3> QED BY <2>6, <2>7, <3>3
  <2> QED BY <1>8, <2>8, <2>9
<1>10. Digits(Number(wg)) = wg
  <2> HIDE DEF wg
  <2> QED BY <1>6, <1>9, DigitsOfNumber
<1>11. g \in {wg, Grouped(wg)}
  <2>1. CASE Comma \notin Range(g)
    <3>1. \A i \in 1..Len(g) : g[i] \in Nat \ {Comma}
      BY <1>5, <2>1, LenProperties, ElementOfSeq DEF Range
    <3>2. g \in Seq(Nat \ {Comma})
      <4>1. g \in [1..Len(g) -> Nat \ {Comma}]
        <5>1. g = [i \in 1..Len(g) |-> g[i]]
          BY <1>2, LenProperties
        <5> QED BY <3>1, <5>1
      <4> QED BY <1>8, <4>1, SeqDef
    <3>3. wg = g
      BY <3>2, WithoutOfPlain
    <3> QED BY <3>3
  <2>2. CASE Comma \in Range(g)
    <3>1. PICK k \in 1..Len(g) : g[k] = Comma
      BY <1>2, <2>2, LenProperties DEF Range
    <3>2. Comma \in Range(h)
      <4>1. n + k \in 1..Len(h) /\ h[n + k] = Comma
        BY <1>1, <1>2, <3>1
      <4>2. DOMAIN h = 1..Len(h)
        BY LenProperties
      <4> QED BY <4>1, <4>2 DEF Range
    <3>3. ASSUME NEW i \in 1..Len(g) PROVE g[i] = Comma <=> InPlace(g, i)
      <4>1. n + i \in 1..Len(h) /\ g[i] = h[n + i]
        BY <1>1, <1>2
      <4>2. Len(h) - (n + i) + 1 = Len(g) - i + 1
        BY <1>1, <1>2
      <4>3. h[n + i] = Comma <=> (Len(h) - (n + i) + 1) % (Group + 1) = 0
        BY <3>2, <4>1 DEF CommasInPlace
      <4> QED BY <4>1, <4>2, <4>3 DEF InPlace
    <3>4. Len(g) > 0 /\ g[1] # Comma
      BY <1>8, DigitType
    <3>5. Grouped(wg) = g
      BY <1>2, <3>3, <3>4, GroupedIsTheOnly
    <3> QED BY <3>5
  <2> QED BY <2>1, <2>2
<1>12. LET w == Digits(Number(WithoutCommas(h)))
       IN  Number(WithoutCommas(p)) = 0 /\ g \in {w, Grouped(w)}
  <2> HIDE DEF g, p
  <2> QED BY <1>4, <1>7, <1>10, <1>11
<1> QED BY <1>12 DEF p, g

(* Decimals filled up to all of them.                                         *)
LEMMA PaddedOut ==
    ASSUME NEW f \in Seq(Digit), Len(f) \in 0..Decimals
    PROVE  /\ PadEnd(f, Decimals) \in Seq(Digit) /\ Len(PadEnd(f, Decimals)) = Decimals
           /\ SubSeq(PadEnd(f, Decimals), 1, Len(f)) = f
           /\ TrimZeros(PadEnd(f, Decimals)) = TrimZeros(f)
<1> DEFINE k == Decimals - Len(f)
           z == Zeros(k)
           t == f \o z
<1>1. k \in Nat /\ Len(f) \in Nat /\ Len(f) <= Decimals
  BY ScaleType
<1>2. z \in Seq(Digit) /\ Len(z) = k
  <2> HIDE DEF k
  <2>1. z \in Seq({0}) /\ Len(z) = k
    BY <1>1, ZerosType
  <2>2. {0} \subseteq Digit
    BY DigitType
  <2> QED BY <2>1, <2>2, SeqMonotonic
<1>3. PadEnd(f, Decimals) = t
  <2>1. CASE Len(f) < Decimals
    BY <2>1 DEF PadEnd
  <2>2. CASE ~(Len(f) < Decimals)
    <3>1. Len(z) = 0
      BY <1>1, <1>2, <2>2, ScaleType
    <3>2. z = <<>>
      <4> HIDE DEF z
      <4> QED BY <1>2, <3>1, EmptySeq
    <3>3. t = f
      <4> HIDE DEF z
      <4> QED BY <3>2, ConcatEmptySeq
    <3>4. PadEnd(f, Decimals) = f
      BY <2>2 DEF PadEnd
    <3> QED BY <3>3, <3>4, Zenon
  <2> QED BY <2>1, <2>2
<1>4. TrimZeros(t) = TrimZeros(f)
  <2>1. f \in Seq(Nat)
    BY DigitsAreNumbers
  <2> HIDE DEF k
  <2> QED BY <1>1, <2>1, TrimOfPadded
<1> HIDE DEF z
<1>5. t \in Seq(Digit) /\ Len(t) = Len(f) + Len(z)
  BY <1>2, ConcatProperties
<1>6. Len(t) = Decimals
  BY <1>1, <1>2, <1>5, ScaleType
<1>7. SubSeq(t, 1, Len(f)) = f
  BY <1>2, RestOfConcat
<1> QED BY <1>3, <1>4, <1>5, <1>6, <1>7, Zenon

(* A text that is accepted is one that could have been printed, but for zeros *)
(* in front and at the end.                                                   *)
LEMMA AcceptedIsPrinted ==
    ASSUME NEW t \in Seq(Digit \cup {Comma, Dot}), toStroops(t) # Refused
    PROVE  \E n \in 0..Len(t), m \in 0..Decimals :
              LET v    == toStroops(t)
                  rest == SubSeq(t, n + 1, Len(t))
                  frac == SubSeq(Fraction(v), 1, m)
                  tail == IF m = 0 THEN <<>> ELSE <<Dot>> \o frac
              IN  /\ Number(WithoutCommas(SubSeq(t, 1, n))) = 0
                  /\ TrimZeros(Fraction(v)) = TrimZeros(frac)
                  /\ rest \in {Whole(v) \o tail, Grouped(Whole(v)) \o tail}
<1> DEFINE h == Before(t)
           f == After(t)
           d == WithoutCommas(h)
           F == PadEnd(f, Decimals)
           v == toStroops(t)
<1>1. Reads(t) /\ v = Number(d) * Scale + Number(F)
  BY DEF toStroops
<1>2. CommasInPlace(h) /\ Plain(f) /\ Plain(d)
  BY <1>1 DEF Reads, CommasInPlace
<1>3. h \in Seq(Digit \cup {Comma}) /\ f \in Seq(Digit \cup {Comma, Dot})
  <2>1. Digit \cup {Comma, Dot} \subseteq Nat
    BY DigitType
  <2>2. h \in Seq((Digit \cup {Comma, Dot}) \ {Dot})
    BY <2>1, TextIsSplit
  <2>3. (Digit \cup {Comma, Dot}) \ {Dot} \subseteq Digit \cup {Comma}
    OBVIOUS
  <2>4. h \in Seq(Digit \cup {Comma})
    <3> HIDE DEF h
    <3> QED BY <2>2, <2>3, SeqMonotonic
  <2> QED BY <2>1, <2>4, TextIsSplit
<1>4. d \in Seq(Digit)
  <2>1. Digit \cup {Comma} \subseteq Nat /\ (Digit \cup {Comma}) \ {Comma} = Digit
    BY DigitType
  <2> HIDE DEF h
  <2> QED BY <1>3, <2>1, WithoutType
<1>5. f \in Seq(Digit)
  <2> HIDE DEF f
  <2>1. \A i \in 1..Len(f) : f[i] \in Digit
    BY <1>2, <1>3, LenProperties DEF Plain, Range
  <2>2. f \in [1..Len(f) -> Digit] /\ Len(f) \in Nat
    <3>1. f = [i \in 1..Len(f) |-> f[i]] /\ Len(f) \in Nat
      BY <1>3, LenProperties
    <3> QED BY <2>1, <3>1
  <2> QED BY <2>2, SeqDef
<1>6. /\ Dot \in Range(t) => t = h \o <<Dot>> \o f /\ Len(f) \in 1..Decimals
      /\ Dot \notin Range(t) => t = h /\ f = <<>>
  <2>1. Digit \cup {Comma, Dot} \subseteq Nat
    BY DigitType
  <2> QED BY <1>1, <2>1, TextIsSplit DEF Reads
<1>7. Len(f) \in 0..Decimals /\ (Len(f) = 0 <=> Dot \notin Range(t))
  <2>1. Decimals \in Nat /\ Len(<<>>) = 0
    BY ScaleType
  <2> HIDE DEF f, h
  <2> QED BY <1>6, <2>1
<1> HIDE DEF h, f
<1>8. /\ F \in Seq(Digit) /\ Len(F) = Decimals /\ SubSeq(F, 1, Len(f)) = f
      /\ TrimZeros(F) = TrimZeros(f)
  BY <1>5, <1>7, PaddedOut
<1> HIDE DEF d, F, v
<1>9. v \div Scale = Number(d) /\ Fraction(v) = F
  BY <1>1, <1>4, <1>8, PartsOfNumber
<1> DEFINE w == Digits(Number(d))
<1>10. Whole(v) = w
  BY <1>9 DEF Whole
<1>11. PICK n \in 0..Len(h) :
          /\ Number(WithoutCommas(SubSeq(h, 1, n))) = 0
          /\ SubSeq(h, n + 1, Len(h)) \in {w, Grouped(w)}
  BY <1>2, <1>3, WholePart DEF d
<1> DEFINE p == SubSeq(h, 1, n)
           g == SubSeq(h, n + 1, Len(h))
           tail == IF Len(f) = 0 THEN <<>> ELSE <<Dot>> \o f
           C == Digit \cup {Comma, Dot}
<1>12. /\ p \in Seq(C) /\ g \in Seq(C) /\ h = p \o g /\ Len(p) = n
       /\ h \in Seq(C) /\ f \in Seq(C) /\ <<Dot>> \in Seq(C)
  <2>1. h \in Seq(C) /\ f \in Seq(C) /\ <<Dot>> \in Seq(C)
    <3>1. Digit \cup {Comma} \subseteq C /\ Digit \subseteq C /\ Dot \in C
      OBVIOUS
    <3> HIDE DEF C
    <3>2. <<Dot>> \in Seq(C)
      BY <3>1
    <3> QED BY <1>3, <1>5, <3>1, <3>2, SeqMonotonic
  <2> HIDE DEF C
  <2>2. SubSeq(h, 1, n) \in Seq(C) /\ SubSeq(h, n + 1, Len(h)) \in Seq(C)
        /\ h = SubSeq(h, 1, n) \o SubSeq(h, n + 1, Len(h))
        /\ Len(SubSeq(h, 1, n)) = n
    BY ZenonT(60), <2>1, Cut
  <2> QED BY <2>1, <2>2
<1> HIDE DEF C
<1>13. tail \in Seq(C) /\ t = h \o tail
  <2>1. CASE Len(f) = 0
    <3>1. tail = <<>> /\ t = h
      BY <1>6, <1>7, <2>1
    <3>2. h \o <<>> = h /\ <<>> \in Seq(C)
      BY <1>12, ConcatEmptySeq
    <3> QED BY <3>1, <3>2, Zenon
  <2>2. CASE Len(f) # 0
    <3>1. tail = <<Dot>> \o f /\ t = (h \o <<Dot>>) \o f
      BY <1>6, <1>7, <2>2
    <3>2. (h \o <<Dot>>) \o f = h \o (<<Dot>> \o f)
      <4> DEFINE q == <<Dot>>
      <4>1. h \in Seq(C) /\ q \in Seq(C) /\ f \in Seq(C)
        BY <1>12
      <4> HIDE DEF q
      <4>2. (h \o q) \o f = h \o (q \o f)
        BY SMTT(30), <4>1, ConcatAssociative
      <4> QED BY <4>2 DEF q
    <3>3. <<Dot>> \o f \in Seq(C)
      BY <1>12, ConcatProperties
    <3> QED BY <3>1, <3>2, <3>3, Zenon
  <2> QED BY <2>1, <2>2
<1> HIDE DEF tail, p, g
<1>14. t = p \o (g \o tail) /\ g \o tail \in Seq(C)
  <2>1. (p \o g) \o tail = p \o (g \o tail)
    BY SMTT(30), <1>12, <1>13, ConcatAssociative
  <2>2. g \o tail \in Seq(C)
    BY <1>12, <1>13, ConcatProperties
  <2> QED BY <1>12, <1>13, <2>1, <2>2, Zenon
<1>15. /\ SubSeq(t, 1, n) = p /\ SubSeq(t, n + 1, Len(t)) = g \o tail
       /\ Len(t) = n + Len(g \o tail) /\ Len(g \o tail) \in Nat
  <2> DEFINE y == g \o tail
  <2>0. y \in Seq(C) /\ t = p \o y
    BY <1>14
  <2> HIDE DEF y
  <2>1. SubSeq(p \o y, 1, Len(p)) = p
        /\ SubSeq(p \o y, Len(p) + 1, Len(p \o y)) = y
    BY <1>12, <2>0, RestOfConcat
  <2>2. Len(p \o y) = Len(p) + Len(y) /\ Len(y) \in Nat
    BY <1>12, <2>0, ConcatProperties, LenProperties
  <2>3. /\ SubSeq(t, 1, n) = p /\ SubSeq(t, n + 1, Len(t)) = y
        /\ Len(t) = n + Len(y) /\ Len(y) \in Nat
    BY <1>12, <2>0, <2>1, <2>2
  <2> QED BY <2>3 DEF y
<1>16. n \in 0..Len(t)
  <2>1. n \in Nat
    BY <1>3, LenProperties
  <2> QED BY <1>15, <2>1
<1>17. SubSeq(Fraction(v), 1, Len(f)) = f
  BY <1>8, <1>9
<1>18. TrimZeros(Fraction(v)) = TrimZeros(f)
  BY <1>8, <1>9
<1>19. Number(WithoutCommas(SubSeq(t, 1, n))) = 0
  BY <1>11, <1>15 DEF p
<1>20. g \o tail \in {Whole(v) \o tail, Grouped(Whole(v)) \o tail}
  <2>1. g \in {Whole(v), Grouped(Whole(v))}
    BY <1>10, <1>11 DEF g
  <2> QED BY <2>1
<1>21. tail = IF Len(f) = 0 THEN <<>> ELSE <<Dot>> \o SubSeq(Fraction(v), 1, Len(f))
  BY <1>17 DEF tail
<1> DEFINE Printed(i, j) ==
               LET rest == SubSeq(t, i + 1, Len(t))
                   frac == SubSeq(Fraction(v), 1, j)
                   end  == IF j = 0 THEN <<>> ELSE <<Dot>> \o frac
               IN  /\ Number(WithoutCommas(SubSeq(t, 1, i))) = 0
                   /\ TrimZeros(Fraction(v)) = TrimZeros(frac)
                   /\ rest \in {Whole(v) \o end, Grouped(Whole(v)) \o end}
<1>22. Printed(n, Len(f))
  BY <1>15, <1>17, <1>18, <1>19, <1>20, <1>21
<1> HIDE DEF Printed
<1>23. \E i \in 0..Len(t), j \in 0..Decimals : Printed(i, j)
  BY <1>7, <1>16, <1>22
<1> QED BY <1>23 DEF Printed, v

------------------------------------------------------------------------------
BoxTyped == amount \in Nat /\ text \in Seq(Digit \cup {Comma, Dot})

LEMMA PrefillType == \A v \in Nat : Prefill(v) \in Seq(Digit \cup {Comma, Dot})
<1> DEFINE C == Digit \cup {Comma, Dot}
<1> SUFFICES ASSUME NEW v \in Nat PROVE Prefill(v) \in Seq(C)
  OBVIOUS
<1> DEFINE w == Whole(v)
           f == TrimZeros(Fraction(v))
<1>1. w \in Seq(Digit) /\ f \in Seq(Digit)
  <2>1. Digit \subseteq Nat /\ Whole(v) \in Seq(Digit) /\ Fraction(v) \in Seq(Digit)
    BY PartsOfAmount, DigitType
  <2> QED BY <2>1, TrimType
<1>2. Prefill(v) \in {<<>>, w \o <<>>, w \o (<<Dot>> \o f)}
  BY DEF Prefill, xlmExact
<1> HIDE DEF w, f
<1>3. w \in Seq(C) /\ f \in Seq(C) /\ <<Dot>> \in Seq(C) /\ <<>> \in Seq(C)
  <2>1. Digit \subseteq C /\ Dot \in C
    OBVIOUS
  <2> HIDE DEF C
  <2>2. <<Dot>> \in Seq(C) /\ <<>> \in Seq(C)
    BY <2>1
  <2> QED BY <1>1, <2>1, <2>2, SeqMonotonic
<1> HIDE DEF C
<1>4. <<Dot>> \o f \in Seq(C)
  BY <1>3, ConcatProperties
<1>5. w \o <<>> \in Seq(C) /\ w \o (<<Dot>> \o f) \in Seq(C)
  <2> DEFINE y == <<Dot>> \o f
  <2>1. y \in Seq(C)
    BY <1>4
  <2> HIDE DEF y
  <2>2. w \o <<>> \in Seq(C) /\ w \o y \in Seq(C)
    BY <1>3, <2>1, ConcatProperties
  <2> QED BY <2>2 DEF y
<1> QED BY <1>2, <1>3, <1>5

LEMMA BoxStaysTyped == BoxSpec => []BoxTyped
<1>1. BoxInit => BoxTyped
  BY AmountAssumption, PrefillType DEF BoxInit, BoxTyped
<1>2. BoxTyped /\ [BoxNext]_box => BoxTyped'
  <2> SUFFICES ASSUME BoxTyped, [BoxNext]_box PROVE BoxTyped'
    OBVIOUS
  <2>1. CASE Clear
    BY <2>1 DEF Clear, BoxTyped
  <2>2. CASE SaveLimit
    <3>1. amount' \in Nat
      BY <2>2, AmountAssumption DEF SaveLimit
    <3> QED BY <2>2, <3>1, PrefillType DEF SaveLimit, BoxTyped
  <2>3. ASSUME NEW c \in Digit \cup {Comma, Dot}, Typed(c) PROVE BoxTyped'
    <3> DEFINE C == Digit \cup {Comma, Dot}
    <3>1. text \in Seq(C) /\ c \in C /\ text' = Append(text, c) /\ amount' \in Nat
      BY <2>3 DEF Typed, BoxTyped
    <3>2. text' \in Seq(C)
      <4> HIDE DEF C
      <4> QED BY <3>1, AppendProperties
    <3> QED BY <3>1, <3>2 DEF BoxTyped
  <2>4. CASE UNCHANGED box
    BY <2>4 DEF box, BoxTyped
  <2> QED BY <2>1, <2>2, <2>3, <2>4 DEF BoxNext
<1> QED BY <1>1, <1>2, PTL DEF BoxSpec

(* Every amount of every vault survives the box, the line item and Max: what  *)
(* web/lib/stellar.ts writes it reads back, for every base, number of         *)
(* decimals and width of a group.                                             *)
THEOREM AmountsReadBack == BoxSpec => []ReadsBack
<1>1. BoxTyped => ReadsBack
  <2> SUFFICES ASSUME amount \in Nat PROVE ReadsBack
    BY DEF BoxTyped
  <2>1. limit(Prefill(amount)) = amount
    <3>1. CASE amount > 0
      BY <3>1, PlainReads DEF limit, Prefill
    <3>2. CASE amount = 0
      BY <3>2 DEF limit, Prefill
    <3> QED BY <3>1, <3>2
  <2>2. amount > 0 => toStroops(formatXLMExact(amount)) = amount
    BY GroupedIsRead
  <2>3. toStroops(MaxButton(amount)) <= amount
    BY MaxAsksForLess
  <2> QED BY <2>1, <2>2, <2>3 DEF ReadsBack
<1> QED BY <1>1, BoxStaysTyped, PTL

(* Whatever is typed, toStroops takes it for an amount only when the page     *)
(* could have printed it for that amount (stellar.ts:115), again for every    *)
(* base, number of decimals and width of a group, and texts of any length.    *)
THEOREM AmountsNeverGuessed == BoxSpec => []NothingGuessed
<1>1. BoxTyped => NothingGuessed
  BY AcceptedIsPrinted DEF BoxTyped, NothingGuessed
<1> QED BY <1>1, BoxStaysTyped, PTL
==============================================================================
