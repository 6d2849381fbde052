--------------------------- MODULE SpendingCapProofs ---------------------------
(* The spending cap for every cap, every window length and every amount: the  *)
(* two numbers the contract stores tell exactly what was paid, and the bound  *)
(* they put on any stretch of ledgers.                                        *)
EXTENDS SpendingCap, TLAPS

(* What the properties are proved under: a vault deployed with this code, the *)
(* one window length under whatever caps, and products that fit.              *)
Steady(len) ==
    /\ Legacies = {<<>>}
    /\ 2 * len <= MaxU32
    /\ \A p \in Policies : WindowLen(p) = len /\ p.spendingCap * len <= MaxI128

------------------------------------------------------------------------------
(* Arithmetic.                                                                *)
LEMMA ProductsGrow ==
    ASSUME NEW a \in Nat, NEW b \in Nat, NEW c \in Nat, NEW d \in Nat, a <= b, c <= d
    PROVE  a * c \in Nat /\ b * d \in Nat /\ a * c <= b * d
<1>1. a * c \in Nat /\ b * c \in Nat /\ b * d \in Nat
  OBVIOUS
<1>2. a * c <= b * c
  OBVIOUS
<1>3. b * c <= b * d
  OBVIOUS
<1> QED BY <1>1, <1>2, <1>3

LEMMA RoundedDown ==
    ASSUME NEW a \in Nat, NEW n \in Nat \ {0}
    PROVE  LET q == a \div n IN q \in Nat /\ q * n <= a /\ a <= q * n + n - 1
BY SMT

(* A stretch of d + 1 ledgers that ends e ledgers into a window: s was paid   *)
(* in the window, t of the p of the window before belongs to the stretch.     *)
LEMMA StretchIsBounded ==
    ASSUME NEW len \in Nat \ {0}, NEW e \in 0..len - 1, NEW d \in Nat, e <= d,
           NEW h \in Nat, NEW s \in Nat, NEW p \in 0..h, NEW t \in 0..p,
           s + ((p * (len - e)) \div len) <= h
    PROVE  (t + s) * len <= h * (len + d) + len - 1
<1> DEFINE left  == p * (len - e)
           q     == left \div len
<1>1. left \in Nat /\ t * (len - e) \in Nat /\ t * (len - e) <= left
  BY ProductsGrow
<1>2. q \in Nat /\ left <= q * len + len - 1
  BY <1>1, RoundedDown
<1>3. t * e <= h * d /\ t * e \in Nat /\ h * d \in Nat
  BY ProductsGrow
<1>4. (s + q) * len <= h * len
  <2>1. s + q \in Nat /\ s + q <= h
    BY <1>2
  <2> HIDE DEF q
  <2> QED BY <2>1, ProductsGrow
<1>5. (s + q) * len = s * len + q * len
  BY <1>2
<1>6. t * (len - e) = t * len - t * e
  OBVIOUS
<1>7. (t + s) * len = t * len + s * len /\ h * (len + d) = h * len + h * d
  OBVIOUS
<1>8. s * len \in Nat /\ t * len \in Nat /\ q * len \in Nat /\ h * len \in Nat
  BY <1>2
<1> HIDE DEF left, q
<1> DEFINE sl == s * len
           tl == t * len
           ql == q * len
           hl == h * len
           te == t * e
           hd == h * d
<1> HIDE DEF sl, tl, ql, hl, te, hd
<1>9. tl - te <= ql + len - 1 /\ te <= hd /\ sl + ql <= hl
      /\ sl \in Nat /\ tl \in Nat /\ ql \in Nat /\ hl \in Nat /\ te \in Nat /\ hd \in Nat
  BY <1>1, <1>2, <1>3, <1>4, <1>5, <1>6, <1>8 DEF sl, tl, ql, hl, te, hd
<1>10. tl + sl <= hl + hd + len - 1
  BY <1>9
<1> QED BY <1>7, <1>10 DEF sl, tl, hl, hd

------------------------------------------------------------------------------
(* The invariant.                                                             *)

(* What had been paid never shrinks, and nothing is paid ahead of time.       *)
HistoryOK ==
    /\ \A k, l \in 0..MaxLedger : k <= l => paidBy[k] <= paidBy[l]
    /\ \A l \in ledger..MaxLedger : paidBy[l] = paidBy[ledger]

(* A window that tells what was paid in it and in the length before.          *)
Tells(w, len) ==
    /\ w.len = len /\ w.opened <= ledger
    /\ w.spent <= highest /\ w.prev <= highest
    /\ w.spent = Total(w.opened, ledger)
    /\ w.prev = Total(SubU32(w.opened, len), w.opened - 1)

(* Nothing has been charged since the stored window ran out.                  *)
WindowOK(len) ==
    /\ window = NoWindow => \A l \in 0..MaxLedger : paidBy[l] = 0
    /\ window # NoWindow =>
            /\ Tells(window, len)
            /\ \A k, l \in 0..MaxLedger :
                    k >= window.opened + len - 1 /\ l >= k => paidBy[l] = paidBy[k]

CapsOK ==
    /\ policy.spendingCap <= highest
    /\ \E p \in Policies : highest = p.spendingCap

CapInv(len) == TypeOK /\ HistoryOK /\ WindowOK(len) /\ CapsOK

(* The constants, as numbers.                                                 *)
LEMMA Numbers ==
    ASSUME TypeOK, NEW len, Steady(len)
    PROVE  /\ len \in Nat \ {0} /\ 2 * len <= MaxU32
           /\ ledger \in 0..MaxLedger /\ MaxLedger \in 0..MaxU32
           /\ MaxU32 \in Nat /\ MaxI128 \in Nat
           /\ policy.spendingCap \in Nat /\ WindowLen(policy) = len
           /\ highest \in Nat
           /\ \A l \in 0..MaxLedger : paidBy[l] \in Nat
<1>1. policy \in Policies /\ policy \in [spendingCap : I128, capWindow : U32]
  BY CapAssumption DEF TypeOK
<1>2. len = WindowLen(policy) /\ len \in 1..MaxU32
  BY <1>1, WidthAssumption DEF Steady, WindowLen, U32
<1> QED BY <1>1, <1>2, CapAssumption, WidthAssumption DEF TypeOK, Steady, I128, U32

LEMMA TotalsAreNatural ==
    ASSUME TypeOK, HistoryOK, NEW len, Steady(len),
           NEW first \in 0..MaxLedger, NEW last \in first - 1..MaxLedger
    PROVE  Total(first, last) \in Nat
<1>1. Before(first) \in Nat /\ Before(last + 1) \in Nat /\ Before(first) <= Before(last + 1)
  BY Numbers DEF Before, HistoryOK
<1> QED BY <1>1 DEF Total

(* What window_now makes of the stored window tells the same, in the ledger   *)
(* of the call: rolling and forgetting lose nothing.                          *)
LEMMA NowTells ==
    ASSUME NEW len, Steady(len), CapInv(len)
    PROVE  LET w == WindowNow(window, legacy, policy, ledger)
           IN  w \in CapWindowRecord /\ Tells(w, len) /\ ledger < w.opened + len
<1> DEFINE w       == StoredWindow(window, legacy, policy, ledger)
           now     == WindowNow(window, legacy, policy, ledger)
           elapsed == SubU32(ledger, w.opened)
<1> SUFFICES now \in CapWindowRecord /\ Tells(now, len) /\ ledger < now.opened + len
  OBVIOUS
<1> USE DEF CapInv
<1>1. /\ len \in Nat \ {0} /\ 2 * len <= MaxU32 /\ WindowLen(policy) = len
      /\ ledger \in 0..MaxLedger /\ MaxLedger \in 0..MaxU32 /\ MaxU32 \in Nat /\ MaxI128 \in Nat
      /\ highest \in Nat /\ \A l \in 0..MaxLedger : paidBy[l] \in Nat
  BY Numbers
<1>2. CASE window = NoWindow
  <2> DEFINE start == (ledger \div len) * len
  <2>1. start \in 0..ledger /\ ledger < start + len
    <3>1. start <= ledger /\ ledger <= start + len - 1 /\ ledger \div len \in Nat
      <4>1. ledger \in Nat
        BY <1>1
      <4> QED BY <1>1, <4>1, RoundedDown
    <3>2. start \in Nat
      BY <1>1, <3>1
    <3> HIDE DEF start
    <3> QED BY <1>1, <3>1, <3>2
  <2>2. w = [opened |-> start, spent |-> 0, prev |-> 0, len |-> len]
    <3>1. \A b : LegacySpent(legacy, b) = 0
      BY DEF TypeOK, Steady, LegacySpent
    <3> QED BY <1>1, <1>2, <3>1 DEF StoredWindow
  <2> HIDE DEF w, start
  <2>3. elapsed < len /\ elapsed \in Nat
    BY <1>1, <2>1, <2>2 DEF SubU32
  <2>4. SatU32(2 * w.len) = 2 * len
    BY <1>1, <2>2 DEF SatU32
  <2>5. now = w
    <3>1. ~(elapsed >= SatU32(2 * w.len)) /\ ~(elapsed >= w.len)
      BY <1>1, <2>2, <2>3, <2>4
    <3> QED BY <3>1 DEF WindowNow, w
  <2>6. \A l \in 0..MaxLedger : paidBy[l] = 0
    BY <1>2 DEF WindowOK
  <2>7. Total(start, ledger) = 0 /\ Total(SubU32(start, len), start - 1) = 0
    BY <1>1, <2>1, <2>6 DEF Total, Before, SubU32
  <2>8. w \in CapWindowRecord
    BY <1>1, <2>1, <2>2 DEF CapWindowRecord, U32, I128
  <2> QED BY <1>1, <2>1, <2>2, <2>5, <2>7, <2>8 DEF Tells
<1>3. CASE window # NoWindow
  <2> DEFINE o == window.opened
  <2>1. w = window
    BY <1>3 DEF StoredWindow
  <2>2. window \in CapWindowRecord /\ Tells(window, len) /\ o \in Nat /\ o <= ledger
        /\ window.spent \in Nat /\ window.prev \in Nat /\ window.spent \in I128
    BY <1>3 DEF TypeOK, WindowOK, Tells, CapWindowRecord, U32, I128
  <2>3. \A k, l \in 0..MaxLedger : k >= o + len - 1 /\ l >= k => paidBy[l] = paidBy[k]
    BY <1>3 DEF WindowOK
  <2>4. elapsed = ledger - o /\ SatU32(2 * w.len) = 2 * len /\ w.len = len
    BY <1>1, <2>1, <2>2 DEF SubU32, SatU32, Tells
  <2>5. CASE elapsed >= 2 * len
    <3>1. now = [opened |-> ledger, spent |-> 0, prev |-> 0, len |-> len]
      BY <1>1, <2>4, <2>5 DEF WindowNow
    <3>2. Total(ledger, ledger) = 0
      <4>1. ledger - 1 \in 0..MaxLedger /\ ledger - 1 >= o + len - 1
        BY <1>1, <2>2, <2>4, <2>5
      <4>2. paidBy[ledger] = paidBy[ledger - 1]
        BY <1>1, <2>3, <4>1
      <4> QED BY <1>1, <4>1, <4>2 DEF Total, Before
    <3>3. Total(SubU32(ledger, len), ledger - 1) = 0
      <4>1. ledger - len - 1 \in 0..MaxLedger /\ ledger - len - 1 >= o + len - 1
            /\ ledger - 1 \in 0..MaxLedger /\ ledger - 1 >= ledger - len - 1
            /\ SubU32(ledger, len) = ledger - len
        BY <1>1, <2>2, <2>4, <2>5 DEF SubU32
      <4>2. paidBy[ledger - 1] = paidBy[ledger - len - 1]
        BY <2>3, <4>1
      <4> QED BY <1>1, <4>1, <4>2 DEF Total, Before
    <3>4. now \in CapWindowRecord
      BY <1>1, <3>1 DEF CapWindowRecord, U32, I128
    <3> HIDE DEF now
    <3> QED BY <1>1, <3>1, <3>2, <3>3, <3>4 DEF Tells
  <2>6. CASE ~(elapsed >= 2 * len) /\ elapsed >= len
    <3>1. o + len <= ledger /\ ledger < o + len + len /\ SatU32(o + len) = o + len
      BY <1>1, <2>2, <2>4, <2>6 DEF SatU32
    <3>2. now = [opened |-> o + len, spent |-> 0, prev |-> window.spent, len |-> len]
      BY <1>1, <2>1, <2>4, <2>6, <3>1 DEF WindowNow
    <3>3. paidBy[ledger] = paidBy[o + len - 1]
      BY <1>1, <2>2, <2>3, <3>1
    <3>4. Total(o + len, ledger) = 0
      BY <1>1, <2>2, <3>1, <3>3 DEF Total, Before
    <3>5. SubU32(o + len, len) = o
      BY <1>1, <2>2 DEF SubU32
    <3>6. Total(o, o + len - 1) = Total(o, ledger)
      BY <1>1, <2>2, <3>1, <3>3 DEF Total, Before
    <3>7. now \in CapWindowRecord
      BY <1>1, <2>2, <3>1, <3>2 DEF CapWindowRecord, U32, I128
    <3> HIDE DEF now
    <3> QED BY <1>1, <2>2, <3>1, <3>2, <3>4, <3>5, <3>6, <3>7 DEF Tells
  <2>7. CASE ~(elapsed >= len)
    <3>1. now = window
      <4>1. ~(elapsed >= 2 * len)
        BY <1>1, <2>2, <2>4, <2>7
      <4> QED BY <2>1, <2>4, <2>7, <4>1 DEF WindowNow
    <3> QED BY <1>1, <2>2, <2>4, <2>7, <3>1
  <2> QED BY <2>5, <2>6, <2>7
<1> QED BY <1>2, <1>3

------------------------------------------------------------------------------
(* A payment.                                                                 *)

(* What charge_window accepts: the window with the payment, and what is left  *)
(* of the window before, stay within the cap in force.                        *)
LEMMA AcceptedIsCovered ==
    ASSUME NEW len, Steady(len), CapInv(len), NEW amount \in Amounts,
           policy.spendingCap # 0,
           CanCharge(window, legacy, policy, ledger, amount)
    PROVE  LET w == WindowNow(window, legacy, policy, ledger)
           IN  w.spent + amount
                + ((w.prev * (len - (ledger - w.opened))) \div len) <= policy.spendingCap
<1> DEFINE w    == WindowNow(window, legacy, policy, ledger)
           e    == ledger - w.opened
           used == WindowUsed(window, legacy, policy, ledger)
           left == w.prev * (len - e)
           q    == left \div len
<1> SUFFICES w.spent + amount + q <= policy.spendingCap
  OBVIOUS
<1>1. /\ len \in Nat \ {0} /\ 2 * len <= MaxU32 /\ WindowLen(policy) = len
      /\ ledger \in Nat /\ MaxI128 \in Nat /\ highest \in Nat
      /\ policy.spendingCap \in Nat
  BY Numbers DEF CapInv
<1>2. amount \in Nat /\ amount > 0
  BY CapAssumption, WidthAssumption DEF I128
<1>3. w \in CapWindowRecord /\ Tells(w, len) /\ ledger < w.opened + len
  BY NowTells
<1>4. /\ w.spent \in Nat /\ w.prev \in Nat /\ w.prev <= highest /\ w.len = len
      /\ w.opened \in Nat /\ w.opened <= ledger
  BY <1>3 DEF CapWindowRecord, Tells, I128, U32
<1>5. e \in 0..len - 1 /\ AtMost(SubU32(ledger, w.opened), w.len) = e
  <2> HIDE DEF w
  <2> QED BY <1>1, <1>3, <1>4 DEF AtMost, SubU32
<1>6. used + amount <= MaxI128 /\ used + amount <= policy.spendingCap
  BY DEF CanCharge
<1>7. highest * len <= MaxI128
  BY DEF CapInv, CapsOK, Steady
<1>8. left \in Nat /\ left <= MaxI128
  <2>1. left \in Nat /\ left <= highest * len /\ highest * len \in Nat
    <3>1. len - e \in Nat /\ len - e <= len /\ len \in Nat
      BY <1>1, <1>5
    <3> HIDE DEF w, e
    <3> QED BY <1>1, <1>4, <3>1, ProductsGrow
  <2> HIDE DEF left
  <2> QED BY <1>1, <1>7, <2>1
<1>9. q \in Nat
  <2> HIDE DEF left
  <2> QED BY <1>1, <1>8, RoundedDown
<1>10. used = SatI128(w.spent + q)
  <2>1. CASE w.prev = 0
    <3>1. left = 0 /\ q = 0
      <4>1. len - e \in Nat
        BY <1>1, <1>5
      <4>2. left = 0
        <5> HIDE DEF w, e
        <5> QED BY <2>1, <4>1
      <4> HIDE DEF left
      <4> QED BY <1>1, <4>2
    <3>2. used = w.spent
      BY <2>1 DEF WindowUsed
    <3>3. w.spent <= MaxI128
      BY <1>3 DEF CapWindowRecord, I128
    <3> HIDE DEF w, q, used, left
    <3> QED BY <1>1, <1>4, <3>1, <3>2, <3>3 DEF SatI128
  <2>2. CASE w.prev # 0
    <3>1. used = SatI128(w.spent + (SatI128(w.prev * (w.len - AtMost(SubU32(ledger, w.opened), w.len))) \div w.len))
      BY <1>1, <1>4, <2>2 DEF WindowUsed
    <3>2. used = SatI128(w.spent + (SatI128(left) \div len))
      BY <1>4, <1>5, <3>1
    <3>3. SatI128(left) = left
      <4> HIDE DEF left
      <4> QED BY <1>1, <1>8 DEF SatI128
    <3> QED BY <3>2, <3>3
  <2> QED BY <2>1, <2>2
<1> HIDE DEF w, q, used
<1> QED BY <1>1, <1>2, <1>4, <1>6, <1>9, <1>10 DEF SatI128

(* The history after a payment.                                               *)
LEMMA PaidHistory ==
    ASSUME NEW len, Steady(len), CapInv(len), NEW amount \in Amounts,
           policy.spendingCap # 0, Charge(amount)
    PROVE  /\ amount \in Nat \ {0}
           /\ paidBy' \in [0..MaxLedger -> Nat]
           /\ UNCHANGED <<ledger, policy, legacy, highest>>
           /\ HistoryOK'
           /\ \A first \in 0..ledger : Total(first, ledger)' = Total(first, ledger) + amount
           /\ \A first \in 0..ledger : \A last \in first - 1..ledger - 1 :
                    Total(first, last)' = Total(first, last)
<1>1. /\ ledger \in 0..MaxLedger /\ MaxLedger \in Nat
      /\ \A l \in 0..MaxLedger : paidBy[l] \in Nat
  BY Numbers DEF CapInv
<1>2. amount \in Nat \ {0}
  BY CapAssumption, WidthAssumption DEF I128
<1>3. /\ paidBy' = [l \in 0..MaxLedger |->
                        IF l < ledger THEN paidBy[l] ELSE paidBy[l] + amount]
      /\ UNCHANGED <<ledger, policy, legacy, highest>>
  BY DEF Charge
<1>4. paidBy' \in [0..MaxLedger -> Nat]
  BY <1>1, <1>2, <1>3
<1>5. \A l \in 0..MaxLedger : paidBy'[l] = IF l < ledger THEN paidBy[l] ELSE paidBy[l] + amount
  BY <1>3
<1>6. HistoryOK'
  <2>1. ASSUME NEW k \in 0..MaxLedger, NEW l \in 0..MaxLedger, k <= l
        PROVE  paidBy'[k] <= paidBy'[l]
    <3>1. paidBy[k] <= paidBy[l]
      BY <2>1 DEF CapInv, HistoryOK
    <3> QED BY <1>1, <1>2, <1>5, <2>1, <3>1
  <2>2. ASSUME NEW l \in ledger..MaxLedger
        PROVE  paidBy'[l] = paidBy'[ledger]
    <3>1. paidBy[l] = paidBy[ledger]
      BY DEF CapInv, HistoryOK
    <3> QED BY <1>1, <1>2, <1>5, <3>1
  <2> QED BY <1>3, <2>1, <2>2 DEF HistoryOK
<1>7. ASSUME NEW first \in 0..ledger
      PROVE  /\ Total(first, ledger)' = Total(first, ledger) + amount
             /\ \A last \in first - 1..ledger - 1 : Total(first, last)' = Total(first, last)
  <2>1. Before(first)' = Before(first)
    BY <1>1, <1>3, <1>5 DEF Before
  <2>2. Before(ledger + 1)' = Before(ledger + 1) + amount
    BY <1>1, <1>3, <1>5 DEF Before
  <2>3. \A last \in first - 1..ledger - 1 : Before(last + 1)' = Before(last + 1)
    BY <1>1, <1>3, <1>5 DEF Before
  <2>4. Before(first) \in Nat /\ Before(ledger + 1) \in Nat
    BY <1>1 DEF Before
  <2> QED BY <1>2, <1>3, <2>1, <2>2, <2>3, <2>4 DEF Total
<1> QED BY <1>2, <1>3, <1>4, <1>6, <1>7

LEMMA ChargeKeepsTheBook ==
    ASSUME NEW len, Steady(len), CapInv(len), NEW amount \in Amounts,
           policy.spendingCap # 0, Charge(amount)
    PROVE  CapInv(len)'
<1>1. /\ len \in Nat \ {0} /\ ledger \in 0..MaxLedger /\ MaxLedger \in Nat
      /\ highest \in Nat /\ policy.spendingCap \in Nat /\ MaxI128 \in Nat
      /\ \A l \in 0..MaxLedger : paidBy[l] \in Nat
  BY Numbers DEF CapInv
<1>2. /\ amount \in Nat \ {0} /\ paidBy' \in [0..MaxLedger -> Nat]
      /\ UNCHANGED <<ledger, policy, legacy, highest>> /\ HistoryOK'
      /\ \A first \in 0..ledger : Total(first, ledger)' = Total(first, ledger) + amount
      /\ \A first \in 0..ledger : \A last \in first - 1..ledger - 1 :
                    Total(first, last)' = Total(first, last)
  BY PaidHistory
<1>3. PICK w : w = WindowNow(window, legacy, policy, ledger)
  OBVIOUS
<1> DEFINE o     == w.opened
           spent == w.spent + amount
           left  == (w.prev * (len - (ledger - o))) \div len
<1>4. w \in CapWindowRecord /\ Tells(w, len) /\ ledger < o + len
  BY <1>3, NowTells
<1>5. o \in Nat /\ o <= ledger /\ w.spent \in Nat /\ w.prev \in Nat /\ w.len = len
  BY <1>4 DEF CapWindowRecord, Tells, U32, I128
<1>6. window' = [w EXCEPT !.spent = spent] /\ w.spent + amount <= MaxI128
  BY <1>3 DEF Charge, Charged, CanCharge
<1>7. spent + left <= policy.spendingCap /\ left \in Nat
  <2>1. spent + left <= policy.spendingCap
    BY <1>3, AcceptedIsCovered DEF Charge
  <2>2. w.prev * (len - (ledger - o)) \in Nat
    <3> DEFINE rest == len - (ledger - o)
    <3>1. rest \in Nat
      BY <1>1, <1>4, <1>5
    <3> HIDE DEF rest
    <3>2. w.prev * rest \in Nat
      BY <1>5, <3>1
    <3> QED BY <3>2 DEF rest
  <2>3. left \in Nat
    BY <1>1, <2>2, RoundedDown
  <2> QED BY <2>1, <2>3
<1> HIDE DEF left
<1>8. spent \in I128 /\ spent <= highest
  <2>1. policy.spendingCap <= highest
    BY DEF CapInv, CapsOK
  <2> QED BY <1>1, <1>2, <1>5, <1>6, <1>7, <2>1 DEF I128
<1> HIDE DEF spent
<1>9. /\ window' \in CapWindowRecord /\ window' # NoWindow
      /\ window'.opened = o /\ window'.spent = spent
      /\ window'.prev = w.prev /\ window'.len = len
  <2>1. window' \in CapWindowRecord
    BY <1>4, <1>6, <1>8 DEF CapWindowRecord
  <2> QED BY <1>4, <1>5, <1>6, <2>1, WidthAssumption DEF CapWindowRecord
<1>10. Total(o, ledger)' = spent /\ Total(SubU32(o, len), o - 1)' = w.prev
  <2>1. Total(o, ledger) = w.spent /\ Total(SubU32(o, len), o - 1) = w.prev
    BY <1>4 DEF Tells
  <2>2. SubU32(o, len) \in 0..o
    BY <1>1, <1>5 DEF SubU32
  <2>3. PICK a \in 0..o : a = SubU32(o, len)
    BY <2>2
  <2>4. Total(a, o - 1)' = Total(a, o - 1)
    BY <1>1, <1>2, <1>5
  <2>5. Total(o, ledger)' = Total(o, ledger) + amount
    BY <1>1, <1>2, <1>5
  <2> QED BY <2>1, <2>3, <2>4, <2>5 DEF spent
<1>11. Tells(window, len)'
  <2>1. w.prev <= highest
    BY <1>4 DEF Tells
  <2> QED BY <1>2, <1>5, <1>8, <1>9, <1>10, <2>1 DEF Tells
<1>12. ASSUME NEW k \in 0..MaxLedger, NEW l \in 0..MaxLedger, k >= o + len - 1, l >= k
       PROVE  paidBy'[l] = paidBy'[k]
  <2>1. k \in ledger..MaxLedger /\ l \in ledger..MaxLedger
    BY <1>1, <1>4, <1>5, <1>12
  <2> QED BY <1>2, <2>1 DEF HistoryOK
<1>13. WindowOK(len)'
  BY <1>9, <1>11, <1>12 DEF WindowOK
<1>14. TypeOK' /\ CapsOK'
  BY <1>2, <1>9 DEF CapInv, TypeOK, CapsOK
<1> QED BY <1>2, <1>13, <1>14 DEF CapInv

(* The bound for the stretches that end in the ledger of the payment; for all *)
(* others nothing changes.                                                    *)
LEMMA ChargeKeepsTheBound ==
    ASSUME NEW len, Steady(len), CapInv(len), FadeBound, NEW amount \in Amounts,
           policy.spendingCap # 0, Charge(amount)
    PROVE  FadeBound'
<1>1. /\ len \in Nat \ {0} /\ ledger \in 0..MaxLedger /\ MaxLedger \in Nat
      /\ highest \in Nat /\ policy.spendingCap \in Nat
      /\ WindowLen(policy) = len
  BY Numbers DEF CapInv
<1>2. /\ amount \in Nat \ {0}
      /\ UNCHANGED <<ledger, policy, legacy, highest>>
      /\ \A first \in 0..ledger : Total(first, ledger)' = Total(first, ledger) + amount
      /\ \A first \in 0..ledger : \A last \in first - 1..ledger - 1 :
                    Total(first, last)' = Total(first, last)
  BY PaidHistory
<1>3. ASSUME NEW first \in 0..ledger, NEW last \in first..ledger, last - first < len, last # ledger
      PROVE  Total(first, last)' * len <= highest * (len + last - first) + len - 1
  <2>1. Total(first, last) * len <= highest * (len + last - first) + len - 1
    BY <1>1, <1>3 DEF FadeBound
  <2>2. last \in first - 1..ledger - 1
    BY <1>1, <1>3
  <2> QED BY <1>2, <2>1, <2>2
<1>4. ASSUME NEW first \in 0..ledger, ledger - first < len
      PROVE  Total(first, ledger)' * len <= highest * (len + (ledger - first)) + len - 1
  <2>1. PICK w : w = WindowNow(window, legacy, policy, ledger)
    OBVIOUS
  <2> DEFINE o == w.opened
             e == ledger - o
             s == w.spent + amount
  <2>2. w \in CapWindowRecord /\ Tells(w, len) /\ ledger < o + len
    BY <2>1, NowTells
  <2>3. /\ o \in Nat /\ o <= ledger /\ w.spent \in Nat /\ w.prev \in Nat
        /\ w.prev <= highest
        /\ Total(o, ledger) = w.spent /\ Total(SubU32(o, len), o - 1) = w.prev
    BY <2>2 DEF CapWindowRecord, Tells, U32, I128
  <2>4. s + ((w.prev * (len - e)) \div len) <= highest
    <3>1. s + ((w.prev * (len - e)) \div len) <= policy.spendingCap
      BY <2>1, AcceptedIsCovered DEF Charge
    <3>2. policy.spendingCap <= highest
      BY DEF CapInv, CapsOK
    <3>3. (w.prev * (len - e)) \div len \in Int /\ s \in Int
      <4>1. len - e \in Int
        BY <1>1, <2>3
      <4> HIDE DEF e
      <4> QED BY <1>1, <1>2, <2>3, <4>1
    <3> DEFINE q == (w.prev * (len - e)) \div len
    <3> HIDE DEF q, s
    <3> QED BY <1>1, <3>1, <3>2, <3>3 DEF q
  <2>5. e \in 0..len - 1 /\ s \in Nat /\ w.prev \in 0..highest
    BY <1>1, <1>2, <2>2, <2>3
  <2>6. ASSUME NEW t \in 0..w.prev, NEW d \in Nat, e <= d
        PROVE  (t + s) * len <= highest * (len + d) + len - 1
    <3> HIDE DEF e, s
    <3> QED BY <1>1, <2>4, <2>5, <2>6, StretchIsBounded
  <2>7. CASE first >= o
    <3>1. Total(first, ledger)' = Total(first, ledger) + amount
      BY <1>2
    <3>2. Total(first, ledger) \in Nat /\ Total(first, ledger) <= w.spent
      <4>1. Total(o, first - 1) \in Nat /\ Total(first, ledger) \in Nat
        BY <1>1, <1>4, <2>3, <2>7, TotalsAreNatural DEF CapInv
      <4>2. Total(o, ledger) = Total(o, first - 1) + Total(first, ledger)
        BY <4>1, <1>1, <1>4, <2>3, <2>7, Numbers DEF Total, Before, CapInv
      <4> QED BY <2>3, <4>1, <4>2
    <3>3. Total(first, ledger)' \in Nat /\ Total(first, ledger)' <= highest
      <4>1. (w.prev * (len - e)) \div len \in Nat
        <5>1. len - e \in Nat
          BY <1>1, <2>5
        <5> DEFINE left == w.prev * (len - e)
        <5>2. left \in Nat
          <6> HIDE DEF e
          <6> QED BY <2>3, <5>1
        <5> HIDE DEF left
        <5>3. left \div len \in Nat
          BY <1>1, <5>2
        <5> QED BY <5>3 DEF left
      <4> DEFINE q == (w.prev * (len - e)) \div len
      <4> HIDE DEF q
      <4>2. q \in Nat /\ s + q <= highest
        BY <2>4, <4>1 DEF q
      <4> QED BY <1>1, <1>2, <2>3, <3>1, <3>2, <4>2
    <3>4. PICK total : total = Total(first, ledger)'
      OBVIOUS
    <3>5. total * len <= highest * (len + (ledger - first))
      <4>1. len + (ledger - first) \in Nat /\ len <= len + (ledger - first) /\ len \in Nat
        BY <1>1
      <4> QED BY <1>1, <3>3, <3>4, <4>1, ProductsGrow
    <3>6. highest * (len + (ledger - first)) \in Nat /\ total * len \in Nat
      BY <1>1, <3>3, <3>4
    <3> QED BY <1>1, <3>4, <3>5, <3>6
  <2>8. CASE first < o
    <3> DEFINE t == Total(first, o - 1)
               a == SubU32(o, len)
    <3>1. a \in 0..first
      BY <1>1, <1>4, <2>2, <2>3, <2>8 DEF SubU32
    <3>2. t \in Nat /\ t <= w.prev
      <4>1. t \in Nat /\ Total(a, first - 1) \in Nat
        BY <1>1, <2>3, <2>8, <3>1, TotalsAreNatural DEF CapInv
      <4>2. Total(a, o - 1) = Total(a, first - 1) + t
        BY <1>1, <1>4, <2>3, <2>8, <3>1, <4>1, Numbers DEF Total, Before, CapInv
      <4> HIDE DEF t, a
      <4> QED BY <2>3, <4>1, <4>2 DEF a
    <3>3. Total(first, ledger)' = t + s
      <4>1. Total(first, ledger) = t + Total(o, ledger)
        BY <1>1, <1>4, <2>3, <2>8, Numbers DEF Total, Before, CapInv
      <4>2. Total(first, ledger)' = Total(first, ledger) + amount
        BY <1>2
      <4> HIDE DEF t
      <4> QED BY <1>2, <2>3, <3>2, <4>1, <4>2
    <3>4. ledger - first \in Nat /\ e <= ledger - first
      BY <1>1, <1>4, <2>3, <2>8
    <3>5. (t + s) * len <= highest * (len + (ledger - first)) + len - 1
      <4>1. t \in 0..w.prev
        BY <2>3, <3>2
      <4> HIDE DEF t, e, s
      <4> QED BY <2>6, <3>4, <4>1
    <3> QED BY <3>3, <3>5
  <2> QED BY <1>1, <2>3, <2>7, <2>8
<1>5. ASSUME NEW first \in 0..ledger, NEW last \in first..ledger, last - first < len
      PROVE  Total(first, last)' * len <= highest * (len + last - first) + len - 1
  <2>1. CASE last = ledger
    <3>1. len + last - first = len + (ledger - first)
      BY <1>1, <2>1
    <3>2. Total(first, last)' = Total(first, ledger)'
      BY <1>2, <2>1
    <3> QED BY <1>4, <1>5, <2>1, <3>1, <3>2
  <2> QED BY <1>3, <1>5, <2>1
<1> QED BY <1>1, <1>2, <1>5 DEF FadeBound

------------------------------------------------------------------------------
(* The other steps, and the theorems.                                         *)
LEMMA TickKeeps ==
    ASSUME NEW len, Steady(len), CapInv(len), FadeBound, Tick
    PROVE  CapInv(len)' /\ FadeBound'
<1>1. /\ len \in Nat \ {0} /\ ledger \in 0..MaxLedger /\ MaxLedger \in Nat
      /\ highest \in Nat /\ WindowLen(policy) = len
      /\ \A l \in 0..MaxLedger : paidBy[l] \in Nat
  BY Numbers DEF CapInv
<1>2. ledger' = ledger + 1 /\ ledger' \in 0..MaxLedger
      /\ UNCHANGED <<policy, window, legacy, paidBy, highest>>
  BY <1>1 DEF Tick
<1>3. \A l \in ledger..MaxLedger : paidBy[l] = paidBy[ledger]
  BY DEF CapInv, HistoryOK
<1>4. Before(ledger + 1 + 1) = Before(ledger + 1)
  BY <1>1, <1>2, <1>3 DEF Before
<1>6. \A first : Total(first, ledger)' = Total(first, ledger)
  BY <1>2, <1>4 DEF Total, Before
<1>7. \A first, last : Total(first, last)' = Total(first, last)
  BY <1>2 DEF Total, Before
<1>8. HistoryOK'
  BY <1>1, <1>2, <1>3 DEF CapInv, HistoryOK
<1>9. WindowOK(len)'
  <2>1. CASE window = NoWindow
    BY <1>2, <2>1 DEF CapInv, WindowOK
  <2>2. CASE window # NoWindow
    <3>1. window.opened \in Nat /\ Tells(window, len)
      BY <2>2 DEF CapInv, TypeOK, WindowOK, CapWindowRecord, U32
    <3>2. Tells(window, len)'
      BY <1>1, <1>2, <1>6, <1>7, <3>1 DEF Tells
    <3> QED BY <1>2, <2>2, <3>2 DEF CapInv, WindowOK
  <2> QED BY <2>1, <2>2
<1>10. TypeOK' /\ CapsOK'
  BY <1>1, <1>2, CapAssumption DEF CapInv, TypeOK, CapsOK, Tick
<1>11. ASSUME NEW first \in 0..ledger + 1, NEW last \in first..ledger + 1, last - first < len
       PROVE  Total(first, last) * len <= highest * (len + last - first) + len - 1
  <2>1. CASE last <= ledger
    BY <1>1, <1>11, <2>1 DEF FadeBound
  <2>2. CASE last = ledger + 1 /\ first <= ledger
    <3>1. Total(first, last) = Total(first, ledger)
      BY <1>4, <2>2 DEF Total
    <3>2. Total(first, ledger) * len <= highest * (len + ledger - first) + len - 1
      BY <1>1, <1>11, <2>2 DEF FadeBound
    <3>3. highest * (len + ledger - first) <= highest * (len + last - first)
      <4>1. len + ledger - first \in Nat /\ len + last - first \in Nat
            /\ len + ledger - first <= len + last - first
        BY <1>1, <2>2
      <4> QED BY <1>1, <4>1, ProductsGrow
    <3>4. highest * (len + ledger - first) \in Int /\ highest * (len + last - first) \in Int
      BY <1>1, <2>2
    <3>5. Total(first, ledger) * len \in Int
      <4>1. Total(first, ledger) \in Nat
        BY <1>1, <2>2, TotalsAreNatural DEF CapInv
      <4> QED BY <1>1, <4>1
    <3> DEFINE x == Total(first, ledger) * len
               y == highest * (len + ledger - first)
               z == highest * (len + last - first)
    <3> HIDE DEF x, y, z
    <3>6. x <= y + len - 1 /\ y <= z /\ x \in Int /\ y \in Int /\ z \in Int
      BY <3>2, <3>3, <3>4, <3>5 DEF x, y, z
    <3>7. x <= z + len - 1
      BY <1>1, <3>6
    <3> QED BY <3>1, <3>7 DEF x, z
  <2>3. CASE first = ledger + 1 /\ last = ledger + 1
    <3>1. Total(first, last) = 0
      BY <1>1, <1>2, <1>4, <2>3 DEF Total, Before
    <3>2. highest * (len + last - first) \in Nat
      BY <1>1, <2>3
    <3> QED BY <1>1, <3>1, <3>2
  <2> QED BY <1>1, <1>11, <2>1, <2>2, <2>3
<1>12. FadeBound'
  BY <1>1, <1>2, <1>7, <1>11 DEF FadeBound
<1> QED BY <1>8, <1>9, <1>10, <1>12 DEF CapInv

LEMMA SetPolicyKeeps ==
    ASSUME NEW len, Steady(len), CapInv(len), FadeBound, NEW p \in Policies, SetPolicy(p)
    PROVE  CapInv(len)' /\ FadeBound'
<1>1. /\ len \in Nat \ {0} /\ ledger \in 0..MaxLedger /\ MaxLedger \in Nat
      /\ highest \in Nat /\ WindowLen(policy) = len
  BY Numbers DEF CapInv
<1>2. p.spendingCap \in Nat /\ p.spendingCap \in I128 /\ WindowLen(p) = len
  BY CapAssumption, WidthAssumption DEF Steady, I128
<1>3. policy' = p /\ highest' = (IF p.spendingCap > highest THEN p.spendingCap ELSE highest)
      /\ UNCHANGED <<ledger, window, legacy, paidBy>>
  BY DEF SetPolicy
<1>4. highest' \in I128 /\ highest <= highest' /\ policy'.spendingCap <= highest'
      /\ highest' \in Nat /\ \E q \in Policies : highest' = q.spendingCap
  BY <1>1, <1>2, <1>3 DEF CapInv, TypeOK, CapsOK
<1>5. \A first, last : Total(first, last)' = Total(first, last)
  BY <1>3 DEF Total, Before
<1>6. HistoryOK'
  BY <1>3 DEF CapInv, HistoryOK
<1>7. WindowOK(len)'
  <2>1. CASE window = NoWindow
    BY <1>3, <2>1 DEF CapInv, WindowOK
  <2>2. CASE window # NoWindow
    <3>1. Tells(window, len) /\ window.spent \in Nat /\ window.prev \in Nat
      BY <2>2, WidthAssumption DEF CapInv, TypeOK, WindowOK, CapWindowRecord, I128
    <3>2. window.spent <= highest' /\ window.prev <= highest'
      BY <1>1, <1>4, <3>1 DEF Tells
    <3>3. Tells(window, len)'
      BY <1>3, <1>5, <3>1, <3>2 DEF Tells
    <3> QED BY <1>3, <2>2, <3>3 DEF CapInv, WindowOK
  <2> QED BY <2>1, <2>2
<1>8. ASSUME NEW first \in 0..ledger, NEW last \in first..ledger, last - first < len
      PROVE  Total(first, last)' * len <= highest' * (len + last - first) + len - 1
  <2>1. Total(first, last) * len <= highest * (len + last - first) + len - 1
    BY <1>1, <1>8 DEF FadeBound
  <2>2. len + last - first \in Nat /\ len + last - first <= len + last - first
    BY <1>1
  <2>3. highest * (len + last - first) <= highest' * (len + last - first)
        /\ highest * (len + last - first) \in Nat /\ highest' * (len + last - first) \in Nat
    BY <1>1, <1>4, <2>2, ProductsGrow
  <2>4. Total(first, last) * len \in Nat
    <3>1. Total(first, last) \in Nat
      BY <1>1, TotalsAreNatural DEF CapInv
    <3> QED BY <1>1, <3>1
  <2> DEFINE x == Total(first, last) * len
             y == highest * (len + last - first)
  <2>5. PICK z : z = highest' * (len + last - first)
    OBVIOUS
  <2>6. x <= z + len - 1
    <3> HIDE DEF x, y
    <3>1. x <= y + len - 1 /\ y <= z /\ x \in Int /\ y \in Int /\ z \in Int
      BY <2>1, <2>3, <2>4, <2>5 DEF x, y
    <3> QED BY <1>1, <3>1
  <2> QED BY <1>5, <2>5, <2>6
<1>9. FadeBound'
  BY <1>1, <1>2, <1>3, <1>8 DEF FadeBound
<1>10. TypeOK' /\ CapsOK'
  BY <1>3, <1>4 DEF CapInv, TypeOK, CapsOK
<1> QED BY <1>6, <1>7, <1>9, <1>10 DEF CapInv

LEMMA InitCap ==
    ASSUME NEW len, Steady(len), Init
    PROVE  CapInv(len) /\ FadeBound
<1>1. policy \in Policies /\ policy.spendingCap \in I128 /\ WindowLen(policy) = len
  BY CapAssumption DEF Init, Steady
<1>2. paidBy = [l \in 0..MaxLedger |-> 0]
  BY DEF Init, Steady, LegacySpent
<1>3. TypeOK
  BY <1>1, <1>2, CapAssumption DEF Init, TypeOK
<1>4. /\ len \in Nat \ {0} /\ ledger \in 0..MaxLedger /\ MaxLedger \in Nat
      /\ highest \in Nat
  BY <1>3, Numbers
<1>5. HistoryOK /\ WindowOK(len) /\ CapsOK
  BY <1>1, <1>2, <1>4 DEF Init, HistoryOK, WindowOK, CapsOK
<1>6. ASSUME NEW first \in 0..ledger, NEW last \in first..ledger, last - first < len
      PROVE  Total(first, last) * len <= highest * (len + last - first) + len - 1
  <2>1. Total(first, last) = 0
    BY <1>2, <1>4 DEF Total, Before
  <2>2. highest * (len + last - first) \in Nat
    BY <1>4
  <2> QED BY <1>4, <2>1, <2>2
<1>7. FadeBound
  BY <1>1, <1>4, <1>6 DEF FadeBound
<1> QED BY <1>3, <1>5, <1>7 DEF CapInv

LEMMA StepKeepsCap ==
    ASSUME NEW len, Steady(len), CapInv(len), FadeBound, [Next]_vars
    PROVE  CapInv(len)' /\ FadeBound'
<1>1. CASE Tick
  BY <1>1, TickKeeps
<1>2. ASSUME NEW amount \in Amounts, Charge(amount)
      PROVE  CapInv(len)' /\ FadeBound'
  <2>1. CASE policy.spendingCap # 0
    BY <1>2, <2>1, ChargeKeepsTheBook, ChargeKeepsTheBound
  <2>2. CASE policy.spendingCap = 0
    <3>1. UNCHANGED vars
      BY <1>2, <2>2 DEF Charge, Charged, vars
    <3> QED BY <3>1 DEF vars, CapInv, TypeOK, HistoryOK, WindowOK, Tells, CapsOK,
                        FadeBound, Total, Before
  <2> QED BY <2>1, <2>2
<1>3. ASSUME NEW p \in Policies, SetPolicy(p)
      PROVE  CapInv(len)' /\ FadeBound'
  BY <1>3, SetPolicyKeeps
<1>4. CASE UNCHANGED vars
  BY <1>4 DEF vars, CapInv, TypeOK, HistoryOK, WindowOK, Tells, CapsOK,
              FadeBound, Total, Before
<1> QED BY <1>1, <1>2, <1>3, <1>4 DEF Next

LEMMA CapStates ==
    ASSUME NEW CONSTANT len, Steady(len)
    PROVE  Spec => [](CapInv(len) /\ FadeBound)
<1>1. Init => CapInv(len) /\ FadeBound
  BY InitCap
<1>2. CapInv(len) /\ FadeBound /\ [Next]_vars => CapInv(len)' /\ FadeBound'
  BY StepKeepsCap
<1> QED BY <1>1, <1>2, PTL DEF Spec

(* Whatever is paid when, under whatever caps of one length: the two numbers  *)
(* in storage are what was paid in the window and in the length before it.    *)
THEOREM BookIsTheHistory ==
    (\E len : Steady(len)) => (Spec => []BookMatchesHistory)
<1> SUFFICES ASSUME NEW CONSTANT len, Steady(len) PROVE Spec => []BookMatchesHistory
  OBVIOUS
<1>1. CapInv(len) => BookMatchesHistory
  BY DEF CapInv, WindowOK, Tells, BookMatchesHistory
<1> QED BY <1>1, CapStates, PTL

(* No stretch of ledgers within one length pays out more than the highest cap *)
(* and what the window before has faded by meanwhile.                         *)
THEOREM FadingIsBounded ==
    (\E len : Steady(len)) => (Spec => []FadeBound)
<1> SUFFICES ASSUME NEW CONSTANT len, Steady(len) PROVE Spec => []FadeBound
  OBVIOUS
<1> QED BY CapStates, PTL
==============================================================================
