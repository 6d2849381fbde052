------------------------------ MODULE Amounts ------------------------------
(* Amounts as the page shows and reads them (web/lib/stellar.ts), and the box *)
(* of the Guards form (page.tsx) in which the vault's limit is filled in, may *)
(* be edited, and is read back.                                               *)
EXTENDS Integers, Sequences, Functions

CONSTANTS
    Base,           \* 10
    Decimals,       \* 7: stroops in an XLM
    Group,          \* 3: digits between two commas
    Kept,           \* 2: decimals that formatXLM shows
    MaxAmount,      \* bound: largest limit
    MaxText         \* bound: characters typed

ASSUME AmountAssumption ==
    /\ Base \in Nat \ {0, 1} /\ Decimals \in Nat /\ Kept \in 1..Decimals
    /\ Group \in Nat \ {0} /\ MaxAmount \in Nat /\ MaxText \in Nat

Digit   == 0..(Base - 1)
Comma   == Base
Dot     == Base + 1
Refused == -1       \* toStroops throws

VARIABLES
    amount,     \* the limit in the vault's policy, in stroops; 0 is none
    text        \* what the box holds

box == <<amount, text>>

------------------------------------------------------------------------------
(* The number that digits spell, and a one followed by n zeros.               *)
Number(s) ==
    LET value[i \in 0..Len(s)] == IF i = 0 THEN 0 ELSE value[i - 1] * Base + s[i]
    IN  value[Len(s)]

Zeros(n) == [i \in 1..n |-> 0]
Power(n) == Number(<<1>> \o Zeros(n))
Scale    == Power(Decimals)

(* Written out.                                                               *)
Places(n, width) == [i \in 1..width |-> (n \div Power(width - i)) % Base]
Digits(n) ==
    Places(n, CHOOSE w \in 1..(n + 1) :
                n < Power(w) /\ \A v \in 1..(w - 1) : n >= Power(v))

TrimZeros(s) ==
    SubSeq(s, 1, CHOOSE n \in 0..Len(s) :
                    /\ n > 0 => s[n] # 0
                    /\ \A i \in (n + 1)..Len(s) : s[i] = 0)
PadEnd(s, n) == IF Len(s) < n THEN s \o Zeros(n - Len(s)) ELSE s

(* The k-th character from the right is a comma when Group + 1 divides k.     *)
Grouped(s) ==
    LET len == Len(s) + (Len(s) - 1) \div Group
    IN  [i \in 1..len |->
            LET k == len - i + 1
            IN  IF k % (Group + 1) = 0 THEN Comma
                ELSE s[Len(s) - (k - k \div (Group + 1)) + 1]]

WithoutCommas(s) ==
    LET kept[i \in 0..Len(s)] ==
            IF i = 0 THEN <<>>
            ELSE IF s[i] = Comma THEN kept[i - 1] ELSE Append(kept[i - 1], s[i])
    IN  kept[Len(s)]

Whole(v)    == Digits(v \div Scale)
Fraction(v) == Places(v % Scale, Decimals)

formatXLM(v) == Grouped(Whole(v)) \o <<Dot>> \o SubSeq(Fraction(v), 1, Kept)
formatXLMExact(v) ==
    Grouped(Whole(v)) \o <<Dot>> \o PadEnd(TrimZeros(Fraction(v)), Kept)

(* What the Max button puts into the form for a balance.  (A box filled so is *)
(* also the fault of xlmExact that its comment speaks of.)                    *)
MaxButton(v) == WithoutCommas(formatXLM(v))

xlmExact(v) ==
    LET frac == TrimZeros(Fraction(v))
    IN  Whole(v) \o (IF frac = <<>> THEN <<>> ELSE <<Dot>> \o frac)

------------------------------------------------------------------------------
(* Read.                                                                      *)
DotAt(t) ==
    CHOOSE i \in 1..(Len(t) + 1) :
        (i <= Len(t) => t[i] = Dot) /\ \A j \in 1..(i - 1) : t[j] # Dot
Before(t) == SubSeq(t, 1, DotAt(t) - 1)
After(t)  == SubSeq(t, DotAt(t) + 1, Len(t))
Plain(s)  == Range(s) \subseteq Digit

(* (The first is a fault: commas are ignored.)                                *)
CommasAnywhere(s) == s # <<>> /\ s[1] # Comma /\ Plain(WithoutCommas(s))
CommasInPlace(s) ==
    /\ s # <<>> /\ s[1] # Comma /\ Plain(WithoutCommas(s))
    /\ Comma \in Range(s) =>
          \A i \in 1..Len(s) : s[i] = Comma <=> (Len(s) - i + 1) % (Group + 1) = 0

Reads(t) ==
    /\ CommasInPlace(Before(t))
    /\ Plain(After(t))
    /\ Dot \in Range(t) => Len(After(t)) \in 1..Decimals

toStroops(t) ==
    LET v == Number(WithoutCommas(Before(t))) * Scale
             + Number(PadEnd(After(t), Decimals))
    IN  IF Reads(t) /\ v > 0 THEN v ELSE Refused

(* limit: nothing and any spelling of zero mean that there is no limit.       *)
AllZero(t) ==
    /\ Range(Before(t) \o After(t)) \subseteq {0}
    /\ Before(t) # <<>>
    /\ Dot \in Range(t) => After(t) # <<>>
limit(t) == IF t = <<>> \/ AllZero(t) THEN 0 ELSE toStroops(t)

------------------------------------------------------------------------------
Prefill(v) == IF v > 0 THEN xlmExact(v) ELSE <<>>

BoxInit == amount \in 0..MaxAmount /\ text = Prefill(amount)

(* The user clears the box or goes on typing.                                 *)
Clear == text' = <<>> /\ UNCHANGED amount
Typed(c) ==
    /\ Len(text) < MaxText
    /\ text' = Append(text, c)
    /\ UNCHANGED amount

(* The saved limit comes back from the vault and fills the box.               *)
SaveLimit ==
    /\ limit(text) \in 0..MaxAmount
    /\ amount' = limit(text)
    /\ text' = Prefill(amount')

BoxNext == Clear \/ SaveLimit \/ \E c \in Digit \cup {Comma, Dot} : Typed(c)

BoxSpec == BoxInit /\ [][BoxNext]_box

------------------------------------------------------------------------------
(* stellar.ts:52, the box that is saved back as it was filled in keeps the    *)
(* limit to the last stroop, and so does a line item on a card that somebody  *)
(* copies into the form; Max never asks for more than there is.               *)
ReadsBack ==
    /\ limit(Prefill(amount)) = amount
    /\ amount > 0 => toStroops(formatXLMExact(amount)) = amount
    /\ toStroops(MaxButton(amount)) <= amount

(* stellar.ts:115, "refused instead of guessed": a text that is accepted is   *)
(* one the page would print for the amount it is taken for, but for zeros in  *)
(* front of it and at its end, with the commas of en-US or none.              *)
NothingGuessed ==
    toStroops(text) # Refused =>
        \E n \in 0..Len(text), m \in 0..Decimals :
            LET v    == toStroops(text)
                rest == SubSeq(text, n + 1, Len(text))
                frac == SubSeq(Fraction(v), 1, m)
                tail == IF m = 0 THEN <<>> ELSE <<Dot>> \o frac
            IN  /\ Number(WithoutCommas(SubSeq(text, 1, n))) = 0
                /\ TrimZeros(Fraction(v)) = TrimZeros(frac)
                /\ rest \in {Whole(v) \o tail, Grouped(Whole(v)) \o tail}
==============================================================================
