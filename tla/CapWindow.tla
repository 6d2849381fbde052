------------------------------ MODULE CapWindow ------------------------------
(* The spending-cap arithmetic of vault-instance/src/lib.rs: the sliding      *)
(* window counter read by window_now and window_used and written by           *)
(* charge_window.  Pure operators: the state they work on (the window the     *)
(* vault has stored, the policy, the ledger) is passed in, so SpendingCap can *)
(* study the counter by itself and VaultInstance can use it unchanged.        *)
EXTENDS Integers

CONSTANTS
    MaxU32,             \* largest u32: ledger numbers and lengths saturate here
    MaxI128,            \* largest i128: amounts saturate or overflow here
    DefaultCapWindow,   \* DEFAULT_CAP_WINDOW, used when the policy says 0
    NoWindow            \* no entry under DataKey::Window

U32  == 0..MaxU32
I128 == 0..MaxI128      \* the amounts kept here are never negative

(* (u32, i128, i128, u32): the entry under DataKey::Window.                   *)
CapWindowRecord == [opened : U32, spent : I128, prev : I128, len : U32]

ASSUME WidthAssumption ==
    /\ MaxU32 \in Nat \ {0}
    /\ MaxI128 \in Nat \ {0}
    /\ DefaultCapWindow \in 1..MaxU32
    /\ NoWindow \notin CapWindowRecord

SatU32(n)  == IF n > MaxU32 THEN MaxU32 ELSE n
SatI128(n) == IF n > MaxI128 THEN MaxI128 ELSE n
SubU32(a, b) == IF a > b THEN a - b ELSE 0      \* saturating_sub
AtMost(n, bound) == IF n > bound THEN bound ELSE n

WindowLen(policy) ==
    IF policy.capWindow = 0 THEN DefaultCapWindow ELSE policy.capWindow

(* What a vault upgraded from before v11 had booked in a bucket of the old    *)
(* accounting (DataKey::Spent); a partial function, empty for other vaults.   *)
LegacySpent(legacy, bucket) ==
    IF bucket \in DOMAIN legacy THEN legacy[bucket] ELSE 0

(* The stored window, or the one that seeds a vault that has none.            *)
StoredWindow(stored, legacy, policy, now) ==
    LET len    == WindowLen(policy)
        bucket == now \div len
    IN  IF stored # NoWindow
        THEN stored
        ELSE [opened |-> bucket * len, spent |-> LegacySpent(legacy, bucket),
              prev |-> 0, len |-> len]

(* Mutant: the boundary resets consumption to zero.                           *)
WindowReset(stored, legacy, policy, now) ==
    LET w   == StoredWindow(stored, legacy, policy, now)
        len == WindowLen(policy)
    IN  IF SubU32(now, w.opened) >= w.len
        THEN [opened |-> now, spent |-> 0, prev |-> 0, len |-> len]
        ELSE w

(* window_now: forget both windows, roll one along, or keep the stored one.   *)
(* A rolled or fresh window takes the length of the policy now in force.      *)
WindowNow(stored, legacy, policy, now) ==
    LET w       == StoredWindow(stored, legacy, policy, now)
        elapsed == SubU32(now, w.opened)
        len     == WindowLen(policy)
    IN  IF elapsed >= SatU32(2 * w.len)
        THEN [opened |-> now, spent |-> 0, prev |-> 0, len |-> len]
        ELSE IF elapsed >= w.len
        THEN [opened |-> SatU32(w.opened + w.len), spent |-> 0,
              prev |-> w.spent, len |-> len]
        ELSE w

(* Mutant: the window before does not count against the cap.                  *)
WindowUsedAlone(stored, legacy, policy, now) ==
    WindowNow(stored, legacy, policy, now).spent

(* window_used: this window plus what is left of the one before, which fades  *)
(* out over one length (saturating_mul, then integer division).               *)
WindowUsed(stored, legacy, policy, now) ==
    LET w       == WindowNow(stored, legacy, policy, now)
        elapsed == AtMost(SubU32(now, w.opened), w.len)
    IN  IF w.prev = 0 \/ w.len = 0
        THEN w.spent
        ELSE SatI128(w.spent + (SatI128(w.prev * (w.len - elapsed)) \div w.len))

(* charge_window accepts: no cap, or the cap covers what is used and this     *)
(* amount, with neither addition overflowing (checked_add).                   *)
CanCharge(stored, legacy, policy, now, amount) ==
    \/ policy.spendingCap = 0
    \/ LET used == WindowUsed(stored, legacy, policy, now)
           w    == WindowNow(stored, legacy, policy, now)
       IN  /\ used + amount <= MaxI128
           /\ used + amount <= policy.spendingCap
           /\ w.spent + amount <= MaxI128

(* Mutant: the amount is booked with the wrong sign.                          *)
ChargedBack(stored, legacy, policy, now, amount) ==
    IF policy.spendingCap = 0
    THEN stored
    ELSE [WindowNow(stored, legacy, policy, now) EXCEPT !.spent = @ - amount]

(* What charge_window leaves in storage: nothing is written without a cap.    *)
Charged(stored, legacy, policy, now, amount) ==
    IF policy.spendingCap = 0
    THEN stored
    ELSE [WindowNow(stored, legacy, policy, now) EXCEPT !.spent = @ + amount]
==============================================================================
