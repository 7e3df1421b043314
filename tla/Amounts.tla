------------------------------ MODULE Amounts ------------------------------
(***************************************************************************)
(* Confidential amounts: a balance is the sum of the ciphertexts of its    *)
(* events, limb by limb and without carries, and a wallet replays the same *)
(* events under its viewing key.                                           *)
(*                                                                         *)
(* A point of the group is represented by its discrete logarithm to the    *)
(* base G, which no code but the bounded search below ever looks at.  The  *)
(* logarithm is not reduced: the group's order of 2^252 is out of reach of *)
(* every sum here.  Random[n][i] is the scalar drawn for limb i of the n-th*)
(* encryption: large, and no combination of the draws cancels.             *)
(*                                                                         *)
(* The contract that credits, debits and replaces the balance is not part  *)
(* of the repository; its effect is what the events' deltas say of it.     *)
(***************************************************************************)
EXTENDS Integers, Sequences, SequencesExt

CONSTANTS
    LimbBase, LimbCount,     \* LIMB_BASE, LIMB_COUNT; DEFAULT_LIMB_BOUND is LIMB_BASE
    BalanceBound,            \* DEFAULT_BALANCE_BOUND
    TableSize,               \* baby steps at most
    Values,                  \* the amounts of credits and debits
    Keys, FirstKey,          \* viewing scalars; the account's first one
    Unsolved,                \* the null of the solver, the throw of what calls it
    Random,                  \* the scalars the encryptions draw
    MaxEvents                \* bound on the length of the history

Limbs == 1..LimbCount

(* The weight of each limb, and of one that would follow the last.         *)
Weight[i \in 1 .. LimbCount + 1] == IF i = 1 THEN 1 ELSE Weight[i - 1] * LimbBase
MaxAmount == Weight[LimbCount + 1] - 1

SumTo(n, x) ==
    LET sum[i \in 0..n] == IF i = 0 THEN 0 ELSE sum[i - 1] + x[i]
    IN  sum[n]
WeightedSum(limbs) == SumTo(LimbCount, [i \in Limbs |-> Weight[i] * limbs[i]])

(* What the draws of a history come to in a limb, each added, subtracted or*)
(* left out.                                                               *)
Drawn(signs, i) == SumTo(MaxEvents, [n \in 1..MaxEvents |-> signs[n] * Random[n][i]])

Beyond(x, bound) == x > bound \/ -x > bound

ASSUME AmountsAssumption ==
    /\ LimbBase \in Nat \ {0, 1} /\ LimbCount \in Nat \ {0}
    /\ BalanceBound \in Nat /\ LimbBase <= BalanceBound
    /\ TableSize \in Nat \ {0}
    /\ Values \subseteq 0..MaxAmount
    /\ FirstKey \in Keys /\ Keys \subseteq Nat
    /\ MaxEvents \in Nat /\ Unsolved \notin Int
    /\ Random \in [1..MaxEvents -> [Limbs -> Nat \ {0}]]

(* Uniform draws from 2^252 scalars do not cancel, neither in a limb nor by*)
(* weight: no sum of them comes near what a balance of these events can    *)
(* hold.                                                                   *)
ASSUME DrawsAssumption ==
    \A signs \in [1..MaxEvents -> -1..1] :
        (\E n \in 1..MaxEvents : signs[n] # 0) =>
            /\ \A i \in Limbs :
                 Beyond(Drawn(signs, i), BalanceBound + MaxEvents * (LimbBase - 1))
            /\ Beyond(WeightedSum([i \in Limbs |-> Drawn(signs, i)]), MaxEvents * MaxAmount)

VARIABLES
    log,        \* the account's events: [delta, amount]
    balance,    \* the ciphertext the contract holds
    total,      \* what it stands for
    key,        \* the viewing key it is encrypted under
    width       \* full-width limbs added up in it since it was last fresh

vars == <<log, balance, total, key, width>>

----------------------------------------------------------------------------
(* amount.ts and elgamal.ts.                                               *)

SplitLimbs(v) ==
    LET remaining[i \in Limbs] == IF i = 1 THEN v ELSE remaining[i - 1] \div LimbBase
    IN  [i \in Limbs |-> remaining[i] % LimbBase]

JoinLimbs(limbs) ==
    LET value[i \in 0..LimbCount] ==
          IF i = 0 THEN 0 ELSE value[i - 1] * LimbBase + limbs[LimbCount + 1 - i]
    IN  value[LimbCount]

EncryptLimb(m, k, r) == [commitment |-> m + r * k, handle |-> r]
EncryptAmount(v, k, r) == [i \in Limbs |-> EncryptLimb(SplitLimbs(v)[i], k, r[i])]

LimbIdentity == [commitment |-> 0, handle |-> 0]
ZeroAmount   == [i \in Limbs |-> LimbIdentity]

AddAmounts(a, b) ==
    [i \in Limbs |-> [commitment |-> a[i].commitment + b[i].commitment,
                      handle     |-> a[i].handle + b[i].handle]]
SubtractAmounts(a, b) ==
    [i \in Limbs |-> [commitment |-> a[i].commitment - b[i].commitment,
                      handle     |-> a[i].handle - b[i].handle]]

UnmaskLimb(limb, k) == limb.commitment - k * limb.handle

(* Limb by limb, as canonical ciphertexts could be compared...             *)
VerifyLimbs(amount, k, expected) ==
    /\ expected \in 0..MaxAmount
    /\ \A i \in Limbs : UnmaskLimb(amount[i], k) = SplitLimbs(expected)[i]

(* ...and by weighted sum, as the code does.                               *)
VerifyAmount(amount, k, expected) ==
    /\ expected >= 0
    /\ WeightedSum([i \in Limbs |-> UnmaskLimb(amount[i], k)]) = expected

----------------------------------------------------------------------------
(* dlog.ts: baby steps in a table, giant steps over it for m and for -m.   *)

BabySteps(maxAbs) == IF maxAbs + 1 < TableSize THEN maxAbs + 1 ELSE TableSize

(* Giant steps, and one too few of them.                                   *)
GiantStepsFloor(maxAbs, babySteps) == maxAbs \div babySteps - 1
GiantSteps(maxAbs, babySteps) == (maxAbs + babySteps) \div babySteps

(* What i giant steps and a hit of j in the table amount to.               *)
Reached(maxAbs, babySteps) ==
    {m \in {i * babySteps + j : i \in 0..GiantSteps(maxAbs, babySteps),
                                j \in 0 .. babySteps - 1} : m <= maxAbs}

(* Both walks find only the logarithm itself: a table holds no point twice.*)
SolveDlog(p, maxAbs, negative) ==
    IF p = 0 \/ \E m \in IF negative THEN {p, -p} ELSE {p} :
                    m \in Reached(maxAbs, BabySteps(maxAbs))
    THEN p ELSE Unsolved

(* What decryptAmount must not do: a limb that does not decrypt is nothing.*)
Guessed(solved) == JoinLimbs([i \in Limbs |-> IF solved[i] = Unsolved THEN 0 ELSE solved[i]])
Solved(solved)  == IF Unsolved \in Range(solved) THEN Unsolved ELSE JoinLimbs(solved)

DecryptAmount(amount, k, maxAbs, negative) ==
    Solved([i \in Limbs |-> SolveDlog(UnmaskLimb(amount[i], k), maxAbs, negative)])

DecryptBalance(k) == DecryptAmount(balance, k, BalanceBound, TRUE)

----------------------------------------------------------------------------
(* replay.ts.  The error is the code the replay ended with, or "none".     *)

InitialState == [balance |-> ZeroAmount, value |-> 0, count |-> 0, error |-> "none"]

(* The narrow search of a fresh amount first, the wide one before giving up.*)
EventValue(amount, k) ==
    LET narrow == DecryptAmount(amount, k, LimbBase, FALSE)
    IN  IF narrow # Unsolved THEN narrow ELSE DecryptAmount(amount, k, BalanceBound, TRUE)

(* What replay must not do: accumulate a rollover, and double the balance. *)
AccumulatedAlways(state, event, v) ==
    IF event.delta = "debit"
    THEN [balance |-> SubtractAmounts(state.balance, event.amount), value |-> state.value - v]
    ELSE [balance |-> AddAmounts(state.balance, event.amount), value |-> state.value + v]

Accumulated(state, event, v) ==
    CASE event.delta = "credit"  -> [balance |-> AddAmounts(state.balance, event.amount),
                                     value   |-> state.value + v]
      [] event.delta = "debit"   -> [balance |-> SubtractAmounts(state.balance, event.amount),
                                     value   |-> state.value - v]
      [] event.delta = "replace" -> [balance |-> event.amount, value |-> v]

Applied(state, event, v) ==
    LET next == Accumulated(state, event, v)
        refused(code) == [state EXCEPT !.error = code]
    IN  IF v = Unsolved THEN refused(IF state.count = 0 THEN "WRONG_KEY" ELSE "UNSUPPORTED_EVENT")
        ELSE IF next.value < 0 THEN refused("MISSING_EVENTS")
        ELSE [balance |-> next.balance, value |-> next.value,
              count |-> state.count + 1, error |-> "none"]

ReplayEvent(state, event, k) == Applied(state, event, EventValue(event.amount, k))

Replay(events, k) ==
    LET after[n \in 0..Len(events)] ==
          IF n = 0 THEN InitialState
          ELSE IF after[n - 1].error # "none" THEN after[n - 1]
          ELSE ReplayEvent(after[n - 1], events[n], k)
    IN  after[Len(events)]

----------------------------------------------------------------------------
(* verify.ts: the value replayed against the ciphertext of the chain.      *)

(* What verifyState must not do: take an unreadable balance for nothing.   *)
VerdictOfNothing(value, verified, chainValue, lagOk) ==
    LET read == IF chainValue = Unsolved THEN 0 ELSE chainValue
    IN  IF verified          THEN IF lagOk THEN "VERIFIED" ELSE "STALE_INDEX"
        ELSE IF read > value THEN IF lagOk THEN "MISSING_EVENTS" ELSE "STALE_INDEX"
        ELSE "BALANCE_MISMATCH"

Verdict(value, verified, chainValue, lagOk) ==
    IF verified                   THEN IF lagOk THEN "VERIFIED" ELSE "STALE_INDEX"
    ELSE IF chainValue = Unsolved THEN "WRONG_KEY"
    ELSE IF chainValue > value    THEN IF lagOk THEN "MISSING_EVENTS" ELSE "STALE_INDEX"
    ELSE "BALANCE_MISMATCH"

VerifyState(value, k, lagOk) ==
    Verdict(value, VerifyAmount(balance, k, value), DecryptBalance(k), lagOk)

----------------------------------------------------------------------------
Init ==
    /\ log = <<>> /\ balance = ZeroAmount /\ total = 0
    /\ key = FirstKey /\ width = 0

Draw == Random[Len(log) + 1]

Credit(v) ==
    /\ Len(log) < MaxEvents
    /\ LET amount == EncryptAmount(v, key, Draw)
       IN  /\ log' = Append(log, [delta |-> "credit", amount |-> amount])
           /\ balance' = AddAmounts(balance, amount)
    /\ total' = total + v /\ width' = width + 1
    /\ UNCHANGED key

(* A debit comes with a proof that the balance covers it.                  *)
Debit(v) ==
    /\ Len(log) < MaxEvents /\ v <= total
    /\ LET amount == EncryptAmount(v, key, Draw)
       IN  /\ log' = Append(log, [delta |-> "debit", amount |-> amount])
           /\ balance' = SubtractAmounts(balance, amount)
    /\ total' = total - v /\ width' = width + 1
    /\ UNCHANGED key

(* rolloverAmount: possible while the balance decrypts and fits 64 bits.   *)
(* Under the account's key it is a rollover, under another a key rotation. *)
Replace(k) ==
    /\ Len(log) < MaxEvents
    /\ DecryptBalance(key) # Unsolved
    /\ DecryptBalance(key) \in 0..MaxAmount
    /\ LET amount == EncryptAmount(DecryptBalance(key), k, Draw)
       IN  /\ log' = Append(log, [delta |-> "replace", amount |-> amount])
           /\ balance' = amount
    /\ key' = k /\ width' = 1
    /\ UNCHANGED total

Rollover == Replace(key)
KeyRotation == \E k \in Keys \ {key} : Replace(k)

Next ==
    \/ \E v \in Values : Credit(v) \/ Debit(v)
    \/ Rollover
    \/ KeyRotation

Spec == Init /\ [][Next]_vars

----------------------------------------------------------------------------
(* The weighted check accepts the balance's value and no other, however its*)
(* limbs have run over or gone negative, and beyond what the search bound  *)
(* or 64 bits could hold.  (verifyAmount, against comparing limb by limb.) *)
VerifiesExactly ==
    \A x \in 0 .. MaxEvents * MaxAmount : VerifyAmount(balance, key, x) <=> x = total

(* Decryption under any key returns the balance's value or refuses: never  *)
(* a plausible number that is wrong.  (decryptAmount, invariant 3.)        *)
NeverAWrongNumber == \A k \in Keys : DecryptBalance(k) \in {total, Unsolved}

(* As long as the limbs added up since the last rollover fit the search    *)
(* bound, in either sign, the owner's key opens the balance: the tolerance *)
(* DEFAULT_BALANCE_BOUND is chosen for.  (solveDlog, rolloverAmount.)      *)
Tolerated == width * (LimbBase - 1) <= BalanceBound
DecryptsWhileTolerated == Tolerated => DecryptBalance(key) = total

(* The whole history, replayed under any key, is refused or ends in the    *)
(* chain's own ciphertext and its value; a history under one key is never  *)
(* refused to that key.  (replay: what replace assigns, add accumulates.)  *)
ReplayExactOrRefused ==
    /\ \A k \in Keys : LET end == Replay(log, k)
                       IN  end.error # "none" \/ (end.balance = balance /\ end.value = total)
    /\ (\A n \in 1..Len(log) : EventValue(log[n].amount, key) # Unsolved) =>
          Replay(log, key).error = "none"

(* Whatever one event a history lost, and under whatever key, the verdict  *)
(* on what it replays to is right: verified is the chain's exact value, a  *)
(* shortfall and an excess are named as what they are, and the key is      *)
(* blamed only if it is wrong or the balance ran past the search bound.    *)
(* (verifyState, on what replay returns.)                                  *)
RightOf(value, k, lagOk, said) ==
    CASE said = "VERIFIED"         -> value = total
      [] said = "MISSING_EVENTS"   -> value < total
      [] said = "BALANCE_MISMATCH" -> value > total
      [] said = "WRONG_KEY"        -> k # key \/ ~Tolerated
      [] said = "STALE_INDEX"      -> ~lagOk /\ value <= total

VerdictsRight ==
    \A k \in Keys, lost \in 0..Len(log) :
        LET end == Replay(IF lost = 0 THEN log ELSE RemoveAt(log, lost), k)
        IN  end.error = "none" =>
              \A lagOk \in BOOLEAN :
                  RightOf(end.value, k, lagOk, VerifyState(end.value, k, lagOk))
=============================================================================
