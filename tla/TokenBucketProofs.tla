------------------------- MODULE TokenBucketProofs -------------------------
(***************************************************************************)
(* The limiter's bound for every burst, refill and window.  The bound is   *)
(* not inductive: it says nothing of the level, and it is the level that   *)
(* decides the next admission.  Ledger is the strengthening: what was      *)
(* admitted since any admission, plus what is still in the bucket, is      *)
(* covered by a full bucket and the time that passed.                      *)
(***************************************************************************)
EXTENDS TokenBucket, TLAPS

Ledger ==
    \A i \in 1 .. Len(admitted) :
        (Len(admitted) - i + 1) * Refill + level <= Capacity + (last - admitted[i])

\* A refusal leaves a token at most in the bucket, and says how much is missing,
\* or one unit less.
WaitMatchesLevel == ~ok => wait \in WaitFor(level)

\* The capacity is a number, and holds a token at least.
LEMMA CapacityType == Capacity \in Nat /\ Capacity >= Refill
<1>1. Burst \in Nat /\ Refill \in Nat /\ Burst >= 1 /\ Refill >= 1
  BY BucketAssumption
<1>2. Burst * Refill \in Nat
  BY <1>1
<1>3. Burst * Refill >= 1 * Refill
  BY <1>1
<1> QED
  BY <1>1, <1>2, <1>3 DEF Capacity

\* The refilled level lies between what was there and a full bucket.
LEMMA RefilledType ==
    ASSUME TypeOK
    PROVE  /\ Refilled \in 0 .. Capacity
           /\ Refilled <= level + (clock - last)
           /\ Refilled >= level
BY CapacityType DEF TypeOK, Refilled, Sum

\* TypeOK is inductive.
LEMMA NextTypeOK == TypeOK /\ [Next]_vars => TypeOK'
<1> SUFFICES ASSUME TypeOK, [Next]_vars
             PROVE  TypeOK'
  OBVIOUS
<1> USE BucketAssumption, CapacityType, RefilledType
<1>1. CASE Admit
  BY <1>1 DEF TypeOK, Admit
<1>2. CASE RefuseFor
  <2>1. Sum \in Nat /\ Refilled = Sum
    BY <1>2 DEF TypeOK, RefuseFor, Refilled, Sum
  <2>2. wait' \in 0 .. Refill
    BY <1>2, <2>1 DEF RefuseFor, WaitFor
  <2>3. level' \in 0 .. Capacity /\ last' \in 0 .. clock' /\ clock' \in Nat /\ admitted' \in Seq(Nat)
    BY <1>2 DEF TypeOK, RefuseFor
  <2>4. ok' \in BOOLEAN
    BY <1>2 DEF RefuseFor
  <2>5. Capacity' = Capacity
    BY DEF Capacity
  <2> QED
    BY <2>2, <2>3, <2>4, <2>5 DEF TypeOK
<1>3. CASE newTokenBucket
  BY <1>3 DEF TypeOK, newTokenBucket
<1>4. CASE Tick
  BY <1>4 DEF TypeOK, Tick
<1>5. CASE UNCHANGED vars
  BY <1>5 DEF TypeOK, vars
<1> QED
  BY <1>1, <1>2, <1>3, <1>4, <1>5 DEF Next, take

\* The initial bucket is well typed, and nothing was admitted or refused yet.
LEMMA InitBucket == Init => TypeOK /\ Ledger /\ WindowIsBounded /\ WaitMatchesLevel
<1> SUFFICES ASSUME Init
             PROVE  TypeOK /\ Ledger /\ WindowIsBounded /\ WaitMatchesLevel
  OBVIOUS
<1>1. TypeOK
  BY BucketAssumption, CapacityType DEF Init, TypeOK
<1>2. Len(admitted) = 0
  BY DEF Init
<1>3. Ledger /\ WindowIsBounded
  BY <1>2 DEF Ledger, WindowIsBounded
<1>4. WaitMatchesLevel
  BY DEF Init, WaitMatchesLevel
<1> QED
  BY <1>1, <1>3, <1>4

\* A step that admits nobody keeps the ledger when what it adds to the level
\* is no more than the time that passed.
LEMMA QuietStep ==
    ASSUME TypeOK, TypeOK', Ledger, WindowIsBounded,
           UNCHANGED admitted,
           level' + last <= level + last'
    PROVE  Ledger' /\ WindowIsBounded'
<1>1. WindowIsBounded'
  BY DEF WindowIsBounded, Capacity
<1>2. ASSUME NEW i \in 1 .. Len(admitted)
      PROVE  (Len(admitted) - i + 1) * Refill + level' <= Capacity + (last' - admitted[i])
  <2>1. (Len(admitted) - i + 1) * Refill + level <= Capacity + (last - admitted[i])
    BY DEF Ledger
  <2>2. admitted[i] \in Nat /\ Len(admitted) \in Nat /\ Refill \in Nat
    BY BucketAssumption DEF TypeOK
  <2>3. (Len(admitted) - i + 1) * Refill \in Int
    BY <2>2
  <2>4. level \in Nat /\ level' \in Nat /\ last \in Nat /\ last' \in Nat
    BY CapacityType DEF TypeOK, Capacity
  <2>5. PICK spent \in Int : spent = (Len(admitted) - i + 1) * Refill
    BY <2>3
  <2>6. PICK at \in Nat : at = admitted[i]
    BY <2>2
  <2>7. spent + level <= Capacity + (last - at)
    BY <2>1, <2>5, <2>6
  <2>8. PICK new \in Nat : new = level'
    BY <2>4
  <2>9. PICK after \in Nat : after = last'
    BY <2>4
  <2>10. new + last <= level + after
    BY <2>8, <2>9
  <2>11. spent + new <= Capacity + (after - at)
    BY <2>4, <2>7, <2>10, CapacityType
  <2> QED
    BY <2>5, <2>6, <2>8, <2>9, <2>11
<1>3. Ledger'
  BY <1>2 DEF Ledger, Capacity
<1> QED
  BY <1>1, <1>3

\* An admission adds one entry and takes one token.
LEMMA AdmitStep ==
    ASSUME TypeOK, TypeOK', Ledger, WindowIsBounded, Admit
    PROVE  Ledger' /\ WindowIsBounded'
<1> DEFINE n == Len(admitted)
<1>1. /\ n \in Nat /\ Len(admitted') = n + 1
      /\ admitted'[n + 1] = clock
      /\ \A i \in 1 .. n : admitted'[i] = admitted[i] /\ admitted[i] \in Nat
  BY DEF TypeOK, Admit
<1>2. /\ level' = Refilled - Refill /\ last' = clock
      /\ Refilled \in 0 .. Capacity /\ Refilled <= level + (clock - last)
      /\ Refilled >= Refill
  BY RefilledType DEF Admit
<1>3. Refill \in Nat /\ Capacity \in Nat /\ clock \in Nat /\ last \in Nat /\ level \in Nat
  BY BucketAssumption, CapacityType DEF TypeOK
<1>4. ASSUME NEW i \in 1 .. n + 1
      PROVE  (n + 1 - i + 1) * Refill + level' <= Capacity + (last' - admitted'[i])
  <2>1. CASE i = n + 1
    <3>1. (n + 1 - i + 1) * Refill = Refill
      BY <2>1, <1>1, <1>3
    <3> QED
      BY <2>1, <3>1, <1>1, <1>2, <1>3
  <2>2. CASE i \in 1 .. n
    <3>1. (n - i + 1) * Refill + level <= Capacity + (last - admitted[i])
      BY <2>2 DEF Ledger
    <3>2. (n + 1 - i + 1) * Refill = (n - i + 1) * Refill + Refill
      BY <1>1, <1>3
    <3>3. (n - i + 1) * Refill \in Int
      BY <1>1, <1>3
    <3>4. admitted'[i] = admitted[i] /\ admitted[i] \in Nat
      BY <2>2, <1>1
    <3> HIDE DEF n
    <3> QED
      BY <3>1, <3>2, <3>3, <3>4, <1>2, <1>3
  <2> QED
    BY <2>1, <2>2, <1>1
<1>5. Ledger'
  <2>1. \A i \in 1 .. Len(admitted') :
          (Len(admitted') - i + 1) * Refill + level' <= Capacity + (last' - admitted'[i])
    BY <1>1, <1>4
  <2> QED
    BY <2>1 DEF Ledger, Capacity
<1>6. ASSUME NEW i \in 1 .. n + 1, NEW j \in 1 .. n + 1, i <= j
      PROVE  (j - i + 1) * Refill <= Capacity + (admitted'[j] - admitted'[i])
  <2>1. CASE j = n + 1
    <3>1. (n + 1 - i + 1) * Refill + level' <= Capacity + (clock - admitted'[i])
      BY <1>4, <1>2
    <3>2. (n + 1 - i + 1) * Refill \in Int /\ level' \in Nat
      BY <1>1, <1>2, <1>3
    <3>3. admitted'[i] \in Nat
      BY <1>1, <1>3
    <3>4. admitted'[j] = clock /\ j - i + 1 = n + 1 - i + 1
      BY <2>1, <1>1
    <3> HIDE DEF n
    <3> QED
      BY <3>1, <3>2, <3>3, <3>4, <1>3
  <2>2. CASE j \in 1 .. n
    <3>1. i \in 1 .. n
      BY <2>2, <1>1, <1>6
    <3> QED
      BY <2>2, <3>1, <1>1, <1>6 DEF WindowIsBounded
  <2> QED
    BY <2>1, <2>2, <1>1
<1>7. WindowIsBounded'
  <2>1. \A i, j \in 1 .. Len(admitted') :
          i <= j => (j - i + 1) * Refill <= Capacity + (admitted'[j] - admitted'[i])
    BY <1>1, <1>6
  <2> QED
    BY <2>1 DEF WindowIsBounded, Capacity
<1> QED
  BY <1>5, <1>7

\* The ledger and the bound are inductive together.
LEMMA NextLedger ==
    ASSUME TypeOK, TypeOK', Ledger, WindowIsBounded, [Next]_vars
    PROVE  Ledger' /\ WindowIsBounded'
<1>1. CASE Admit
  BY <1>1, AdmitStep
<1>2. CASE RefuseFor
  <2>1. UNCHANGED admitted /\ level' + last <= level + last'
    BY <1>2, RefilledType, CapacityType DEF RefuseFor, TypeOK
  <2> QED
    BY <2>1, QuietStep
<1>3. CASE newTokenBucket
  <2>1. (1 .. Len(admitted))' = {}
    BY <1>3 DEF newTokenBucket
  <2>2. Ledger'
    BY <2>1, Zenon DEF Ledger
  <2>3. WindowIsBounded'
    BY <2>1, Zenon DEF WindowIsBounded
  <2> QED
    BY <2>2, <2>3
<1>4. CASE Tick \/ UNCHANGED vars
  <2>1. UNCHANGED <<admitted, level, last>>
    BY <1>4 DEF Tick, vars
  <2>2. level \in Nat /\ last \in Nat
    BY CapacityType DEF TypeOK
  <2>3. level' + last <= level + last'
    BY <2>1, <2>2
  <2> QED
    BY <2>1, <2>3, QuietStep
<1> QED
  BY <1>1, <1>2, <1>3, <1>4 DEF Next, take

\* Every variable of the limiter keeps its type, the level between empty and
\* full, for every burst and refill.
THEOREM BucketTypeCorrect == Spec => []TypeOK
<1>1. Init => TypeOK
  BY InitBucket
<1> QED
  BY <1>1, NextTypeOK, PTL DEF Spec

\* No caller and no pattern of arrivals gets more through the limiter than a
\* burst and what the window refilled, whatever the constants.
THEOREM WindowIsBoundedAlways == Spec => []WindowIsBounded
<1>1. Init => Ledger /\ WindowIsBounded
  BY InitBucket
<1>2. TypeOK /\ TypeOK' /\ Ledger /\ WindowIsBounded /\ [Next]_vars
        => Ledger' /\ WindowIsBounded'
  BY NextLedger
<1> QED
  BY <1>1, <1>2, BucketTypeCorrect, PTL DEF Spec

\* The wait stays what is missing from a whole token, or one unit less.
LEMMA NextWaitMatchesLevel ==
    ASSUME TypeOK, WaitMatchesLevel, [Next]_vars
    PROVE  WaitMatchesLevel'
<1> USE BucketAssumption, CapacityType, RefilledType DEF WaitMatchesLevel
<1>1. CASE Admit
  BY <1>1 DEF Admit
<1>2. CASE RefuseFor
  BY <1>2 DEF RefuseFor
<1>3. CASE newTokenBucket
  BY <1>3 DEF newTokenBucket
<1>4. CASE Tick \/ UNCHANGED vars
  BY <1>4 DEF Tick, vars
<1> QED
  BY <1>1, <1>2, <1>3, <1>4 DEF Next, take

\* After a refusal the next call is admitted from two units after the announced
\* moment on: one for the wait, one for the level.
LEMMA TakeAfterRefusal ==
    ASSUME TypeOK, WaitMatchesLevel, take, ~ok, clock >= last + wait + 2
    PROVE  ok'
<1>1. wait >= Refill - level - 1 /\ wait \in Nat /\ Refill \in Nat /\ level \in Nat
  BY BucketAssumption, CapacityType DEF WaitMatchesLevel, WaitFor, TypeOK
<1>2. Sum > Refill
  BY <1>1 DEF TypeOK, Sum
<1>3. ~RefuseFor
  BY <1>1, <1>2 DEF RefuseFor, TypeOK, Sum
<1>4. Admit
  BY <1>3 DEF take
<1> QED
  BY <1>4 DEF Admit

\* A quotient falls short of the number by less than the divisor.
LEMMA QuotientBound ==
    ASSUME NEW n \in Nat, NEW d \in Nat \ {0}, NEW q \in Int, q = n \div d
    PROVE  n < q * d + d
BY SMTT(30)

\* Rounded up to seconds, a wait never gets shorter.
LEMMA RetryAfterCovers ==
    ASSUME NEW w \in Nat
    PROVE  retryAfterSeconds(w) * Second \in Int /\ retryAfterSeconds(w) * Second >= w
<1>1. Second \in Nat \ {0} /\ w + Second - 1 \in Nat
  BY BucketAssumption
<1>2. PICK q \in Int : q = (w + Second - 1) \div Second
  BY <1>1
<1>3. w + Second - 1 < q * Second + Second
  BY <1>1, <1>2, QuotientBound
<1>4. q * Second \in Int /\ q * Second >= w
  BY <1>1, <1>3
<1>5. CASE q < 1
  <2>1. q * Second <= 0
    BY <1>1, <1>5
  <2>2. retryAfterSeconds(w) = 1
    BY <1>2, <1>5 DEF retryAfterSeconds
  <2> QED
    BY <1>1, <1>4, <2>1, <2>2
<1>6. CASE q >= 1
  <2>1. retryAfterSeconds(w) = q
    BY <1>2, <1>6 DEF retryAfterSeconds
  <2> QED
    BY <1>4, <2>1
<1> QED
  BY <1>5, <1>6

\* A client that waits as Retry-After told it, and two clock units for rounding,
\* is admitted if nobody else came.
THEOREM RetryAfterIsHonouredAlways == Spec => RetryAfterIsHonoured
<1>1. Init => WaitMatchesLevel
  BY InitBucket
<1>2. TypeOK /\ WaitMatchesLevel /\ [Next]_vars => WaitMatchesLevel'
  BY NextWaitMatchesLevel
<1>3. ASSUME TypeOK, WaitMatchesLevel, take, ~ok,
             clock >= last + retryAfterSeconds(wait) * Second + 2
      PROVE  ok'
  <2>1. wait \in Nat /\ last \in Nat /\ clock \in Nat
    BY <1>3, BucketAssumption DEF TypeOK
  <2>2. PICK told \in Int : told = retryAfterSeconds(wait) * Second
    BY <2>1, RetryAfterCovers
  <2>3. told >= wait
    BY <2>1, <2>2, RetryAfterCovers
  <2>4. clock >= last + wait + 2
    BY <1>3, <2>1, <2>2, <2>3
  <2> QED
    BY <1>3, <2>4, TakeAfterRefusal
<1>4. TypeOK /\ WaitMatchesLevel /\ [Next]_vars
        => [take /\ ~ok /\ clock >= last + retryAfterSeconds(wait) * Second + 2 => ok']_vars
  BY <1>3
<1> QED
  BY <1>1, <1>2, <1>4, BucketTypeCorrect, PTL DEF Spec, RetryAfterIsHonoured
=============================================================================
