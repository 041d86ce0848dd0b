---------------------------- MODULE TokenBucket ----------------------------
(***************************************************************************)
(* The limiter in front of POST /api/setup and POST /api/signin            *)
(* (internal/server/ratelimit.go): one counter per route, shared by all    *)
(* its callers, refilled by the clock when it is read.                     *)
(*                                                                         *)
(* The code counts tokens in fractions, elapsed / refill for every moment  *)
(* that passes.  Here the level is counted in clock units instead, one     *)
(* token being worth Refill units: the same arithmetic without fractions.  *)
(* What float64 makes of it is that the counter is not quite the level.    *)
(* It is within one unit of it, which holds for as many calls as it takes  *)
(* rounding to add up to a nanosecond (about a million, since the bucket   *)
(* was last full).  So a bucket holding one token to the unit may be a     *)
(* hair short of it, and a wait, cut off to whole units, may be one short. *)
(* A call of take holds the mutex from end to end, so it is one action,    *)
(* whoever makes it.                                                       *)
(***************************************************************************)
EXTENDS Integers, Sequences

CONSTANTS
    Burst,      \* setupBurst, signinBurst
    Refill,     \* setupRefill, signinRefill, in clock units
    Second,     \* clock units in a second
    MaxClock    \* bound on the clock

ASSUME BucketAssumption ==
    /\ Burst \in Nat \ {0}
    /\ Refill \in Nat \ {0}
    /\ Second \in Nat \ {0}
    /\ MaxClock \in Nat

VARIABLES
    clock,      \* what time.Now reads
    level,      \* b.tokens, in clock units
    last,       \* b.last
    ok,         \* whether the last call of take admitted its caller
    wait,       \* and the wait it returned
    admitted    \* the moments this process admitted an attempt at, in order

vars == <<clock, level, last, ok, wait, admitted>>

Capacity == Burst * Refill

\* Types: the counter stays between empty and the burst, the moment of the last
\* call is never ahead of the clock, and no wait is longer than one token takes.
TypeOK ==
    /\ clock \in Nat
    /\ level \in 0 .. Capacity
    /\ last \in 0 .. clock
    /\ ok \in BOOLEAN
    /\ wait \in 0 .. Refill
    /\ admitted \in Seq(Nat)

----------------------------------------------------------------------------
(* take and newTokenBucket.                                                *)

\* The time since the last call is added to the counter, up to a full bucket.
Sum == level + (clock - last)
Refilled == IF Sum < Capacity THEN Sum ELSE Capacity

\* The waits (1 - tokens) * refill can come to, truncated.
WaitFor(have) == {Refill - have, Refill - have - 1} \cap Nat

\* Mutation: any fraction of a token will do.
AdmitOnFraction ==
    /\ Refilled > 0
    /\ level' = IF Refilled < Refill THEN 0 ELSE Refilled - Refill
    /\ ok' = TRUE
    /\ wait' = 0
    /\ admitted' = Append(admitted, clock)
    /\ last' = clock
    /\ UNCHANGED clock

Admit ==
    /\ Refilled >= Refill
    /\ level' = Refilled - Refill
    /\ ok' = TRUE
    /\ wait' = 0
    /\ admitted' = Append(admitted, clock)
    /\ last' = clock
    /\ UNCHANGED clock

RefuseFor ==
    /\ Sum <= Refill
    /\ level' = Refilled
    /\ ok' = FALSE
    /\ wait' \in WaitFor(Refilled)
    /\ last' = clock
    /\ UNCHANGED <<clock, admitted>>

take == Admit \/ RefuseFor

\* Mutation: the seconds are rounded down.
RoundedDown(w) == LET seconds == w \div Second IN IF seconds < 1 THEN 1 ELSE seconds

\* The header a refusal carries: whole seconds, rounded up, at least one.
retryAfterSeconds(w) ==
    LET seconds == (w + Second - 1) \div Second
    IN IF seconds < 1 THEN 1 ELSE seconds

\* The bucket lives in the process: a restart of the service starts a full one.
newTokenBucket ==
    /\ level' = Capacity
    /\ last' = clock
    /\ ok' = TRUE
    /\ wait' = 0
    /\ admitted' = << >>
    /\ UNCHANGED clock

Tick ==
    /\ clock < MaxClock
    /\ clock' = clock + 1
    /\ UNCHANGED <<level, last, ok, wait, admitted>>

Init ==
    /\ clock = 0
    /\ level = Capacity
    /\ last = clock
    /\ ok = TRUE
    /\ wait = 0
    /\ admitted = << >>

Next == take \/ newTokenBucket \/ Tick

Spec == Init /\ [][Next]_vars

----------------------------------------------------------------------------
(* Properties.                                                             *)

\* In whatever window it is measured, from any admitted attempt to any later
\* one, a process admits no more than a burst and what that window refilled:
\* "guessing runs at ten attempts a minute" (session.go), also for callers who
\* save attempts up, arrive together, or arrive at fractions of a refill.
WindowIsBounded ==
    \A i, j \in 1 .. Len(admitted) :
        i <= j => (j - i + 1) * Refill <= Capacity + (admitted[j] - admitted[i])

\* A client that was refused and stays away for as long as Retry-After says is
\* admitted, if nobody was quicker: the header never sends it back too early.
\* Two units are left to the rounding of the level and of the wait, nanoseconds
\* for a header that counts seconds.
RetryAfterIsHonoured ==
    [][take /\ ~ok /\ clock >= last + retryAfterSeconds(wait) * Second + 2 => ok']_vars
=============================================================================
