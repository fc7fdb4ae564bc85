--------------------------- MODULE PacingLimiter ---------------------------
(***************************************************************************)
(* The rate limiter of src/data/pacing.py, shared by any number of threads *)
(* through its lock.                                                       *)
(*                                                                         *)
(* Time passes in ticks.  The clock itself is not a variable: a timestamp  *)
(* is kept as its age, a deadline as the time left, and both stop counting *)
(* where no comparison of the code can tell them apart any more, so that   *)
(* the clock runs for ever over finitely many states.  A tick may pass     *)
(* between any two steps of a thread, also while it holds the lock: the    *)
(* code reads time.monotonic() afresh in almost every statement.           *)
(*                                                                         *)
(* Tokens are counted in units, TokenUnits to the token, so that the       *)
(* fractions of the code are exact: the bucket gains Refill units a tick.  *)
(* Hence requests_per_minute = Refill * TicksPerMinute / TokenUnits.       *)
(***************************************************************************)
EXTENDS Integers, Sequences, FiniteSets

CONSTANTS
  Threads,         \* the threads that share the limiter
  NoThread,        \* nobody holds the lock
  Max,             \* max_requests: 60
  Window,          \* window_seconds: 600 s, in ticks
  Margin,          \* the 0.1 s added to the wait for the window, in ticks
  SleepCap,        \* the longest sleep: 5.0 s, in ticks
  TokenUnits,      \* a token, in units
  Refill,          \* requests_per_minute / 60 per second, in units a tick
  TicksPerMinute,
  Timeouts,        \* the timeouts acquire may be given, in ticks
  Cooldowns,       \* the lengths enter_cooldown is called with, in ticks
  MaxViolations    \* how often IBKR reports a pacing violation (error 420)

NoTimeout == -1    \* timeout=None

ASSUME PacingAssumption ==
  /\ NoThread \notin Threads
  /\ {Max, Window, Margin, SleepCap, TokenUnits, Refill, TicksPerMinute} \subseteq Nat \ {0}
  /\ Timeouts \subseteq Nat
  /\ Cooldowns \subseteq Nat
  /\ MaxViolations \in Nat

\* __post_init__ refuses requests_per_minute > 6.
ASSUME RateAssumption == Refill * TicksPerMinute <= 6 * TokenUnits

Least(a, b) == IF a <= b THEN a ELSE b

\* _capacity = min(5.0, requests_per_minute), in units
Capacity == Least(5 * TokenUnits, Refill * TicksPerMinute)

VARIABLES
  timestamps,   \* _timestamps: ages of the grants remembered, oldest first
  tokens,       \* _tokens, in units
  sinceRefill,  \* the age of _last_refill, counted up to Capacity
  cooldown,     \* what is left until _cooldown_until
  lock,         \* the thread that holds _lock between two of its steps
  pc,           \* where each thread is in acquire
  wait,         \* its local wait
  left,         \* what is left until its deadline
  rest,         \* what is left of its sleep
  violations,   \* how many pacing violations were reported so far
  issued        \* ages of the grants of the last Window ticks, as IBKR counts
                \* them: for the properties, the code has no such variable

limiter == <<timestamps, tokens, sinceRefill, cooldown>>
thread  == <<pc, wait, left, rest>>
vars    == <<limiter, lock, thread, violations, issued>>

Init ==
  /\ timestamps = << >>
  /\ tokens = TokenUnits        \* "a partial reserve, not a full one"
  /\ sinceRefill = 0
  /\ cooldown = 0
  /\ lock = NoThread
  /\ pc = [t \in Threads |-> "idle"]
  /\ wait = [t \in Threads |-> 0]
  /\ left = [t \in Threads |-> NoTimeout]
  /\ rest = [t \in Threads |-> 0]
  /\ violations = 0
  /\ issued = << >>

-----------------------------------------------------------------------------
(* Time. *)

Old == Window + 1     \* older than this is all the same

Older(ages) == [k \in DOMAIN ages |-> Least(ages[k] + 1, Old)]

\* kept is what is left of ages after a loop of popleft that stops at the
\* first age within the limit.
WithoutOlder(ages, limit, kept) ==
  \E n \in 0 .. Len(ages) :
    /\ \A k \in 1 .. n : ages[k] > limit
    /\ n < Len(ages) => ages[n + 1] <= limit
    /\ kept = SubSeq(ages, n + 1, Len(ages))

\* Mutants: a grant leaves the window a tick too early, or never.
EvictedEarly(kept) == WithoutOlder(timestamps, Window - 1, kept)

EvictedNever(kept) == kept = timestamps

\* "while _timestamps and _timestamps[0] < now - window_seconds"
Evicted(kept) == WithoutOlder(timestamps, Window, kept)

CountDown(n) == IF n > 0 THEN n - 1 ELSE n

Tick ==
  /\ timestamps' = Older(timestamps)
  /\ WithoutOlder(Older(issued), Window, issued')
  /\ sinceRefill' = Least(sinceRefill + 1, Capacity)
  /\ cooldown' = CountDown(cooldown)
  /\ left' = [t \in Threads |-> CountDown(left[t])]
  /\ rest' = [t \in Threads |-> CountDown(rest[t])]
  /\ UNCHANGED <<tokens, lock, pc, wait, violations>>

-----------------------------------------------------------------------------
(* acquire, one thread. *)

\* acquire returns or raises, and its locals are gone.
Return(t) ==
  /\ pc' = [pc EXCEPT ![t] = "idle"]
  /\ wait' = [wait EXCEPT ![t] = 0]
  /\ left' = [left EXCEPT ![t] = NoTimeout]

Acquire(t) ==
  /\ pc[t] = "idle"
  /\ \E timeout \in Timeouts \cup {NoTimeout} : left' = [left EXCEPT ![t] = timeout]
  /\ pc' = [pc EXCEPT ![t] = "loop"]
  /\ UNCHANGED <<limiter, lock, wait, rest, violations, issued>>

\* Mutant: the bucket has no capacity.
RefilledWithoutCap == tokens + sinceRefill * Refill

Refilled == Least(Capacity, tokens + sinceRefill * Refill)

\* The time until the bucket holds a token: (1 - _tokens) / rate, rounded up.
TokenWait(units) == (TokenUnits - units + Refill - 1) \div Refill

\* "with self._lock: wait = self._wait_needed()", in its three outcomes: the
\* lock is let go again unless the next step is _consume.
MustWait(t, n) ==
  /\ wait' = [wait EXCEPT ![t] = n]
  /\ pc' = [pc EXCEPT ![t] = "decide"]
  /\ UNCHANGED lock

WaitForCooldown(t) ==
  /\ pc[t] = "loop" /\ lock = NoThread
  /\ cooldown > 0
  /\ MustWait(t, cooldown)
  /\ UNCHANGED <<limiter, left, rest, violations, issued>>

WaitForWindow(t) ==
  /\ pc[t] = "loop" /\ lock = NoThread
  /\ cooldown = 0
  /\ Evicted(timestamps')
  /\ Len(timestamps') >= Max
  /\ MustWait(t, Window - timestamps'[1] + Margin)
  /\ UNCHANGED <<tokens, sinceRefill, cooldown, left, rest, violations, issued>>

\* Mutants: > for >= in the check of the window, and a refill that leaves
\* _last_refill where it was.
CheckTokensOneTooMany(t) ==
  /\ pc[t] = "loop" /\ lock = NoThread
  /\ cooldown = 0
  /\ Evicted(timestamps')
  /\ Len(timestamps') <= Max
  /\ tokens' = Refilled
  /\ sinceRefill' = 0
  /\ \/ Refilled < TokenUnits /\ MustWait(t, TokenWait(Refilled))
     \/ /\ Refilled >= TokenUnits
        /\ wait' = [wait EXCEPT ![t] = 0]
        /\ pc' = [pc EXCEPT ![t] = "consume"]
        /\ lock' = t
  /\ UNCHANGED <<cooldown, left, rest, violations, issued>>

CheckTokensRefillingTwice(t) ==
  /\ pc[t] = "loop" /\ lock = NoThread
  /\ cooldown = 0
  /\ Evicted(timestamps')
  /\ Len(timestamps') < Max
  /\ tokens' = Refilled
  /\ \/ Refilled < TokenUnits /\ MustWait(t, TokenWait(Refilled))
     \/ /\ Refilled >= TokenUnits
        /\ wait' = [wait EXCEPT ![t] = 0]
        /\ pc' = [pc EXCEPT ![t] = "consume"]
        /\ lock' = t
  /\ UNCHANGED <<sinceRefill, cooldown, left, rest, violations, issued>>

CheckTokens(t) ==
  /\ pc[t] = "loop" /\ lock = NoThread
  /\ cooldown = 0
  /\ Evicted(timestamps')
  /\ Len(timestamps') < Max
  /\ tokens' = Refilled
  /\ sinceRefill' = 0
  /\ \/ /\ Refilled < TokenUnits
        /\ MustWait(t, TokenWait(Refilled))
     \/ /\ Refilled >= TokenUnits
        /\ wait' = [wait EXCEPT ![t] = 0]
        /\ pc' = [pc EXCEPT ![t] = "consume"]
        /\ lock' = t
  /\ UNCHANGED <<cooldown, left, rest, violations, issued>>

\* _consume, and the return from acquire.
Consume(t) ==
  /\ pc[t] = "consume"
  /\ tokens' = tokens - TokenUnits
  /\ timestamps' = Append(timestamps, 0)
  /\ issued' = Append(issued, 0)
  /\ lock' = NoThread
  /\ Return(t)
  /\ UNCHANGED <<sinceRefill, cooldown, rest, violations>>

\* The deadline is now or earlier when nothing is left: wait is positive.
TimesOut(t) == left[t] # NoTimeout /\ wait[t] > left[t]

RaiseTimeout(t) ==
  /\ pc[t] = "decide" /\ TimesOut(t)
  /\ Return(t)
  /\ UNCHANGED <<limiter, lock, rest, violations, issued>>

Sleep(t) ==
  /\ pc[t] = "decide" /\ ~ TimesOut(t)
  /\ rest' = [rest EXCEPT ![t] = Least(wait[t], SleepCap)]
  /\ wait' = [wait EXCEPT ![t] = 0]
  /\ pc' = [pc EXCEPT ![t] = "sleep"]
  /\ UNCHANGED <<limiter, lock, left, violations, issued>>

Wake(t) ==
  /\ pc[t] = "sleep" /\ rest[t] = 0
  /\ pc' = [pc EXCEPT ![t] = "loop"]
  /\ UNCHANGED <<limiter, lock, wait, left, rest, violations, issued>>

-----------------------------------------------------------------------------
(* The other calls. *)

\* Mutant: enter_cooldown does not take the lock.
EnterCooldownUnlocked ==
  /\ violations < MaxViolations
  /\ \E seconds \in Cooldowns : cooldown' = seconds
  /\ violations' = violations + 1
  /\ UNCHANGED <<timestamps, tokens, sinceRefill, lock, thread, issued>>

\* IBKR answers a request with error 420, and the caller says so.
EnterCooldown ==
  /\ violations < MaxViolations
  /\ lock = NoThread
  /\ \E seconds \in Cooldowns : cooldown' = seconds
  /\ violations' = violations + 1
  /\ UNCHANGED <<timestamps, tokens, sinceRefill, lock, thread, issued>>

\* stats reports, and evicts on the way.  in_cooldown and estimate_seconds
\* change nothing.
Stats ==
  /\ lock = NoThread
  /\ Evicted(timestamps')
  /\ UNCHANGED <<tokens, sinceRefill, cooldown, lock, thread, violations, issued>>

-----------------------------------------------------------------------------
Step(t) ==
  \/ WaitForCooldown(t) \/ WaitForWindow(t) \/ CheckTokens(t)
  \/ Consume(t)
  \/ RaiseTimeout(t) \/ Sleep(t) \/ Wake(t)

Next ==
  \/ Tick
  \/ \E t \in Threads : Acquire(t) \/ Step(t)
  \/ EnterCooldown
  \/ Stats

Spec == Init /\ [][Next]_vars

\* Time goes on, and a thread that can go on does.  Nobody has to call.
FairSpec ==
  /\ Spec
  /\ WF_vars(Tick)
  /\ \A t \in Threads : WF_vars(Step(t))

-----------------------------------------------------------------------------
(* What is checked, and proved in PacingProofs. *)

TypeOK ==
  /\ timestamps \in Seq(0 .. Old)
  /\ issued \in Seq(0 .. Window)
  /\ tokens \in 0 .. (Capacity + TokenUnits)
  /\ sinceRefill \in 0 .. Capacity
  /\ cooldown \in Nat
  /\ lock \in Threads \cup {NoThread}
  /\ pc \in [Threads -> {"idle", "loop", "consume", "decide", "sleep"}]
  /\ wait \in [Threads -> Nat]
  /\ left \in [Threads -> Nat \cup {NoTimeout}]
  /\ rest \in [Threads -> 0 .. SleepCap]
  /\ violations \in 0 .. MaxViolations

\* IBKR's rule, as IBKR counts: no window of Window ticks, its two ends
\* included, ever holds more than Max grants, whichever threads they go to
\* and however long the bucket has been filling ("hard-blocks if 60 requests
\* have gone out in the last 10 min").
WindowRespected == Len(issued) <= Max

\* The strengthening: the limiter has not forgotten any grant that IBKR still
\* counts, it remembers them in order, and while a thread stands between the
\* check and _consume there is room for one more and no cooldown.
NothingForgotten ==
  LET n == Len(timestamps)
      m == Len(issued) IN
    /\ m <= n /\ n <= Max
    /\ \A k \in 1 .. m : issued[k] = timestamps[n - m + k]
    /\ \A k, l \in 1 .. m : k <= l => issued[k] >= issued[l]
    /\ \A t \in Threads : pc[t] = "consume" <=> lock = t
    /\ lock # NoThread => n < Max /\ cooldown = 0 /\ tokens >= TokenUnits

\* No grant is given during a cooldown, not even to a thread that had already
\* passed the checks when the cooldown was entered ("Nothing gets requested
\* until the cooldown expires").
NoGrantInCooldown ==
  [][Len(issued') > Len(issued) => cooldown = 0]_vars

\* The bucket smooths, also after an idle hour: the grants of the last a ticks
\* cost no more than a full bucket, what a ticks add to it, and the one token of
\* a thread that had its check passed before and was slow to take it.  A full
\* bucket is min(5, requests_per_minute) tokens, so the head of pacing.py is wrong
\* about it: "A bucket that has been idle for an hour has a full reserve and will
\* happily fire 60 requests in ten seconds".  This one fires 7 at most.
BurstBounded ==
  \A a \in 0 .. Window :
    Cardinality({k \in DOMAIN issued : issued[k] <= a}) * TokenUnits
      <= Capacity + TokenUnits + Refill * a

\* acquire blocks, but not all of its callers for ever: as long as somebody is
\* in it, calls go on ending, with a grant or with TimeoutError.  Which thread
\* gets the next grant is left to the lock.
NobodyWaitsInVain ==
  \/ []<>(\A t \in Threads : pc[t] = "idle")
  \/ []<><<\E t \in Threads : pc[t] # "idle" /\ pc'[t] = "idle">>_vars

\* "Block until one request may be made": every single call ends.
AcquireReturns == \A t \in Threads : pc[t] # "idle" ~> pc[t] = "idle"
=============================================================================
