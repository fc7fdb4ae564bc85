---------------------------- MODULE PacingProofs ----------------------------
(***************************************************************************)
(* IBKR's rule, for any number of threads, any window and any rate.  That  *)
(* proof needs no fact about the bucket or the rate: the sliding window    *)
(* alone guarantees the rule ("the one that actually saves you").  The     *)
(* last part proves what the bucket adds: how large a burst can be.        *)
(***************************************************************************)
EXTENDS PacingLimiter, SequenceTheorems, FiniteSetTheorems, TLAPS

(* What is known of a list of ages after each of the three changes.        *)

Ages == Seq(0 .. Old)

\* issued is the end of timestamps, and all of it is within the window.
Suffix(ts, is) ==
  /\ Len(is) <= Len(ts)
  /\ \A k \in 1 .. Len(is) : is[k] = ts[Len(ts) - Len(is) + k]

Fresh(is) ==
  /\ \A k, l \in 1 .. Len(is) : k <= l => is[k] >= is[l]
  /\ \A k \in 1 .. Len(is) : is[k] <= Window

LEMMA Numbers == Window \in Nat /\ Max \in Nat /\ Old \in Nat /\ Old = Window + 1
                 /\ Max > 0 /\ NoThread \notin Threads
  BY PacingAssumption DEF Old

LEMMA Elements ==
  ASSUME NEW S, NEW s \in Seq(S)
  PROVE  Len(s) \in Nat /\ \A k \in 1 .. Len(s) : s[k] \in S
  OBVIOUS

LEMMA Retyped ==
  ASSUME NEW S, NEW T, NEW s \in Seq(S), \A k \in 1 .. Len(s) : s[k] \in T
  PROVE  s \in Seq(T)
  OBVIOUS

LEMMA OlderAges ==
  ASSUME NEW ages \in Ages
  PROVE  /\ Older(ages) \in Ages
         /\ Len(Older(ages)) = Len(ages)
         /\ \A k \in 1 .. Len(ages) : Older(ages)[k] = Least(ages[k] + 1, Old)
  <1>1. DOMAIN ages = 1 .. Len(ages) /\ Len(ages) \in Nat
    BY DEF Ages
  <1>2. \A k \in 1 .. Len(ages) : Least(ages[k] + 1, Old) \in 0 .. Old
    BY Numbers DEF Ages, Least
  <1>3. Older(ages) = [k \in 1 .. Len(ages) |-> Least(ages[k] + 1, Old)]
    BY <1>1 DEF Older
  <1> QED
    BY <1>1, <1>2, <1>3 DEF Ages

LEMMA Kept ==
  ASSUME NEW ages \in Ages, NEW n \in 0 .. Len(ages)
  PROVE  /\ SubSeq(ages, n + 1, Len(ages)) \in Ages
         /\ Len(SubSeq(ages, n + 1, Len(ages))) = Len(ages) - n
         /\ \A k \in 1 .. Len(ages) - n :
              SubSeq(ages, n + 1, Len(ages))[k] = ages[n + k]
  <1>3. Len(ages) \in Nat /\ \A k \in 1 .. Len(ages) : ages[k] \in 0 .. Old
    BY Elements DEF Ages
  <1>1. Len(ages) \in Nat /\ n \in Nat /\ \A k \in n + 1 .. Len(ages) : ages[k] \in 0 .. Old
    BY <1>3
  <1>2. /\ SubSeq(ages, n + 1, Len(ages)) \in Seq(0 .. Old)
        /\ Len(SubSeq(ages, n + 1, Len(ages))) =
             IF n + 1 <= Len(ages) THEN Len(ages) - (n + 1) + 1 ELSE 0
        /\ \A k \in 1 .. Len(ages) - (n + 1) + 1 :
             SubSeq(ages, n + 1, Len(ages))[k] = ages[n + 1 + k - 1]
    BY <1>1, SubSeqProperties
  <1> QED
    BY <1>1, <1>2 DEF Ages

\* Eviction from the front of what the limiter remembers loses nothing that
\* IBKR still counts.
LEMMA SuffixAfterEviction ==
  ASSUME NEW ts \in Ages, NEW is \in Ages, NEW kept, Suffix(ts, is), Fresh(is),
         WithoutOlder(ts, Window, kept)
  PROVE  kept \in Ages /\ Suffix(kept, is) /\ Len(kept) <= Len(ts)
  <1>1. PICK n \in 0 .. Len(ts) :
          /\ \A k \in 1 .. n : ts[k] > Window
          /\ kept = SubSeq(ts, n + 1, Len(ts))
    BY DEF WithoutOlder
  <1>2. /\ kept \in Ages /\ Len(kept) = Len(ts) - n
        /\ \A k \in 1 .. Len(ts) - n : kept[k] = ts[n + k]
    BY <1>1, Kept
  <1>3. Len(ts) \in Nat /\ Len(is) \in Nat /\ n \in Nat
    BY DEF Ages
  <1>4. n <= Len(ts) - Len(is)
    <2> SUFFICES ASSUME n > Len(ts) - Len(is) PROVE FALSE
      BY <1>3
    <2> DEFINE j == n - (Len(ts) - Len(is))
    <2>1. j \in 1 .. Len(is) /\ Len(ts) - Len(is) + j = n
      BY <1>1, <1>3 DEF Suffix
    <2>2. is[j] = ts[n] /\ is[j] <= Window
      BY <2>1 DEF Suffix, Fresh
    <2>3. ts[n] > Window
      <3>1. n \in 1 .. n
        BY <1>3 DEF Suffix
      <3> QED
        BY <1>1, <3>1
    <2>4. is[j] \in Nat
      BY <2>1, Numbers DEF Ages
    <2> QED
      BY <2>2, <2>3, <2>4, Numbers
  <1>5. \A k \in 1 .. Len(is) : is[k] = kept[Len(kept) - Len(is) + k]
    <2> SUFFICES ASSUME NEW k \in 1 .. Len(is)
                 PROVE  is[k] = kept[Len(kept) - Len(is) + k]
      OBVIOUS
    <2>1. /\ Len(kept) - Len(is) + k \in 1 .. Len(ts) - n
          /\ n + (Len(kept) - Len(is) + k) = Len(ts) - Len(is) + k
      BY <1>2, <1>3, <1>4
    <2> QED
      BY <1>2, <2>1 DEF Suffix
  <1> QED
    BY <1>2, <1>3, <1>4, <1>5 DEF Suffix

\* A tick ages both lists alike, and IBKR stops counting what leaves the window.
LEMMA SuffixAfterTick ==
  ASSUME NEW ts \in Ages, NEW is \in Ages, NEW kept, Suffix(ts, is), Fresh(is),
         WithoutOlder(Older(is), Window, kept)
  PROVE  kept \in Ages /\ Suffix(Older(ts), kept) /\ Fresh(kept) /\ Len(kept) <= Len(is)
  <1> DEFINE old == Older(is)
  <1>1. PICK n \in 0 .. Len(old) :
          /\ n < Len(old) => old[n + 1] <= Window
          /\ kept = SubSeq(old, n + 1, Len(old))
    BY DEF WithoutOlder
  <1>2. /\ old \in Ages /\ Len(old) = Len(is)
        /\ \A k \in 1 .. Len(is) : old[k] = Least(is[k] + 1, Old)
    BY OlderAges
  <1>3. /\ Older(ts) \in Ages /\ Len(Older(ts)) = Len(ts)
        /\ \A k \in 1 .. Len(ts) : Older(ts)[k] = Least(ts[k] + 1, Old)
    BY OlderAges
  <1> HIDE DEF old
  <1>4. /\ kept \in Ages /\ Len(kept) = Len(is) - n
        /\ \A k \in 1 .. Len(is) - n : kept[k] = old[n + k]
    BY <1>1, <1>2, Kept
  <1>5. /\ Len(ts) \in Nat /\ Len(is) \in Nat /\ n \in Nat
        /\ \A k \in 1 .. Len(is) : is[k] \in Nat
    BY <1>2, Numbers DEF Ages
  <1>6. Suffix(Older(ts), kept)
    <2> SUFFICES ASSUME NEW k \in 1 .. Len(kept)
                 PROVE  kept[k] = Older(ts)[Len(ts) - Len(kept) + k]
      BY <1>3, <1>4, <1>5 DEF Suffix
    <2>1. /\ n + k \in 1 .. Len(is)
          /\ Len(ts) - Len(is) + (n + k) = Len(ts) - Len(kept) + k
          /\ Len(ts) - Len(kept) + k \in 1 .. Len(ts)
      BY <1>4, <1>5 DEF Suffix
    <2>2. is[n + k] = ts[Len(ts) - Len(kept) + k]
      BY <2>1 DEF Suffix
    <2> QED
      BY <1>2, <1>3, <1>4, <2>1, <2>2
  <1>7. \A k, l \in 1 .. Len(is) : k <= l => old[k] >= old[l]
    BY <1>2, <1>5, Numbers DEF Fresh, Least
  <1>8. Fresh(kept)
    <2>1. ASSUME NEW k \in 1 .. Len(kept), NEW l \in 1 .. Len(kept), k <= l
          PROVE  kept[k] >= kept[l]
      <3>1. n + k \in 1 .. Len(is) /\ n + l \in 1 .. Len(is) /\ n + k <= n + l
        BY <1>4, <1>5, <2>1
      <3> QED
        BY <1>4, <1>7, <3>1
    <2>2. ASSUME NEW k \in 1 .. Len(kept)
          PROVE  kept[k] <= Window
      <3>1. n + k \in 1 .. Len(is) /\ n + 1 \in 1 .. Len(is) /\ n + 1 <= n + k /\ n < Len(is)
        BY <1>4, <1>5
      <3>2. old[n + 1] <= Window /\ old[n + 1] >= old[n + k]
        BY <1>1, <1>2, <1>7, <3>1
      <3>3. old[n + 1] \in Int /\ old[n + k] \in Int
        <4>1. \A j \in 1 .. Len(old) : old[j] \in 0 .. Old
          BY <1>2, Elements DEF Ages
        <4> QED
          BY <1>2, <3>1, <4>1, Numbers
      <3> QED
        BY <1>4, <3>1, <3>2, <3>3, Numbers
    <2> QED
      BY <2>1, <2>2 DEF Fresh
  <1> QED
    BY <1>4, <1>5, <1>6, <1>8

LEMMA SuffixAfterGrant ==
  ASSUME NEW ts \in Ages, NEW is \in Ages, Suffix(ts, is), Fresh(is)
  PROVE  /\ Append(ts, 0) \in Ages /\ Append(is, 0) \in Ages
         /\ Suffix(Append(ts, 0), Append(is, 0)) /\ Fresh(Append(is, 0))
         /\ Len(Append(ts, 0)) = Len(ts) + 1 /\ Len(Append(is, 0)) = Len(is) + 1
  <1>1. 0 \in 0 .. Old
    BY Numbers
  <1>2. /\ Append(ts, 0) \in Ages /\ Append(is, 0) \in Ages
        /\ Len(Append(ts, 0)) = Len(ts) + 1 /\ Len(Append(is, 0)) = Len(is) + 1
        /\ \A k \in 1 .. Len(ts) : Append(ts, 0)[k] = ts[k]
        /\ \A k \in 1 .. Len(is) : Append(is, 0)[k] = is[k]
        /\ Append(ts, 0)[Len(ts) + 1] = 0 /\ Append(is, 0)[Len(is) + 1] = 0
        /\ Len(ts) \in Nat /\ Len(is) \in Nat
    BY <1>1 DEF Ages
  <1>3. \A k \in 1 .. Len(is) : is[k] \in Nat
    BY Numbers DEF Ages
  <1>4. Suffix(Append(ts, 0), Append(is, 0))
    BY <1>2 DEF Suffix
  <1>5. Fresh(Append(is, 0))
    BY <1>2, <1>3, Numbers DEF Fresh
  <1> QED
    BY <1>2, <1>4, <1>5

-----------------------------------------------------------------------------
(* The invariant and the theorems.                                         *)

Inv == TypeOK /\ NothingForgotten

LEMMA CapacityIsNat == Capacity \in Nat /\ TokenUnits \in Nat \ {0} /\ Refill \in Nat \ {0}
                       /\ SleepCap \in Nat /\ Margin \in Nat
  <1>1. /\ TokenUnits \in Nat \ {0} /\ Refill \in Nat \ {0} /\ TicksPerMinute \in Nat
        /\ SleepCap \in Nat /\ Margin \in Nat
    BY PacingAssumption
  <1>2. Refill * TicksPerMinute \in Nat /\ 5 * TokenUnits \in Nat
    BY <1>1
  <1> QED
    BY <1>1, <1>2 DEF Capacity, Least

LEMMA InvLists ==
  ASSUME Inv
  PROVE  /\ timestamps \in Ages /\ issued \in Ages
         /\ Suffix(timestamps, issued) /\ Fresh(issued)
         /\ Len(timestamps) <= Max
  <1>1. timestamps \in Ages /\ issued \in Ages
    BY Numbers DEF Inv, TypeOK, Ages
  <1>2. \A k \in 1 .. Len(issued) : issued[k] <= Window
    BY Numbers DEF Inv, TypeOK
  <1> QED
    BY <1>1, <1>2 DEF Inv, NothingForgotten, Suffix, Fresh

LEMMA ListsInv ==
  ASSUME timestamps \in Ages, issued \in Ages, Suffix(timestamps, issued), Fresh(issued)
  PROVE  /\ timestamps \in Seq(0 .. Old) /\ issued \in Seq(0 .. Window)
         /\ Len(issued) <= Len(timestamps)
         /\ \A k \in 1 .. Len(issued) :
              issued[k] = timestamps[Len(timestamps) - Len(issued) + k]
         /\ \A k, l \in 1 .. Len(issued) : k <= l => issued[k] >= issued[l]
  <1>1. \A k \in 1 .. Len(issued) : issued[k] \in 0 .. Window
    BY Numbers DEF Ages, Fresh
  <1>2. issued \in Seq(0 .. Window)
    BY <1>1, Retyped DEF Ages
  <1> QED
    BY <1>2 DEF Ages, Suffix, Fresh

LEMMA PacingInit == Init => Inv
  <1> SUFFICES ASSUME Init PROVE Inv
    OBVIOUS
  <1>1. /\ timestamps \in Seq(0 .. Old) /\ issued \in Seq(0 .. Window)
        /\ Len(timestamps) = 0 /\ Len(issued) = 0
    BY DEF Init
  <1>2. TypeOK
    BY <1>1, Numbers, CapacityIsNat, PacingAssumption DEF Init, TypeOK
  <1>3. NothingForgotten
    BY <1>1, Numbers DEF Init, NothingForgotten
  <1> QED
    BY <1>2, <1>3 DEF Inv

\* Everything in the invariant that is not about the two lists.
Rest ==
  /\ tokens \in 0 .. (Capacity + TokenUnits)
  /\ sinceRefill \in 0 .. Capacity
  /\ cooldown \in Nat
  /\ lock \in Threads \cup {NoThread}
  /\ pc \in [Threads -> {"idle", "loop", "consume", "decide", "sleep"}]
  /\ wait \in [Threads -> Nat]
  /\ left \in [Threads -> Nat \cup {NoTimeout}]
  /\ rest \in [Threads -> 0 .. SleepCap]
  /\ violations \in 0 .. MaxViolations
  /\ \A t \in Threads : pc[t] = "consume" <=> lock = t

Room == lock # NoThread =>
          Len(timestamps) < Max /\ cooldown = 0 /\ tokens >= TokenUnits

Lists == /\ timestamps \in Ages /\ issued \in Ages
         /\ Suffix(timestamps, issued) /\ Fresh(issued)
         /\ Len(timestamps) <= Max

LEMMA InvParts == Inv <=> Rest /\ Room /\ Lists
  <1>1. Inv => Lists
    BY InvLists DEF Lists
  <1>2. Inv => Rest /\ Room
    BY DEF Inv, TypeOK, NothingForgotten, Rest, Room
  <1>3. Rest /\ Room /\ Lists => Inv
    <2> SUFFICES ASSUME Rest, Room, Lists PROVE Inv
      OBVIOUS
    <2>1. TypeOK
      BY ListsInv DEF Rest, Lists, TypeOK
    <2>2. NothingForgotten
      BY ListsInv DEF Rest, Room, Lists, NothingForgotten
    <2> QED
      BY <2>1, <2>2 DEF Inv
  <1> QED
    BY <1>1, <1>2, <1>3

LEMMA WaitIsNat ==
  ASSUME NEW units \in Nat, units < TokenUnits
  PROVE  TokenWait(units) \in Nat
  <1>1. TokenUnits - units + Refill - 1 \in Nat
    BY CapacityIsNat
  <1> QED
    BY <1>1, CapacityIsNat DEF TokenWait

LEMMA RefilledType ==
  ASSUME Rest
  PROVE  Refilled \in 0 .. Capacity
  <1>1. sinceRefill * Refill \in Nat /\ tokens \in Nat
    BY CapacityIsNat DEF Rest
  <1> QED
    BY <1>1, CapacityIsNat DEF Refilled, Least

LEMMA PacingTick ==
  ASSUME Inv, Tick
  PROVE  Inv'
  <1>1. Rest /\ Room /\ Lists
    BY InvParts
  <1>2. /\ timestamps' \in Ages /\ issued' \in Ages
        /\ Suffix(timestamps', issued') /\ Fresh(issued')
        /\ Len(timestamps') = Len(timestamps)
    BY <1>1, SuffixAfterTick, OlderAges DEF Tick, Lists
  <1>3. Lists' /\ Room'
    BY <1>1, <1>2 DEF Lists, Room, Tick, CountDown
  <1>4. /\ sinceRefill' \in 0 .. Capacity /\ cooldown' \in Nat
        /\ left' \in [Threads -> Nat \cup {NoTimeout}]
        /\ rest' \in [Threads -> 0 .. SleepCap]
    BY <1>1, CapacityIsNat DEF Tick, Rest, Least, CountDown, NoTimeout
  <1>5. Rest'
    BY <1>1, <1>4 DEF Tick, Rest
  <1> QED
    BY <1>3, <1>5, InvParts, PTL

LEMMA PacingEvict ==
  ASSUME Lists, Evicted(timestamps'), issued' = issued
  PROVE  Lists' /\ Len(timestamps') <= Len(timestamps)
  <1>1. timestamps' \in Ages /\ Suffix(timestamps', issued)
        /\ Len(timestamps') <= Len(timestamps)
    BY SuffixAfterEviction DEF Lists, Evicted
  <1>2. Len(timestamps') \in Nat /\ Len(timestamps) \in Nat
    BY <1>1 DEF Lists, Ages
  <1> QED
    BY <1>1, <1>2, Numbers DEF Lists

\* What a step of acquire does to the control of one thread.
LEMMA PacingStep ==
  ASSUME Inv, NEW t \in Threads, Acquire(t) \/ Step(t)
  PROVE  Inv'
  <1>1. Rest /\ Room /\ Lists
    BY InvParts
  <1> USE CapacityIsNat, Numbers
  <1>2. CASE Acquire(t)
    <2>1. \A timeout \in Timeouts \cup {NoTimeout} : timeout \in Nat \cup {NoTimeout}
      BY PacingAssumption
    <2>2. Rest'
      BY <1>1, <1>2, <2>1 DEF Acquire, Rest, limiter
    <2>3. Room' /\ Lists'
      BY <1>1, <1>2 DEF Acquire, Room, Lists, limiter
    <2> QED
      BY <2>2, <2>3, InvParts, PTL
  <1>3. CASE WaitForCooldown(t)
    <2>1. Rest' /\ Room' /\ Lists'
      BY <1>1, <1>3 DEF WaitForCooldown, MustWait, Rest, Room, Lists, limiter
    <2> QED
      BY <2>1, InvParts, PTL
  <1>4. CASE WaitForWindow(t)
    <2>1. Lists'
      BY <1>1, <1>4, PacingEvict DEF WaitForWindow
    <2>2. Window - timestamps'[1] + Margin \in Nat
      <3>1. PICK n \in 0 .. Len(timestamps) :
              /\ n < Len(timestamps) => timestamps[n + 1] <= Window
              /\ timestamps' = SubSeq(timestamps, n + 1, Len(timestamps))
        BY <1>4 DEF WaitForWindow, Evicted, WithoutOlder
      <3>5. timestamps \in Ages /\ Len(timestamps) \in Nat /\ Len(timestamps') >= Max
        BY <1>1, <1>4, Elements DEF Lists, Ages, WaitForWindow
      <3>2. /\ Len(timestamps') = Len(timestamps) - n
            /\ \A k \in 1 .. Len(timestamps) - n : timestamps'[k] = timestamps[n + k]
            /\ Len(timestamps') >= Max /\ Len(timestamps) \in Nat
        BY <3>1, <3>5, Kept
      <3>3. timestamps'[1] = timestamps[n + 1] /\ timestamps[n + 1] <= Window
            /\ n + 1 \in 1 .. Len(timestamps)
        BY <3>1, <3>2
      <3>4. timestamps[n + 1] \in 0 .. Old
        BY <1>1, <3>3 DEF Lists, Ages
      <3> QED
        BY <3>3, <3>4
    <2>3. Rest' /\ Room'
      BY <1>1, <1>4, <2>2 DEF WaitForWindow, MustWait, Rest, Room
    <2> QED
      BY <2>1, <2>3, InvParts, PTL
  <1>5. CASE CheckTokens(t)
    <2>1. Lists'
      BY <1>1, <1>5, PacingEvict DEF CheckTokens
    <2>2. Refilled \in 0 .. Capacity
      BY <1>1, RefilledType
    <2> HIDE DEF Refilled
    <2>3. CASE Refilled < TokenUnits /\ MustWait(t, TokenWait(Refilled))
      <3>1. TokenWait(Refilled) \in Nat
        BY <2>2, <2>3, WaitIsNat
      <3> QED
        <4>1. Rest' /\ Room'
          BY <1>1, <1>5, <2>2, <2>3, <3>1 DEF CheckTokens, MustWait, Rest, Room
        <4> QED
          BY <2>1, <4>1, InvParts, PTL
    <2>4. CASE /\ Refilled >= TokenUnits
               /\ wait' = [wait EXCEPT ![t] = 0]
               /\ pc' = [pc EXCEPT ![t] = "consume"]
               /\ lock' = t
      <3>1. Rest' /\ Room'
        BY <1>1, <1>5, <2>2, <2>4 DEF CheckTokens, Rest, Room
      <3> QED
        BY <2>1, <3>1, InvParts, PTL
    <2> QED
      BY <1>5, <2>3, <2>4 DEF CheckTokens
  <1>6. CASE Consume(t)
    <2>1. lock = t /\ lock # NoThread
      BY <1>1, <1>6 DEF Consume, Rest
    <2>2. Len(timestamps) < Max /\ tokens >= TokenUnits
      BY <1>1, <2>1 DEF Room
    <2>3. Lists'
      <3>1. Len(timestamps) \in Nat
        BY <1>1 DEF Lists, Ages
      <3> QED
        BY <1>1, <1>6, <2>2, <3>1, SuffixAfterGrant DEF Consume, Lists
    <2>4. Rest' /\ Room'
      BY <1>1, <1>6, <2>1, <2>2 DEF Consume, Return, Rest, Room
    <2> QED
      BY <2>3, <2>4, InvParts, PTL
  <1>7. CASE RaiseTimeout(t)
    <2>1. Rest' /\ Room' /\ Lists'
      BY <1>1, <1>7 DEF RaiseTimeout, Return, Rest, Room, Lists, limiter
    <2> QED
      BY <2>1, InvParts, PTL
  <1>8. CASE Sleep(t)
    <2>1. Least(wait[t], SleepCap) \in 0 .. SleepCap
      BY <1>1 DEF Rest, Least
    <2>2. Rest' /\ Room' /\ Lists'
      BY <1>1, <1>8, <2>1 DEF Sleep, Rest, Room, Lists, limiter
    <2> QED
      BY <2>2, InvParts, PTL
  <1>9. CASE Wake(t)
    <2>1. Rest' /\ Room' /\ Lists'
      BY <1>1, <1>9 DEF Wake, Rest, Room, Lists, limiter
    <2> QED
      BY <2>1, InvParts, PTL
  <1> QED
    BY <1>2, <1>3, <1>4, <1>5, <1>6, <1>7, <1>8, <1>9 DEF Step

LEMMA PacingNext == Inv /\ [Next]_vars => Inv'
  <1> SUFFICES ASSUME Inv, [Next]_vars PROVE Inv'
    OBVIOUS
  <1>1. Rest /\ Room /\ Lists
    BY InvParts
  <1>2. CASE EnterCooldown
    <2>1. Rest' /\ Room' /\ Lists'
      BY <1>1, <1>2, PacingAssumption DEF EnterCooldown, Rest, Room, Lists, thread
    <2> QED
      BY <2>1, InvParts, PTL
  <1>3. CASE Stats
    <2>1. Lists'
      BY <1>1, <1>3, PacingEvict DEF Stats
    <2>2. Rest' /\ Room'
      BY <1>1, <1>3 DEF Stats, Rest, Room, thread
    <2> QED
      BY <2>1, <2>2, InvParts, PTL
  <1>4. CASE UNCHANGED vars
    BY <1>4 DEF vars, limiter, thread, Inv, TypeOK, NothingForgotten
  <1> QED
    BY <1>2, <1>3, <1>4, PacingTick, PacingStep DEF Next

\* The limiter remembers every grant that IBKR still counts, and every
\* variable keeps its type.
THEOREM PacingInvariance == Spec => [](TypeOK /\ NothingForgotten)
  BY PacingInit, PacingNext, PTL DEF Spec, Inv

\* IBKR never counts more than Max grants in a window.
THEOREM WindowIsRespected == Spec => []WindowRespected
  <1>1. Inv => WindowRespected
    <2> SUFFICES ASSUME Inv PROVE Len(issued) <= Max
      BY DEF WindowRespected
    <2>1. Len(issued) \in Nat /\ Len(timestamps) \in Nat
      BY InvLists DEF Ages
    <2> QED
      BY <2>1, Numbers DEF Inv, NothingForgotten
  <1> QED
    BY <1>1, PacingInit, PacingNext, PTL DEF Spec

\* Nothing is granted during a cooldown.
THEOREM NoGrantDuringCooldown == Spec => NoGrantInCooldown
  <1> DEFINE Quiet == Len(issued') > Len(issued) => cooldown = 0
  <1>1. Inv /\ [Next]_vars => [Quiet]_vars
    <2> SUFFICES ASSUME Inv, Next PROVE Quiet
      OBVIOUS
    <2>1. Len(issued) \in Nat
      BY InvLists DEF Ages
    <2>2. CASE Tick
      <3>1. Len(issued') <= Len(issued) /\ Len(issued') \in Nat
        BY <2>2, InvLists, SuffixAfterTick DEF Tick, Ages
      <3> QED
        BY <2>1, <3>1
    <2>3. ASSUME NEW t \in Threads, Consume(t)
          PROVE  cooldown = 0
      BY <2>3, Numbers DEF Consume, Inv, NothingForgotten
    <2>4. CASE UNCHANGED issued
      BY <2>1, <2>4
    <2>5. Tick \/ UNCHANGED issued \/ \E t \in Threads : Consume(t)
      BY DEF Next, Step, Acquire, WaitForCooldown, WaitForWindow, CheckTokens,
             RaiseTimeout, Sleep, Wake, EnterCooldown, Stats
    <2> QED
      BY <2>2, <2>3, <2>4, <2>5
  <1> QED
    BY <1>1, PacingInit, PacingNext, PTL DEF Spec, NoGrantInCooldown

-----------------------------------------------------------------------------
(* The bucket.  The thread that has passed the check and has not consumed  *)
(* yet counts as a grant: its token is spoken for.                         *)

Upto(ages, a) == {k \in 1 .. Len(ages) : ages[k] <= a}

Given(ages, a) == Cardinality(Upto(ages, a))

Spoken(holder) == IF holder = NoThread THEN 0 ELSE TokenUnits

\* What the bucket will hold for the next thread.
Reserve(units, age) == Least(Capacity, units + age * Refill)

\* The inductive invariant: the grants of the last a ticks and what could be
\* granted at once cost no more than a full bucket, one token and what a ticks
\* add to it.
Smooth == \A a \in 0 .. Window :
            Given(issued, a) * TokenUnits + Spoken(lock)
              + Reserve(tokens - Spoken(lock), sinceRefill)
              <= Capacity + TokenUnits + Refill * a

LEMMA UptoFinite ==
  ASSUME NEW ages \in Ages, NEW a \in Int
  PROVE  IsFiniteSet(Upto(ages, a)) /\ Given(ages, a) \in Nat
  <1>1. Len(ages) \in Nat
    BY DEF Ages
  <1>2. IsFiniteSet(1 .. Len(ages)) /\ Upto(ages, a) \in SUBSET (1 .. Len(ages))
    BY <1>1, FS_Interval DEF Upto
  <1>3. IsFiniteSet(Upto(ages, a))
    BY <1>2, FS_Subset
  <1> QED
    BY <1>3, FS_CardinalityType DEF Given

\* A grant is one more, whatever is asked.
LEMMA GivenAfterGrant ==
  ASSUME NEW ages \in Ages, NEW a \in Nat
  PROVE  Given(Append(ages, 0), a) = Given(ages, a) + 1
  <1> DEFINE n == Len(ages) + 1
  <1>1. Len(ages) \in Nat
    BY DEF Ages
  <1>2. /\ Len(Append(ages, 0)) = n
        /\ \A k \in 1 .. Len(ages) : Append(ages, 0)[k] = ages[k]
        /\ Append(ages, 0)[n] = 0
    BY <1>1 DEF Ages
  <1>3. Upto(Append(ages, 0), a) = Upto(ages, a) \cup {n}
    BY <1>1, <1>2 DEF Upto
  <1>4. n \notin Upto(ages, a)
    BY <1>1 DEF Upto
  <1>5. IsFiniteSet(Upto(ages, a))
    <2>1. a \in Int
      OBVIOUS
    <2> QED
      BY <2>1, UptoFinite
  <1> QED
    BY <1>3, <1>4, <1>5, FS_AddElement DEF Given

\* After a tick, the grants of the last a ticks were those of the last a - 1.
LEMMA GivenAfterTick ==
  ASSUME NEW ages \in Ages, NEW kept, WithoutOlder(Older(ages), Window, kept),
         NEW a \in 0 .. Window
  PROVE  /\ a > 0 => Given(kept, a) <= Given(ages, a - 1)
         /\ a = 0 => Given(kept, a) = 0
  <1> DEFINE old == Older(ages)
  <1>1. /\ old \in Ages /\ Len(old) = Len(ages)
        /\ \A k \in 1 .. Len(ages) : old[k] = Least(ages[k] + 1, Old)
    BY OlderAges
  <1>2. Len(ages) \in Nat /\ \A k \in 1 .. Len(ages) : ages[k] \in 0 .. Old
    BY Elements DEF Ages
  <1>3. PICK n \in 0 .. Len(old) : kept = SubSeq(old, n + 1, Len(old))
    BY DEF WithoutOlder
  <1> HIDE DEF old
  <1>4. /\ kept \in Ages /\ Len(kept) = Len(ages) - n
        /\ \A k \in 1 .. Len(ages) - n : kept[k] = old[n + k]
    BY <1>1, <1>3, Kept
  <1>5. ASSUME NEW k \in Upto(kept, a)
        PROVE  n + k \in Upto(ages, a - 1)
    <2>1. k \in 1 .. Len(ages) - n /\ kept[k] <= a
      BY <1>4 DEF Upto
    <2>2. n + k \in 1 .. Len(ages) /\ old[n + k] <= a
      BY <1>1, <1>2, <1>3, <1>4, <2>1
    <2>3. Least(ages[n + k] + 1, Old) <= a /\ ages[n + k] \in 0 .. Old
      BY <1>1, <1>2, <2>2
    <2>4. ages[n + k] <= a - 1
      BY <2>3, Numbers DEF Least
    <2> QED
      BY <2>2, <2>4 DEF Upto
  <1>6. CASE a = 0
    <2>1. \A k \in Upto(ages, -1) : FALSE
      BY <1>2, Numbers DEF Upto
    <2>2. Upto(kept, a) = {}
      BY <1>5, <1>6, <2>1
    <2> QED
      BY <1>6, <2>2, FS_EmptySet DEF Given
  <1>7. CASE a > 0
    <2> DEFINE shift == [k \in Upto(kept, a) |-> n + k]
    <2>1. shift \in Injection(Upto(kept, a), Upto(ages, a - 1))
      <3>1. shift \in [Upto(kept, a) -> Upto(ages, a - 1)]
        BY <1>5
      <3>2. \A j, k \in Upto(kept, a) : n + j = n + k => j = k
        <4>1. Upto(kept, a) \subseteq Nat /\ n \in Nat
          BY <1>1, <1>2, <1>3 DEF Upto
        <4> QED
          BY <4>1
      <3> QED
        BY <3>1, <3>2 DEF Injection, IsInjective
    <2>2. a - 1 \in Int
      BY Numbers
    <2> QED
      BY <1>7, <2>1, <2>2, UptoFinite, FS_Injection DEF Given
  <1> QED
    BY <1>6, <1>7, Numbers

LEMMA ReserveBounds ==
  ASSUME NEW units \in Int, NEW age \in Nat
  PROVE  /\ Reserve(units, age) \in Int
         /\ Reserve(units, age) <= Capacity
         /\ Reserve(units, Least(age + 1, Capacity)) <= Reserve(units, age) + Refill
  <1>1. /\ age * Refill \in Int /\ (age + 1) * Refill = age * Refill + Refill
        /\ Capacity * Refill \in Int
    BY CapacityIsNat
  <1>2. Reserve(units, age) \in Int /\ Reserve(units, age) <= Capacity
    BY <1>1, CapacityIsNat DEF Reserve, Least
  <1>3. CASE age + 1 <= Capacity
    BY <1>1, <1>3, CapacityIsNat DEF Reserve, Least
  <1>4. CASE age + 1 > Capacity
    <2>1. Least(age + 1, Capacity) = Capacity
      BY <1>4, CapacityIsNat DEF Least
    <2>2. Capacity * Refill <= age * Refill
      BY <1>4, CapacityIsNat
    <2> QED
      BY <1>1, <2>1, <2>2, CapacityIsNat DEF Reserve, Least
  <1> QED
    BY <1>2, <1>3, <1>4, CapacityIsNat

LEMMA SmoothInit == Init => Smooth
  <1> SUFFICES ASSUME Init, NEW a \in 0 .. Window
               PROVE  Given(issued, a) * TokenUnits + Spoken(lock)
                        + Reserve(tokens - Spoken(lock), sinceRefill)
                        <= Capacity + TokenUnits + Refill * a
    BY DEF Smooth
  <1>1. Upto(issued, a) = {}
    BY DEF Init, Upto
  <1>2. Given(issued, a) = 0
    BY <1>1, FS_EmptySet DEF Given
  <1>3. Spoken(lock) = 0 /\ tokens \in Int /\ sinceRefill \in Nat
    BY CapacityIsNat DEF Init, Spoken
  <1>4. tokens - Spoken(lock) \in Int
    BY <1>3
  <1>5. /\ Reserve(tokens - Spoken(lock), sinceRefill) \in Int
        /\ Reserve(tokens - Spoken(lock), sinceRefill) <= Capacity
    BY <1>3, <1>4, ReserveBounds
  <1>6. Refill * a >= 0 /\ Refill * a \in Int
    BY CapacityIsNat, Numbers
  <1> QED
    BY <1>2, <1>3, <1>5, <1>6, CapacityIsNat

LEMMA SmoothTick ==
  ASSUME Inv, Smooth, Tick
  PROVE  Smooth'
  <1> DEFINE units == tokens - Spoken(lock)
             before == Reserve(units, sinceRefill)
             after == Reserve(units, sinceRefill')
  <1> SUFFICES ASSUME NEW a \in 0 .. Window
               PROVE  Given(issued', a) * TokenUnits + Spoken(lock) + after
                        <= Capacity + TokenUnits + Refill * a
    BY DEF Smooth, Tick
  <1>1. Rest /\ Lists
    BY InvParts
  <1>2. Spoken(lock) \in {0, TokenUnits} /\ units \in Int /\ sinceRefill \in Nat
    BY <1>1, CapacityIsNat DEF Rest, Spoken
  <1>3. /\ before \in Int /\ before <= Capacity /\ after <= before + Refill
    BY <1>2, ReserveBounds DEF Tick
  <1>4. after \in Int /\ after <= Capacity
    <2>1. sinceRefill' \in Nat
      BY <1>2, CapacityIsNat DEF Tick, Least
    <2> QED
      BY <1>2, <2>1, ReserveBounds
  <1> HIDE DEF units, before, after
  <1>5. /\ a > 0 => Given(issued', a) <= Given(issued, a - 1)
        /\ a = 0 => Given(issued', a) = 0
    BY <1>1, GivenAfterTick DEF Lists, Tick
  <1>6. issued' \in Ages
    BY <1>1, SuffixAfterTick DEF Lists, Tick
  <1>7. CASE a = 0
    <2>1. Given(issued', a) * TokenUnits = 0 /\ Refill * a = 0
      BY <1>5, <1>7, CapacityIsNat
    <2> QED
      BY <1>2, <1>4, <2>1, CapacityIsNat
  <1>8. CASE a > 0
    <2>1. a - 1 \in 0 .. Window /\ a - 1 \in Int /\ a \in Int
      BY <1>8, Numbers
    <2>2. Given(issued, a - 1) \in Nat /\ Given(issued', a) \in Nat
      BY <1>1, <1>6, <2>1, UptoFinite DEF Lists
    <2>3. Given(issued', a) * TokenUnits <= Given(issued, a - 1) * TokenUnits
      BY <1>5, <1>8, <2>2, CapacityIsNat
    <2>4. Given(issued, a - 1) * TokenUnits + Spoken(lock) + before
            <= Capacity + TokenUnits + Refill * (a - 1)
      BY <2>1 DEF Smooth, before, units
    <2>5. Refill * a = Refill * (a - 1) + Refill /\ Refill * (a - 1) \in Int
      BY <2>1, CapacityIsNat
    <2>6. Given(issued', a) * TokenUnits \in Int /\ Given(issued, a - 1) * TokenUnits \in Int
      BY <2>2, CapacityIsNat
    <2> QED
      BY <1>2, <1>3, <1>4, <2>3, <2>4, <2>5, <2>6, CapacityIsNat
  <1> QED
    BY <1>7, <1>8, Numbers

\* A refill brings the bucket up to what was counted on.
LEMMA RefillExact ==
  ASSUME Rest
  PROVE  /\ Reserve(tokens, sinceRefill) = Refilled
         /\ Reserve(Refilled, 0) = Refilled
         /\ Reserve(Refilled - TokenUnits, 0) = Refilled - TokenUnits
         /\ Refilled \in Int
  <1>1. Refilled \in 0 .. Capacity
    BY RefilledType
  <1>2. Reserve(tokens, sinceRefill) = Refilled
    BY DEF Reserve, Refilled
  <1> HIDE DEF Refilled
  <1> QED
    BY <1>1, <1>2, CapacityIsNat DEF Reserve, Least

LEMMA SmoothStep ==
  ASSUME Inv, Smooth, NEW t \in Threads, CheckTokens(t) \/ Consume(t)
  PROVE  Smooth'
  <1>1. Rest /\ Lists
    BY InvParts
  <1>2. t # NoThread
    BY Numbers
  <1>3. CASE CheckTokens(t)
    <2>1. /\ lock = NoThread /\ tokens' = Refilled /\ sinceRefill' = 0
          /\ issued' = issued
          /\ lock' = NoThread \/ lock' = t
      BY <1>3 DEF CheckTokens, MustWait
    <2>2. Spoken(lock) = 0 /\ tokens - Spoken(lock) = tokens
      BY <1>1, <2>1 DEF Spoken, Rest
    <2>3. Spoken(lock') + Reserve(Refilled - Spoken(lock'), 0) = Refilled
      <3>1. CASE lock' = NoThread
        BY <1>1, <3>1, RefillExact DEF Spoken
      <3>2. CASE lock' = t
        BY <1>1, <1>2, <3>2, RefillExact, CapacityIsNat DEF Spoken
      <3> QED
        BY <2>1, <3>1, <3>2
    <2>4. Spoken(lock) + Reserve(tokens - Spoken(lock), sinceRefill) = Refilled
      BY <1>1, <2>2, RefillExact
    <2>5. \A a \in 0 .. Window : Given(issued, a) * TokenUnits \in Int
      BY <1>1, UptoFinite, CapacityIsNat, Numbers DEF Lists
    <2>6. /\ Spoken(lock) \in Int /\ Spoken(lock') \in Int
          /\ Reserve(tokens - Spoken(lock), sinceRefill) \in Int
          /\ Reserve(Refilled - Spoken(lock'), 0) \in Int
      <3>1. Spoken(lock') \in {0, TokenUnits} /\ Spoken(lock) = 0
        BY <2>2 DEF Spoken
      <3> QED
        BY <1>1, <2>2, <3>1, RefillExact, CapacityIsNat
    <2> SUFFICES ASSUME NEW a \in 0 .. Window
                 PROVE  Given(issued, a) * TokenUnits + Spoken(lock')
                          + Reserve(Refilled - Spoken(lock'), 0)
                          <= Capacity + TokenUnits + Refill * a
      BY <2>1 DEF Smooth
    <2>7. Given(issued, a) * TokenUnits + Spoken(lock)
            + Reserve(tokens - Spoken(lock), sinceRefill)
            <= Capacity + TokenUnits + Refill * a
      BY DEF Smooth
    <2>8. Given(issued, a) * TokenUnits + Refilled <= Capacity + TokenUnits + Refill * a
      BY <2>4, <2>5, <2>6, <2>7
    <2> QED
      BY <2>3, <2>5, <2>6, <2>8
  <1>4. CASE Consume(t)
    <2>1. /\ lock = t /\ lock' = NoThread /\ tokens' = tokens - TokenUnits
          /\ sinceRefill' = sinceRefill /\ issued' = Append(issued, 0)
      BY <1>1, <1>4 DEF Consume, Rest
    <2>2. Spoken(lock) = TokenUnits /\ Spoken(lock') = 0
      BY <1>2, <2>1 DEF Spoken
    <2>3. tokens' - Spoken(lock') = tokens - Spoken(lock)
      BY <1>1, <2>1, <2>2, CapacityIsNat DEF Rest
    <2> DEFINE reserve == Reserve(tokens - Spoken(lock), sinceRefill)
    <2>4. reserve \in Int
      <3>1. tokens - Spoken(lock) \in Int /\ sinceRefill \in Nat
        BY <1>1, <2>2, CapacityIsNat DEF Rest
      <3> QED
        BY <3>1, ReserveBounds
    <2> SUFFICES ASSUME NEW a \in 0 .. Window
                 PROVE  Given(Append(issued, 0), a) * TokenUnits + 0 + reserve
                          <= Capacity + TokenUnits + Refill * a
      BY <2>1, <2>2, <2>3 DEF Smooth
    <2>5. Given(issued, a) * TokenUnits + TokenUnits + reserve
            <= Capacity + TokenUnits + Refill * a
      BY <2>2 DEF Smooth
    <2>6. /\ Given(Append(issued, 0), a) = Given(issued, a) + 1
          /\ Given(issued, a) \in Nat
      <3>1. a \in Nat /\ a \in Int
        BY Numbers
      <3> QED
        BY <1>1, <3>1, GivenAfterGrant, UptoFinite DEF Lists
    <2>7. /\ (Given(issued, a) + 1) * TokenUnits = Given(issued, a) * TokenUnits + TokenUnits
          /\ Given(issued, a) * TokenUnits \in Int
      <3>1. \A n \in Nat : /\ (n + 1) * TokenUnits = n * TokenUnits + TokenUnits
                           /\ n * TokenUnits \in Int
        BY CapacityIsNat
      <3> QED
        BY <2>6, <3>1
    <2> HIDE DEF reserve
    <2> QED
      BY <2>4, <2>5, <2>6, <2>7, CapacityIsNat
  <1> QED
    BY <1>3, <1>4

LEMMA SmoothNext == Inv /\ Smooth /\ [Next]_vars => Smooth'
  <1> SUFFICES ASSUME Inv, Smooth, [Next]_vars PROVE Smooth'
    OBVIOUS
  <1>1. ASSUME UNCHANGED <<issued, tokens, sinceRefill, lock>> PROVE Smooth'
    BY <1>1 DEF Smooth
  <1>2. \/ Tick
        \/ \E t \in Threads : CheckTokens(t) \/ Consume(t)
        \/ UNCHANGED <<issued, tokens, sinceRefill, lock>>
    BY DEF Next, Step, Acquire, WaitForCooldown, WaitForWindow, MustWait, RaiseTimeout,
           Sleep, Wake, EnterCooldown, Stats, vars, limiter
  <1> QED
    BY <1>1, <1>2, SmoothTick, SmoothStep

\* Every variable keeps its type.
THEOREM PacingTypes == Spec => []TypeOK
  <1>1. Inv => TypeOK
    BY DEF Inv
  <1> QED
    BY <1>1, PacingInit, PacingNext, PTL DEF Spec

\* The bucket smooths: for every a, the grants of the last a ticks cost no
\* more than a full bucket, one token and what a ticks add to it.
THEOREM BurstsAreBounded == Spec => []BurstBounded
  <1>1. Inv /\ Smooth => BurstBounded
    <2> SUFFICES ASSUME Inv, Smooth, NEW a \in 0 .. Window
                 PROVE  Cardinality({k \in DOMAIN issued : issued[k] <= a}) * TokenUnits
                          <= Capacity + TokenUnits + Refill * a
      BY DEF BurstBounded
    <2>1. Rest /\ Lists /\ Room
      BY InvParts
    <2>2. Cardinality({k \in DOMAIN issued : issued[k] <= a}) = Given(issued, a)
      <3>1. DOMAIN issued = 1 .. Len(issued)
        BY <2>1 DEF Lists, Ages
      <3> QED
        BY <3>1 DEF Given, Upto
    <2>3. Spoken(lock) \in {0, TokenUnits} /\ tokens - Spoken(lock) >= 0
      BY <2>1, CapacityIsNat DEF Spoken, Rest, Room
    <2>4. /\ Reserve(tokens - Spoken(lock), sinceRefill) \in Int
          /\ Reserve(tokens - Spoken(lock), sinceRefill) >= 0
      <3>1. tokens - Spoken(lock) \in Nat /\ sinceRefill * Refill \in Nat
        BY <2>1, <2>3, CapacityIsNat DEF Rest
      <3> QED
        BY <3>1, CapacityIsNat DEF Reserve, Least
    <2>5. Given(issued, a) * TokenUnits \in Int /\ Refill * a \in Int
      <3>1. a \in Int
        BY Numbers
      <3>2. Given(issued, a) \in Nat
        BY <2>1, <3>1, UptoFinite DEF Lists
      <3> QED
        BY <3>1, <3>2, CapacityIsNat
    <2>6. Given(issued, a) * TokenUnits + Spoken(lock)
            + Reserve(tokens - Spoken(lock), sinceRefill)
            <= Capacity + TokenUnits + Refill * a
      BY DEF Smooth
    <2> QED
      BY <2>2, <2>3, <2>4, <2>5, <2>6, CapacityIsNat
  <1>2. Inv /\ Smooth /\ [Next]_vars => Inv' /\ Smooth'
    BY PacingNext, SmoothNext
  <1>3. Init => Inv /\ Smooth
    BY PacingInit, SmoothInit
  <1> QED
    BY <1>1, <1>2, <1>3, PTL DEF Spec
=============================================================================
