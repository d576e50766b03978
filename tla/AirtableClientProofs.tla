------------------------- MODULE AirtableClientProofs -------------------------
(***************************************************************************)
(* Theorems about AirtableClient, for any number of calls, users, bases    *)
(* and attempts and any limits.                                            *)
(***************************************************************************)
EXTENDS AirtableClient, FiniteSetTheorems, TLAPS

-----------------------------------------------------------------------------
(* The operators *)

LEMMA LessProperties ==
  ASSUME NEW m \in Nat, NEW n \in Nat
  PROVE  /\ Less(m, n) \in Nat /\ Less(m, n) <= m
         /\ m > n => Less(m, n) = m - n
         /\ m <= n => Less(m, n) = 0
BY DEF Less

LEMMA LeastProperties ==
  ASSUME NEW m \in Nat, NEW n \in Nat
  PROVE  Least(m, n) \in Nat /\ Least(m, n) <= m /\ Least(m, n) <= n
BY DEF Least

(* computeRateLimitBackoff never waits for less than Airtable has asked    *)
(* for, up to the cap.                                                     *)
LEMMA BackoffReaches ==
  ASSUME NEW n \in RetryAfters, NEW a \in 0..MaxAttempts - 1, NEW d \in Backoff(n, a)
  PROVE  d \in Nat /\ Least(n, MaxBackoff) <= d
<1>1. n \in Nat /\ MaxBackoff \in Nat /\ Scaled(n, a) \in Nat
  BY LimitsAssumption, ScaledAssumption
<1> DEFINE delay == IF Scaled(n, a) > n THEN Scaled(n, a) ELSE n
<1>2. delay \in Nat /\ delay >= n
  BY <1>1
<1>3. d \in {Least(MaxBackoff, delay + jitter) : jitter \in 0..(3 * delay) \div 10}
  BY DEF Backoff
<1> HIDE DEF delay
<1>4. PICK jitter \in 0..(3 * delay) \div 10 : d = Least(MaxBackoff, delay + jitter)
  BY <1>3
<1>5. jitter \in Nat
  BY <1>2, <1>4
<1>. QED
  BY <1>1, <1>2, <1>4, <1>5 DEF Least

-----------------------------------------------------------------------------
(* Types, without the bounds on the windows and the buckets *)

ClockType ==
  /\ window \in [Users -> Nat] /\ debt \in [Bases -> Nat] /\ lastEvent \in [Bases -> Nat]
  /\ sends \in [Bases -> [0..Second - 1 -> Nat]]

CallType ==
  /\ pc \in [Calls -> PCs] /\ user \in [Calls -> Users] /\ base \in [Calls -> Bases \cup {NoBase}]
  /\ attempt \in [Calls -> 0..MaxAttempts - 1]
  /\ wait \in [Calls -> Nat] /\ hint \in [Calls -> 0..MaxBackoff]
  /\ performed \in [Calls -> Nat]

(* A call sleeps before an attempt only when there is one left, and a      *)
(* place in a queue is one for a base.                                     *)
AttemptsLeft == \A k \in Calls : pc[k] = "backoff" => attempt[k] < MaxAttempts - 1

TypeInv == ClockType /\ CallType /\ AttemptsLeft

LEMMA Parameters ==
  /\ Burst \in Nat \ {0} /\ BasePeriod \in Nat \ {0} /\ UserInterval \in Nat
  /\ MaxAttempts \in Nat \ {0} /\ MaxBackoff \in Nat /\ MaxQueue \in Nat /\ Second \in Nat \ {0}
  /\ RetryAfters \subseteq Nat /\ AnyUser \in Users /\ 0 \in 0..MaxAttempts - 1
  /\ 0 \in 0..Second - 1 /\ 0 \in 0..MaxBackoff
BY LimitsAssumption, CallsAssumption DEF AnyUser

LEMMA InitType == Init => TypeInv
BY Parameters DEF Init, TypeInv, ClockType, CallType, AttemptsLeft, PCs

LEMMA TickType == TypeInv /\ Tick => TypeInv'
<1> SUFFICES ASSUME TypeInv, Tick PROVE TypeInv'
  OBVIOUS
<1>0. /\ \A n \in Nat : Less(n, 1) \in Nat
      /\ \A n \in 0..MaxBackoff : Less(n, 1) \in 0..MaxBackoff
  BY Parameters DEF Less
<1>1. /\ \A u \in Users : Less(window[u], 1) \in Nat
      /\ \A b \in Bases : Less(debt[b], 1) \in Nat /\ Less(lastEvent[b], 1) \in Nat
      /\ \A k \in Calls : Less(wait[k], 1) \in Nat /\ Less(hint[k], 1) \in 0..MaxBackoff
  BY <1>0 DEF TypeInv, ClockType, CallType
<1>2. \A b \in Bases : [a \in 0..Second - 1 |-> IF a = 0 THEN 0 ELSE sends[b][a - 1]]
                         \in [0..Second - 1 -> Nat]
  BY Parameters DEF TypeInv, ClockType
<1>3. ClockType'
  BY <1>1, <1>2 DEF Tick, ClockType
<1>4. CallType' /\ AttemptsLeft'
  BY <1>1 DEF Tick, TypeInv, CallType, AttemptsLeft
<1>. QED
  BY <1>3, <1>4 DEF TypeInv

LEMMA BeginType ==
  ASSUME TypeInv, NEW k \in Calls, NEW u \in Users, NEW b \in Bases \cup {NoBase}, Begin(k, u, b)
  PROVE  TypeInv'
<1>1. ClockType'
  BY Parameters DEF Begin, Enter, baseVars, TypeInv, ClockType
<1>2. CallType'
  BY DEF Begin, Enter, Sleep, TypeInv, ClockType, CallType, PCs, Asleep
<1>3. AttemptsLeft'
  BY DEF Begin, Enter, Sleep, TypeInv, CallType, AttemptsLeft
<1>. QED
  BY <1>1, <1>2, <1>3 DEF TypeInv

LEMMA StepType ==
  ASSUME TypeInv, NEW k \in Calls, Step(k) \/ Cancelled(k)
  PROVE  TypeInv'
<1> USE DEF TypeInv
<1>1. CASE PassNoBase(k) \/ Send(k)
  <2>1. ClockType'
    <3>1. CASE UNCHANGED sends
      BY <1>1, <3>1 DEF PassNoBase, Send, baseVars, ClockType
    <3>2. CASE /\ base[k] \in Bases
               /\ sends' = [sends EXCEPT ![base[k]] = [a \in 0..Second - 1 |-> sends[base[k]][a] + 1]]
      <4>1. [a \in 0..Second - 1 |-> sends[base[k]][a] + 1] \in [0..Second - 1 -> Nat]
        <5> DEFINE sent == sends[base[k]]
        <5>1. sent \in [0..Second - 1 -> Nat]
          BY <3>2 DEF ClockType
        <5> HIDE DEF sent
        <5>2. \A a \in 0..Second - 1 : sent[a] \in Nat
          BY <5>1
        <5>3. \A n \in Nat : n + 1 \in Nat
          OBVIOUS
        <5>4. [a \in 0..Second - 1 |-> sent[a] + 1] \in [0..Second - 1 -> Nat]
          BY <5>2, <5>3
        <5>. QED
          BY <5>4 DEF sent
      <4>2. sends' \in [Bases -> [0..Second - 1 -> Nat]]
        BY <3>2, <4>1 DEF ClockType
      <4>. QED
        BY <1>1, <4>2 DEF PassNoBase, Send, baseVars, ClockType
    <3>. QED
      BY <1>1, <3>1, <3>2 DEF PassNoBase, Send
  <2>2. CallType' /\ AttemptsLeft'
    <3>1. CASE PassNoBase(k)
      BY <3>1 DEF PassNoBase, Sleep, CallType, AttemptsLeft, PCs, Asleep
    <3>2. CASE Send(k)
      BY <3>2 DEF Send, CallType, AttemptsLeft, PCs, Asleep
    <3>. QED
      BY <1>1, <3>1, <3>2
  <2>. QED
    BY <2>1, <2>2
<1>2. CASE ReserveBase(k)
  <2> DEFINE b == base[k]
  <2>0. b \in Bases /\ debt[b] + BasePeriod \in Nat /\ Burst * BasePeriod \in Nat
    BY <1>2, Parameters DEF ReserveBase, ClockType
  <2>1. ClockType' /\ lastEvent'[b] \in Nat
    BY <1>2, <2>0, LessProperties, Parameters DEF ReserveBase, Reserve, ClockType
  <2>2. CallType' /\ AttemptsLeft'
    BY <1>2, <2>1 DEF ReserveBase, Sleep, CallType, AttemptsLeft, PCs, Asleep
  <2>. QED
    BY <2>1, <2>2
<1>3. CASE Answered(k) \/ Failed(k)
  <2>1. ClockType'
    BY <1>3 DEF Answered, Failed, baseVars, ClockType
  <2>2. CallType' /\ AttemptsLeft'
    BY <1>3 DEF Answered, Failed, End, Perform, CallType, AttemptsLeft, PCs, Ended
  <2>. QED
    BY <2>1, <2>2
<1>4. CASE RateLimited(k)
  <2>1. ClockType'
    BY <1>4 DEF RateLimited, baseVars, ClockType
  <2>2. CASE attempt[k] < MaxAttempts - 1
    <3>1. PICK n \in RetryAfters :
            /\ \E d \in Backoff(n, attempt[k]) : Sleep(k, "backoff", d)
            /\ hint' = [hint EXCEPT ![k] = Least(n, MaxBackoff)]
      BY <1>4, <2>2 DEF RateLimited
    <3>2. PICK d \in Backoff(n, attempt[k]) : Sleep(k, "backoff", d)
      BY <3>1
    <3>3. d \in Nat /\ Least(n, MaxBackoff) \in 0..MaxBackoff
      BY <3>2, BackoffReaches, LeastProperties, Parameters DEF CallType
    <3>4. CallType' /\ AttemptsLeft'
      BY <1>4, <2>2, <3>1, <3>2, <3>3 DEF RateLimited, Sleep, CallType, AttemptsLeft, PCs, Asleep
    <3>. QED
      BY <2>1, <3>4
  <2>3. CASE ~(attempt[k] < MaxAttempts - 1)
    <3>1. CallType' /\ AttemptsLeft'
      BY <1>4, <2>3 DEF RateLimited, End, CallType, AttemptsLeft, PCs, Ended
    <3>. QED
      BY <2>1, <3>1
  <2>. QED
    BY <2>2, <2>3
<1>5. CASE Retry(k)
  <2>2. attempt[k] + 1 \in 0..MaxAttempts - 1 /\ window[user[k]] \in Nat
    BY <1>5, Parameters DEF Retry, CallType, ClockType, AttemptsLeft
  <2>1. ClockType'
    <3>1. window[user[k]] + UserInterval \in Nat
      BY <2>2, Parameters
    <3>2. window' \in [Users -> Nat]
      BY <1>5, <3>1 DEF Retry, Enter, ClockType
    <3>. QED
      BY <1>5, <3>2 DEF Retry, baseVars, ClockType
  <2>3. CallType' /\ AttemptsLeft'
    BY <1>5, <2>2 DEF Retry, Enter, Sleep, CallType, AttemptsLeft, PCs, Asleep
  <2>. QED
    BY <2>1, <2>3
<1>6. CASE Return(k)
  <2>1. ClockType'
    BY <1>6 DEF Return, baseVars, ClockType
  <2>2. CallType' /\ AttemptsLeft'
    BY <1>6, Parameters DEF Return, CallType, AttemptsLeft, PCs
  <2>. QED
    BY <2>1, <2>2
<1>7. CASE Cancelled(k)
  <2>1. ClockType'
    <3>1. CASE pc[k] = "base"
      <4>1. \A b \in Bases : Less(debt[b], BasePeriod) \in Nat
        BY LessProperties, Parameters DEF ClockType
      <4>2. wait[k] \in Nat /\ (wait[k] >= BasePeriod => wait[k] - BasePeriod \in Nat)
        BY Parameters DEF CallType
      <4>3. CancelAt(base[k], wait[k])
        BY <1>7, <3>1 DEF Cancelled
      <4>4. debt' \in [Bases -> Nat]
        BY <4>1, <4>3 DEF CancelAt, ClockType
      <4>5. lastEvent' \in [Bases -> Nat]
        BY <4>2, <4>3 DEF CancelAt, ClockType
      <4>. QED
        BY <1>7, <4>4, <4>5 DEF Cancelled, ClockType
    <3>. QED
      BY <1>7, <3>1 DEF Cancelled, ClockType
  <2>2. CallType' /\ AttemptsLeft'
    BY <1>7 DEF Cancelled, Sleep, CallType, AttemptsLeft, PCs, Ended
  <2>. QED
    BY <2>1, <2>2
<1>. QED
  BY <1>1, <1>2, <1>3, <1>4, <1>5, <1>6, <1>7 DEF Step

LEMMA NextType == TypeInv /\ [Next]_vars => TypeInv'
<1>1. TypeInv /\ UNCHANGED vars => TypeInv'
  BY DEF vars, baseVars, callVars, TypeInv, ClockType, CallType, AttemptsLeft
<1>. QED
  BY <1>1, TickType, BeginType, StepType DEF Next

-----------------------------------------------------------------------------
(* What is true of the calls, and of their waits *)

(* Only a call that has ended may have been carried out.                   *)
PerformedInv ==
  \A k \in Calls :
    /\ performed[k] <= 1
    /\ pc[k] = "ok" => performed[k] = 1
    /\ pc[k] \notin {"ok", "failed"} => performed[k] = 0

(* The window of a user is open only after the last of its places.         *)
PlacesInv ==
  /\ \A k \in Calls : pc[k] = "user" => wait[k] + UserInterval <= window[user[k]]
  /\ UserSlotsApart

(* What is left of the Retry-After is slept through.                       *)
HintInv ==
  \A k \in Calls : /\ pc[k] = "backoff" => hint[k] <= wait[k]
                   /\ pc[k] \in {"idle", "user", "base", "sent"} => hint[k] = 0

CallsInv == PerformedInv /\ PlacesInv /\ HintInv

LEMMA InitCalls == Init => CallsInv
BY DEF Init, CallsInv, PerformedInv, PlacesInv, HintInv, UserSlotsApart

LEMMA TickCalls == TypeInv /\ CallsInv /\ Tick => CallsInv'
<1> SUFFICES ASSUME TypeInv, CallsInv, Tick PROVE CallsInv'
  OBVIOUS
<1>1. UNCHANGED <<pc, user, performed>>
  BY DEF Tick
<1>2. \A k \in Calls : /\ wait[k] \in Nat /\ wait'[k] = IF wait[k] > 1 THEN wait[k] - 1 ELSE 0
                       /\ hint[k] \in Nat /\ hint'[k] = IF hint[k] > 1 THEN hint[k] - 1 ELSE 0
                       /\ window[user[k]] \in Nat /\ user[k] \in Users
                       /\ window'[user[k]] = IF window[user[k]] > 1 THEN window[user[k]] - 1 ELSE 0
                       /\ pc[k] \in Asleep => wait[k] # 0
  BY Parameters DEF Tick, Less, Awake, TypeInv, ClockType, CallType
<1>3. PerformedInv'
  BY <1>1 DEF CallsInv, PerformedInv
<1>4. HintInv'
  BY <1>1, <1>2 DEF CallsInv, HintInv, Asleep
<1>5. \A k \in Calls : pc[k] = "user" => wait[k] >= 1 /\ wait'[k] = wait[k] - 1
  BY <1>2 DEF Asleep
<1>6. \A k \in Calls : pc[k] = "user" => wait'[k] + UserInterval <= window'[user[k]]
  BY <1>2, <1>5, Parameters DEF CallsInv, PlacesInv
<1>7. UserSlotsApart'
  BY <1>1, <1>2, <1>5, Parameters DEF CallsInv, PlacesInv, UserSlotsApart
<1>. QED
  BY <1>1, <1>3, <1>4, <1>6, <1>7 DEF CallsInv, PlacesInv

(* A call takes the next place in the window of its user.                  *)
LEMMA EnterPlaces ==
  ASSUME TypeInv, PlacesInv, NEW k \in Calls, NEW u \in Users, Enter(k, u),
         user' = [user EXCEPT ![k] = u], pc[k] # "user"
  PROVE  PlacesInv'
<1>1. /\ \A j \in Calls : /\ pc'[j] = IF j = k THEN "user" ELSE pc[j]
                          /\ wait'[j] = IF j = k THEN window[u] ELSE wait[j]
                          /\ user'[j] = IF j = k THEN u ELSE user[j]
                          /\ wait[j] \in Nat /\ user[j] \in Users
      /\ \A v \in Users : /\ window'[v] = IF v = u THEN window[v] + UserInterval ELSE window[v]
                          /\ window[v] \in Nat
      /\ UserInterval \in Nat
  BY Parameters DEF Enter, Sleep, TypeInv, ClockType, CallType
<1>2. \A j \in Calls : pc'[j] = "user" => wait'[j] + UserInterval <= window'[user'[j]]
  BY <1>1 DEF PlacesInv
<1>3. UserSlotsApart'
  BY <1>1 DEF PlacesInv, UserSlotsApart
<1>. QED
  BY <1>2, <1>3 DEF PlacesInv

(* A call that takes no place.                                             *)
LEMMA OtherPlaces ==
  ASSUME TypeInv, PlacesInv, NEW k \in Calls, pc'[k] # "user", UNCHANGED window,
         \A j \in Calls : j # k => pc'[j] = pc[j] /\ wait'[j] = wait[j] /\ user'[j] = user[j]
  PROVE  PlacesInv'
BY DEF PlacesInv, UserSlotsApart

LEMMA BeginCalls ==
  ASSUME TypeInv, CallsInv, NEW k \in Calls, NEW u \in Users, NEW b \in Bases \cup {NoBase},
         Begin(k, u, b)
  PROVE  CallsInv'
<1>1. PlacesInv'
  BY EnterPlaces DEF Begin, CallsInv
<1>2. PerformedInv' /\ HintInv'
  BY DEF Begin, Enter, Sleep, TypeInv, CallType, CallsInv, PerformedInv, HintInv
<1>. QED
  BY <1>1, <1>2 DEF CallsInv

LEMMA StepCalls ==
  ASSUME TypeInv, CallsInv, NEW k \in Calls, Step(k) \/ Cancelled(k)
  PROVE  CallsInv'
<1> USE DEF CallsInv
<1>1. CASE PassNoBase(k) \/ ReserveBase(k) \/ Send(k)
  <2>1. PlacesInv'
    BY <1>1, OtherPlaces DEF PassNoBase, ReserveBase, Send, Sleep, TypeInv, CallType
  <2>2. PerformedInv' /\ HintInv'
    BY <1>1 DEF PassNoBase, ReserveBase, Send, Sleep, TypeInv, CallType, PerformedInv, HintInv
  <2>. QED
    BY <2>1, <2>2
<1>2. CASE Answered(k) \/ Failed(k)
  <2>1. PlacesInv'
    BY <1>2, OtherPlaces DEF Answered, Failed, End, TypeInv, CallType
  <2>2. PerformedInv' /\ HintInv'
    BY <1>2 DEF Answered, Failed, End, Perform, TypeInv, CallType, PerformedInv, HintInv
  <2>. QED
    BY <2>1, <2>2
<1>3. CASE RateLimited(k)
  <2>1. CASE attempt[k] < MaxAttempts - 1
    <3>1. PICK n \in RetryAfters :
            /\ \E d \in Backoff(n, attempt[k]) : Sleep(k, "backoff", d)
            /\ hint' = [hint EXCEPT ![k] = Least(n, MaxBackoff)]
      BY <1>3, <2>1 DEF RateLimited
    <3>2. PICK d \in Backoff(n, attempt[k]) : Sleep(k, "backoff", d)
      BY <3>1
    <3>3. d \in Nat /\ Least(n, MaxBackoff) <= d
      BY <3>2, BackoffReaches DEF TypeInv, CallType
    <3>4. PlacesInv'
      BY <1>3, <3>2, OtherPlaces DEF RateLimited, Sleep, TypeInv, CallType
    <3>5. PerformedInv' /\ HintInv'
      BY <1>3, <3>1, <3>2, <3>3
      DEF RateLimited, Sleep, TypeInv, CallType, PerformedInv, HintInv
    <3>. QED
      BY <3>4, <3>5
  <2>2. CASE ~(attempt[k] < MaxAttempts - 1)
    <3>1. PlacesInv'
      BY <1>3, <2>2, OtherPlaces DEF RateLimited, End, TypeInv, CallType
    <3>2. PerformedInv' /\ HintInv'
      BY <1>3, <2>2 DEF RateLimited, End, TypeInv, CallType, PerformedInv, HintInv
    <3>. QED
      BY <3>1, <3>2
  <2>. QED
    BY <2>1, <2>2
<1>4. CASE Retry(k)
  <2>1. user[k] \in Users /\ user' = [user EXCEPT ![k] = user[k]]
    BY <1>4 DEF Retry, TypeInv, CallType
  <2>2. PlacesInv'
    BY <1>4, <2>1, EnterPlaces DEF Retry
  <2>3. hint[k] = 0
    BY <1>4 DEF Retry, Awake, TypeInv, CallType, HintInv
  <2>4. PerformedInv' /\ HintInv'
    BY <1>4, <2>3 DEF Retry, Enter, Sleep, TypeInv, CallType, PerformedInv, HintInv
  <2>. QED
    BY <2>2, <2>4
<1>5. CASE Return(k)
  <2>1. PlacesInv'
    BY <1>5, OtherPlaces DEF Return, TypeInv, CallType
  <2>2. PerformedInv' /\ HintInv'
    BY <1>5 DEF Return, TypeInv, CallType, PerformedInv, HintInv
  <2>. QED
    BY <2>1, <2>2
<1>6. CASE Cancelled(k)
  <2>1. PlacesInv'
    BY <1>6, OtherPlaces DEF Cancelled, Sleep, TypeInv, CallType
  <2>2. PerformedInv' /\ HintInv'
    BY <1>6 DEF Cancelled, Sleep, Asleep, TypeInv, CallType, PerformedInv, HintInv
  <2>. QED
    BY <2>1, <2>2
<1>. QED
  BY <1>1, <1>2, <1>3, <1>4, <1>5, <1>6 DEF Step

LEMMA NextCalls == TypeInv /\ CallsInv /\ [Next]_vars => CallsInv'
<1>1. CallsInv /\ UNCHANGED vars => CallsInv'
  BY DEF vars, baseVars, callVars, CallsInv, PerformedInv, PlacesInv, HintInv, UserSlotsApart
<1>. QED
  BY <1>1, TickCalls, BeginCalls, StepCalls DEF Next

(* TypeInv and CallsInv hold in every reachable state. *)
THEOREM CallsCorrect == Spec => [](TypeInv /\ CallsInv)
BY InitType, NextType, InitCalls, NextCalls, PTL DEF Spec

(* A call that succeeds has been carried out once, one that gives up after *)
(* 429 never, and none twice, however often it was tried again (doJSON).   *)
THEOREM CallsTrue == Spec => []CallsAreTrue
<1>1. CallsInv => CallsAreTrue
  BY DEF CallsInv, PerformedInv, CallsAreTrue
<1>. QED
  BY CallsCorrect, <1>1, PTL

(* Two calls of a user wait for places at least UserInterval apart         *)
(* (waitForWindow).                                                        *)
THEOREM PlacesApart == Spec => []UserSlotsApart
<1>1. CallsInv => UserSlotsApart
  BY DEF CallsInv, PlacesInv
<1>. QED
  BY CallsCorrect, <1>1, PTL

(* No call is sent again before the time Airtable has asked for, for any   *)
(* number of attempts, up to the cap (computeRateLimitBackoff).            *)
THEOREM RetryAfterIsKept == Spec => []RetryAfterKept
<1>1. CallsInv => RetryAfterKept
  BY DEF CallsInv, HintInv, RetryAfterKept
<1>. QED
  BY CallsCorrect, <1>1, PTL

-----------------------------------------------------------------------------
(* How long the queues grow: each of n users' or bases' queue is at most   *)
(* MaxPlaces places, less those that the calls under way may yet take.     *)

Queue == Calls \X (0..MaxAttempts - 1)

Within(n, S, i) == n <= (MaxPlaces - Cardinality(S)) * i

LEMMA Products ==
  ASSUME NEW a \in Int, NEW b \in Int, NEW i \in Nat
  PROVE  /\ a * i \in Int /\ (a + 1) * i = a * i + i
         /\ a <= b => a * i <= b * i
OBVIOUS

LEMMA Places ==
  /\ Cardinality(Calls) \in Nat /\ MaxPlaces \in Nat
  /\ Cardinality(Calls) * MaxAttempts \in Nat
  /\ MaxPlaces = MaxQueue + Cardinality(Calls) * MaxAttempts
  /\ MaxQueue \in Nat
<1>1. Cardinality(Calls) \in Nat
  BY CallsAssumption, FS_CardinalityType
<1>. QED
  BY <1>1, Parameters DEF MaxPlaces

LEMMA QueueSize ==
  ASSUME NEW S, S \subseteq Queue
  PROVE  /\ IsFiniteSet(S) /\ Cardinality(S) \in Nat
         /\ Cardinality(S) <= Cardinality(Calls) * MaxAttempts
<1>1. IsFiniteSet(0..MaxAttempts - 1) /\ Cardinality(0..MaxAttempts - 1) = MaxAttempts
  BY FS_Interval, Parameters
<1>2. IsFiniteSet(Queue) /\ Cardinality(Queue) = Cardinality(Calls) * MaxAttempts
  BY <1>1, CallsAssumption, FS_Product DEF Queue
<1>. QED
  BY <1>2, FS_Subset, FS_CardinalityType

(* Without the first attempt of each call, a place is left over. *)
LEMMA RetriesSize ==
  ASSUME NEW S, S \subseteq Calls \X (1..MaxAttempts - 1), NEW k \in Calls
  PROVE  Cardinality(S) \in Nat /\ Cardinality(S) + 1 <= Cardinality(Calls) * MaxAttempts
<1>1. S \cup {<<k, 0>>} \subseteq Queue /\ S \subseteq Queue /\ <<k, 0>> \notin S
  BY Parameters DEF Queue
<1>2. Cardinality(S \cup {<<k, 0>>}) = Cardinality(S) + 1
  BY <1>1, QueueSize, FS_AddElement
<1>. QED
  BY <1>1, <1>2, QueueSize

LEMMA WithinMax ==
  ASSUME NEW n \in Nat, NEW S, S \subseteq Queue, NEW i \in Nat, Within(n, S, i)
  PROVE  n <= MaxPlaces * i
<1>1. MaxPlaces - Cardinality(S) \in Int /\ MaxPlaces \in Int
      /\ MaxPlaces - Cardinality(S) <= MaxPlaces
  BY QueueSize, Places
<1>. QED
  BY <1>1, Products DEF Within

LEMMA KeptWithin ==
  ASSUME NEW n \in Nat, NEW m \in Nat, m <= n, NEW S, S \subseteq Queue, NEW T, T \subseteq S,
         NEW i \in Nat, Within(n, S, i)
  PROVE  Within(m, T, i)
<1>1. /\ MaxPlaces - Cardinality(S) \in Int /\ MaxPlaces - Cardinality(T) \in Int
      /\ MaxPlaces - Cardinality(S) <= MaxPlaces - Cardinality(T)
  BY QueueSize, Places, FS_Subset
<1>2. (MaxPlaces - Cardinality(S)) * i <= (MaxPlaces - Cardinality(T)) * i
  BY <1>1, Products
<1>. QED
  BY <1>1, <1>2, Products DEF Within

LEMMA TakenWithin ==
  ASSUME NEW n \in Nat, NEW S, S \subseteq Queue, NEW x \in S, NEW i \in Nat, Within(n, S, i)
  PROVE  Within(n + i, S \ {x}, i)
<1>1. Cardinality(S) \in Nat /\ Cardinality(S \ {x}) = Cardinality(S) - 1
  BY QueueSize, FS_RemoveElement
<1>2. MaxPlaces - Cardinality(S) \in Int
      /\ MaxPlaces - Cardinality(S \ {x}) = (MaxPlaces - Cardinality(S)) + 1
  BY <1>1, Places
<1>3. (MaxPlaces - Cardinality(S \ {x})) * i = (MaxPlaces - Cardinality(S)) * i + i
  BY <1>2, Products
<1>. QED
  BY <1>2, <1>3, Products DEF Within

LEMMA QueuedWithin ==
  ASSUME NEW n \in Nat, NEW S, S \subseteq Queue, NEW i \in Nat, n <= MaxQueue * i
  PROVE  Within(n, S, i)
<1>1. /\ MaxQueue \in Int /\ MaxPlaces - Cardinality(S) \in Int
      /\ MaxQueue <= MaxPlaces - Cardinality(S)
  BY QueueSize, Places
<1>2. MaxQueue * i <= (MaxPlaces - Cardinality(S)) * i /\ MaxQueue * i \in Int
      /\ (MaxPlaces - Cardinality(S)) * i \in Int
  BY <1>1, Products
<1>. QED
  BY <1>2 DEF Within

LEMMA EnteredWithin ==
  ASSUME NEW n \in Nat, NEW S, S \subseteq Calls \X (1..MaxAttempts - 1), NEW k \in Calls,
         NEW i \in Nat, n <= MaxQueue * i
  PROVE  Within(n + i, S, i)
<1>1. /\ MaxQueue + 1 \in Int /\ MaxPlaces - Cardinality(S) \in Int
      /\ MaxQueue + 1 <= MaxPlaces - Cardinality(S)
  BY RetriesSize, Places
<1>2. (MaxQueue + 1) * i <= (MaxPlaces - Cardinality(S)) * i
      /\ (MaxQueue + 1) * i = MaxQueue * i + i /\ MaxQueue * i \in Int
      /\ (MaxPlaces - Cardinality(S)) * i \in Int
  BY <1>1, Products, Places
<1>. QED
  BY <1>2 DEF Within

(* The places in the window of u, and in the bucket of b, that the calls   *)
(* under way may yet take: one for each attempt.                           *)
Entries(u) ==
  {p \in Calls \X (1..MaxAttempts - 1) :
     pc[p[1]] # "idle" /\ user[p[1]] = u /\ p[2] > attempt[p[1]]}

Turns(b) ==
  {p \in Queue :
     /\ pc[p[1]] # "idle" /\ base[p[1]] = b
     /\ p[2] > attempt[p[1]] \/ (p[2] = attempt[p[1]] /\ pc[p[1]] = "user")}

WindowInv == \A u \in Users : Within(window[u], Entries(u), UserInterval)
DebtInv == \A b \in Bases : Within(debt[b], Turns(b), BasePeriod)
EventInv == \A b \in Bases : lastEvent[b] <= MaxDebt

BoundsInv == WindowInv /\ DebtInv /\ EventInv

LEMMA InQueue ==
  /\ \A u : Entries(u) \subseteq Queue /\ Entries(u) \subseteq Calls \X (1..MaxAttempts - 1)
  /\ \A b : Turns(b) \subseteq Queue
BY Parameters DEF Entries, Turns, Queue

LEMMA BoundsImplyTypeOK == TypeInv /\ BoundsInv => TypeOK
<1> SUFFICES ASSUME TypeInv, BoundsInv PROVE TypeOK
  OBVIOUS
<1>0. MaxWindow \in Nat /\ MaxDebt \in Nat
  BY Places, Products, Parameters DEF MaxWindow, MaxDebt
<1>1. \A u \in Users : window[u] \in 0..MaxWindow
  BY <1>0, InQueue, WithinMax, Parameters DEF TypeInv, ClockType, BoundsInv, WindowInv, MaxWindow
<1>2. \A b \in Bases : debt[b] \in 0..MaxDebt
  BY <1>0, InQueue, WithinMax, Parameters DEF TypeInv, ClockType, BoundsInv, DebtInv, MaxDebt
<1>3. \A b \in Bases : lastEvent[b] \in 0..MaxDebt
  BY <1>0 DEF TypeInv, ClockType, BoundsInv, EventInv
<1>. QED
  BY <1>1, <1>2, <1>3 DEF TypeInv, ClockType, CallType, TypeOK

(* A step that lets no queue grow. *)
LEMMA BoundsKept ==
  ASSUME TypeInv, TypeInv', BoundsInv,
         \A u \in Users : window'[u] <= window[u] /\ Entries(u)' \subseteq Entries(u),
         \A b \in Bases : debt'[b] <= debt[b] /\ Turns(b)' \subseteq Turns(b),
         \A b \in Bases : lastEvent'[b] <= lastEvent[b]
  PROVE  BoundsInv'
<1>0. /\ UserInterval \in Nat /\ BasePeriod \in Nat /\ MaxDebt \in Nat
      /\ \A u \in Users : window[u] \in Nat /\ window'[u] \in Nat
      /\ \A b \in Bases : debt[b] \in Nat /\ debt'[b] \in Nat
                          /\ lastEvent[b] \in Nat /\ lastEvent'[b] \in Nat
  BY Parameters, Places DEF TypeInv, ClockType, MaxDebt
<1>1. \A u \in Users : Within(window'[u], Entries(u)', UserInterval)
  BY <1>0, InQueue, KeptWithin DEF BoundsInv, WindowInv
<1>2. \A b \in Bases : Within(debt'[b], Turns(b)', BasePeriod)
  BY <1>0, InQueue, KeptWithin DEF BoundsInv, DebtInv
<1>3. \A b \in Bases : lastEvent'[b] <= MaxDebt
  BY <1>0 DEF BoundsInv, EventInv
<1>. QED
  BY <1>1, <1>2, <1>3 DEF BoundsInv, WindowInv, DebtInv, EventInv

(* A call that does not take a place, and does not begin.                  *)
LEMMA CallKept ==
  ASSUME TypeInv, NEW k \in Calls, pc[k] # "idle", pc'[k] # "user",
         \A j \in Calls : j # k => /\ pc'[j] = pc[j] /\ user'[j] = user[j]
                                   /\ base'[j] = base[j] /\ attempt'[j] = attempt[j],
         pc'[k] # "idle" => user'[k] = user[k] /\ base'[k] = base[k] /\ attempt'[k] = attempt[k]
  PROVE  /\ \A u \in Users : Entries(u)' \subseteq Entries(u)
         /\ \A b \in Bases : Turns(b)' \subseteq Turns(b)
<1>1. \A u \in Users : Entries(u)' \subseteq Entries(u)
  BY DEF Entries
<1>2. \A b \in Bases : Turns(b)' \subseteq Turns(b)
  BY DEF Turns, Queue
<1>. QED
  BY <1>1, <1>2

LEMMA InitBounds == Init => BoundsInv
<1> SUFFICES ASSUME Init PROVE BoundsInv
  OBVIOUS
<1>1. /\ \A u \in Users : window[u] = 0
      /\ \A b \in Bases : debt[b] = 0 /\ lastEvent[b] = 0
  BY DEF Init
<1>2. 0 <= MaxQueue * UserInterval /\ 0 <= MaxQueue * BasePeriod /\ MaxDebt \in Nat
  BY Places, Parameters DEF MaxDebt
<1>3. \A u \in Users : Within(0, Entries(u), UserInterval)
  BY <1>2, InQueue, QueuedWithin, Parameters
<1>4. \A b \in Bases : Within(0, Turns(b), BasePeriod)
  BY <1>2, InQueue, QueuedWithin, Parameters
<1>. QED
  BY <1>1, <1>2, <1>3, <1>4 DEF BoundsInv, WindowInv, DebtInv, EventInv

LEMMA TickBounds == TypeInv /\ BoundsInv /\ Tick => BoundsInv'
<1> SUFFICES ASSUME TypeInv, BoundsInv, Tick PROVE BoundsInv'
  OBVIOUS
<1>0. TypeInv'
  BY TickType
<1>1. \A n \in Nat : Less(n, 1) <= n
  BY LessProperties
<1>2. /\ \A u \in Users : window'[u] <= window[u]
      /\ \A b \in Bases : debt'[b] <= debt[b] /\ lastEvent'[b] <= lastEvent[b]
  BY <1>1 DEF Tick, TypeInv, ClockType
<1>3. \A x : Entries(x)' = Entries(x) /\ Turns(x)' = Turns(x)
  BY DEF Tick, Entries, Turns
<1>. QED
  BY <1>0, <1>2, <1>3, BoundsKept

LEMMA BeginBounds ==
  ASSUME TypeInv, BoundsInv, NEW k \in Calls, NEW u \in Users, NEW b \in Bases \cup {NoBase},
         Begin(k, u, b)
  PROVE  BoundsInv'
<1>0. /\ UserInterval \in Nat /\ BasePeriod \in Nat
      /\ \A v \in Users : window[v] \in Nat
      /\ \A c \in Bases : debt[c] \in Nat
  BY Parameters DEF TypeInv, ClockType
<1>1. /\ pc[k] = "idle" /\ window[u] <= MaxQueue * UserInterval
      /\ b \in Bases => debt[b] <= MaxQueue * BasePeriod
      /\ UNCHANGED <<debt, lastEvent, attempt>>
      /\ \A v \in Users : window'[v] = IF v = u THEN window[v] + UserInterval ELSE window[v]
      /\ \A j \in Calls : /\ pc'[j] = IF j = k THEN "user" ELSE pc[j]
                          /\ user'[j] = IF j = k THEN u ELSE user[j]
                          /\ base'[j] = IF j = k THEN b ELSE base[j]
  BY DEF Begin, Enter, Sleep, baseVars, TypeInv, ClockType, CallType
<1>2. ASSUME NEW v \in Users PROVE Within(window'[v], Entries(v)', UserInterval)
  <2>1. CASE v = u
    <3>1. Entries(v)' \subseteq Calls \X (1..MaxAttempts - 1)
      BY DEF Entries
    <3>. QED
      BY <1>0, <1>1, <2>1, <3>1, EnteredWithin
  <2>2. CASE v # u
    <3>1. Entries(v)' \subseteq Entries(v)
      BY <1>1, <2>2 DEF Entries
    <3>. QED
      BY <1>0, <1>1, <2>2, <3>1, InQueue, KeptWithin DEF BoundsInv, WindowInv
  <2>. QED
    BY <2>1, <2>2
<1>3. ASSUME NEW c \in Bases PROVE Within(debt'[c], Turns(c)', BasePeriod)
  <2>1. CASE c = b
    <3>1. Turns(c)' \subseteq Queue
      BY DEF Turns
    <3>. QED
      BY <1>0, <1>1, <2>1, <3>1, QueuedWithin
  <2>2. CASE c # b
    <3>1. Turns(c)' \subseteq Turns(c)
      BY <1>1, <2>2 DEF Turns, Queue
    <3>. QED
      BY <1>0, <1>1, <2>2, <3>1, InQueue, KeptWithin DEF BoundsInv, DebtInv
  <2>. QED
    BY <2>1, <2>2
<1>. QED
  BY <1>1, <1>2, <1>3 DEF BoundsInv, WindowInv, DebtInv, EventInv

LEMMA ReserveBounds ==
  ASSUME TypeInv, BoundsInv, NEW k \in Calls, ReserveBase(k)
  PROVE  BoundsInv'
<1>0. \E b \in Bases : b = base[k]
  BY DEF ReserveBase
<1>1. PICK b \in Bases : b = base[k]
  BY <1>0
<1>2. /\ UserInterval \in Nat /\ BasePeriod \in Nat /\ Burst * BasePeriod \in Nat
      /\ \A c \in Bases : debt[c] \in Nat /\ lastEvent[c] \in Nat
      /\ attempt[k] \in 0..MaxAttempts - 1
  BY Parameters DEF TypeInv, ClockType, CallType
<1>3. /\ pc[k] = "user" /\ UNCHANGED <<window, user, base, attempt>>
      /\ \A j \in Calls : pc'[j] = IF j = k THEN "base" ELSE pc[j]
      /\ \A c \in Bases : /\ debt'[c] = IF c = b THEN debt[c] + BasePeriod ELSE debt[c]
                          /\ c # b => lastEvent'[c] = lastEvent[c]
      /\ lastEvent'[b] = Less(debt[b] + BasePeriod, Burst * BasePeriod)
  BY <1>1 DEF ReserveBase, Reserve, Sleep, TypeInv, ClockType, CallType
<1>4. WindowInv'
  <2>1. \A u : Entries(u)' = Entries(u)
    BY <1>3 DEF Entries
  <2>. QED
    BY <1>3, <2>1 DEF BoundsInv, WindowInv
<1>5. ASSUME NEW c \in Bases PROVE Within(debt'[c], Turns(c)', BasePeriod)
  <2>1. CASE c = b
    <3> DEFINE x == <<k, attempt[k]>>
    <3>1. x \in Turns(b)
      BY <1>1, <1>2, <1>3 DEF Turns, Queue
    <3>2. Turns(b)' \subseteq Turns(b) \ {x}
      BY <1>3 DEF Turns, Queue
    <3>3. Within(debt[b] + BasePeriod, Turns(b) \ {x}, BasePeriod)
      BY <1>2, <3>1, InQueue, TakenWithin DEF BoundsInv, DebtInv
    <3>4. debt'[b] = debt[b] + BasePeriod /\ debt'[b] \in Nat /\ Turns(b) \ {x} \subseteq Queue
      BY <1>2, <1>3, InQueue
    <3> HIDE DEF x
    <3>. QED
      BY <1>2, <2>1, <3>2, <3>3, <3>4, KeptWithin
  <2>2. CASE c # b
    <3>1. Turns(c)' \subseteq Turns(c)
      BY <1>1, <1>3, <2>2 DEF Turns, Queue
    <3>. QED
      BY <1>2, <1>3, <2>2, <3>1, InQueue, KeptWithin DEF BoundsInv, DebtInv
  <2>. QED
    BY <2>1, <2>2
<1>6. EventInv'
  <2>1. debt'[b] <= MaxDebt
    <3>1. debt'[b] \in Nat /\ Turns(b)' \subseteq Queue
      BY <1>2, <1>3 DEF Turns
    <3>. QED
      BY <1>2, <1>5, <3>1, WithinMax DEF MaxDebt
  <2>2. lastEvent'[b] \in Nat /\ lastEvent'[b] <= debt'[b] /\ debt'[b] \in Nat
    <3> DEFINE d == debt[b] + BasePeriod
    <3> DEFINE full == Burst * BasePeriod
    <3>1. d \in Nat /\ full \in Nat
      BY <1>2, Places, Parameters
    <3>2. debt'[b] = d /\ lastEvent'[b] = Less(d, full)
      BY <1>3
    <3> HIDE DEF d, full
    <3>3. Less(d, full) \in Nat /\ Less(d, full) <= d
      BY <3>1, LessProperties
    <3>. QED
      BY <3>1, <3>2, <3>3
  <2>3. lastEvent'[b] <= MaxDebt
    BY <2>1, <2>2, Places, Parameters DEF MaxDebt
  <2>. QED
    BY <1>3, <2>3 DEF BoundsInv, EventInv
<1>. QED
  BY <1>4, <1>5, <1>6 DEF BoundsInv, DebtInv

LEMMA RetryBounds ==
  ASSUME TypeInv, BoundsInv, NEW k \in Calls, Retry(k)
  PROVE  BoundsInv'
<1>0. \E u \in Users : u = user[k]
  BY DEF TypeInv, CallType
<1>1. PICK u \in Users : u = user[k]
  BY <1>0
<1>2. /\ UserInterval \in Nat /\ BasePeriod \in Nat
      /\ \A v \in Users : window[v] \in Nat
      /\ \A c \in Bases : debt[c] \in Nat
      /\ attempt[k] \in Nat /\ attempt[k] + 1 \in 1..MaxAttempts - 1
  BY Parameters DEF Retry, TypeInv, ClockType, CallType, AttemptsLeft
<1>3. /\ pc[k] = "backoff" /\ UNCHANGED <<debt, lastEvent, user, base>>
      /\ \A j \in Calls : /\ pc'[j] = IF j = k THEN "user" ELSE pc[j]
                          /\ attempt'[j] = IF j = k THEN attempt[j] + 1 ELSE attempt[j]
      /\ \A v \in Users : window'[v] = IF v = u THEN window[v] + UserInterval ELSE window[v]
  BY <1>1 DEF Retry, Enter, Sleep, baseVars, TypeInv, ClockType, CallType
<1>4. \A j \in Calls : attempt[j] \in Nat
  BY DEF TypeInv, CallType
<1>5. ASSUME NEW v \in Users PROVE Within(window'[v], Entries(v)', UserInterval)
  <2>0. Entries(v)' \subseteq Entries(v)
    BY <1>3, <1>4 DEF Entries
  <2>1. CASE v = u
    <3> DEFINE x == <<k, attempt[k] + 1>>
    <3>1. x \in Entries(u)
      BY <1>1, <1>2, <1>3 DEF Entries
    <3>2. Entries(u)' \subseteq Entries(u) \ {x}
      BY <1>3, <1>4, <2>0, <2>1 DEF Entries
    <3>3. Within(window[u] + UserInterval, Entries(u) \ {x}, UserInterval)
      BY <1>2, <3>1, InQueue, TakenWithin DEF BoundsInv, WindowInv
    <3>4. window'[u] = window[u] + UserInterval /\ window'[u] \in Nat /\ Entries(u) \ {x} \subseteq Queue
      BY <1>2, <1>3, InQueue
    <3> HIDE DEF x
    <3>. QED
      BY <1>2, <2>1, <3>2, <3>3, <3>4, KeptWithin
  <2>2. CASE v # u
    BY <1>2, <1>3, <2>0, <2>2, InQueue, KeptWithin DEF BoundsInv, WindowInv
  <2>. QED
    BY <2>1, <2>2
<1>6. ASSUME NEW c \in Bases PROVE Within(debt'[c], Turns(c)', BasePeriod)
  <2>1. Turns(c)' \subseteq Turns(c)
    BY <1>3, <1>4 DEF Turns, Queue
  <2>. QED
    BY <1>2, <1>3, <2>1, InQueue, KeptWithin DEF BoundsInv, DebtInv
<1>. QED
  BY <1>3, <1>5, <1>6 DEF BoundsInv, WindowInv, DebtInv, EventInv

(* Every other step of a call.                                             *)
LEMMA StepBounds ==
  ASSUME TypeInv, BoundsInv, NEW k \in Calls, Step(k) \/ Cancelled(k)
  PROVE  BoundsInv'
<1>0. TypeInv'
  BY StepType
<1>1. CASE PassNoBase(k) \/ Send(k) \/ Answered(k) \/ Failed(k) \/ RateLimited(k) \/ Return(k)
  <2>1. UNCHANGED <<window, debt, lastEvent>>
    BY <1>1 DEF PassNoBase, Send, Answered, Failed, RateLimited, Return, baseVars
  <2>2. /\ pc[k] # "idle" /\ pc'[k] # "user"
        /\ \A j \in Calls : j # k => /\ pc'[j] = pc[j] /\ user'[j] = user[j]
                                     /\ base'[j] = base[j] /\ attempt'[j] = attempt[j]
        /\ pc'[k] # "idle" => user'[k] = user[k] /\ base'[k] = base[k] /\ attempt'[k] = attempt[k]
    BY <1>1 DEF PassNoBase, Send, Answered, Failed, RateLimited, Return, Sleep, End, Ended,
                TypeInv, CallType
  <2>3. /\ \A u \in Users : Entries(u)' \subseteq Entries(u)
        /\ \A b \in Bases : Turns(b)' \subseteq Turns(b)
    BY <2>2, CallKept
  <2>4. /\ \A u \in Users : window'[u] <= window[u]
        /\ \A b \in Bases : debt'[b] <= debt[b] /\ lastEvent'[b] <= lastEvent[b]
    BY <2>1 DEF TypeInv, ClockType
  <2>. QED
    BY <1>0, <2>3, <2>4, BoundsKept
<1>2. CASE Cancelled(k)
  <2>1. /\ pc[k] # "idle" /\ pc'[k] # "user" /\ UNCHANGED <<window, user, base, attempt>>
        /\ \A j \in Calls : j # k => pc'[j] = pc[j]
    BY <1>2 DEF Cancelled, Sleep, Asleep, TypeInv, CallType
  <2>2. /\ \A u \in Users : Entries(u)' \subseteq Entries(u)
        /\ \A b \in Bases : Turns(b)' \subseteq Turns(b)
    BY <2>1, CallKept
  <2>3. \A b \in Bases : debt'[b] <= debt[b] /\ lastEvent'[b] <= lastEvent[b]
    <3>0. \A b \in Bases : debt[b] \in Nat /\ lastEvent[b] \in Nat
                           /\ Less(debt[b], BasePeriod) <= debt[b]
      BY LessProperties, Parameters DEF TypeInv, ClockType
    <3>1. CASE UNCHANGED <<debt, lastEvent>>
      BY <3>0, <3>1
    <3>2. CASE CancelAt(base[k], wait[k])
      <4>1. \A b \in Bases : debt'[b] \in {debt[b], Less(debt[b], BasePeriod)}
        BY <3>2 DEF CancelAt, TypeInv, ClockType
      <4>2. \A b \in Bases : lastEvent'[b] <= lastEvent[b]
        <5>1. wait[k] = lastEvent[base[k]] \/ UNCHANGED lastEvent
          BY <3>2 DEF CancelAt
        <5>2. CASE UNCHANGED lastEvent
          BY <3>0, <5>2
        <5>3. CASE wait[k] = lastEvent[base[k]]
          <6> DEFINE w == wait[k]
          <6> DEFINE v == IF w >= BasePeriod THEN w - BasePeriod ELSE w
          <6>1. lastEvent' = [lastEvent EXCEPT ![base[k]] = v]
            BY <3>2, <5>3 DEF CancelAt
          <6>2. w \in Nat /\ w = lastEvent[base[k]]
            BY <5>3 DEF TypeInv, CallType
          <6>3. v <= w
            BY <6>2, Parameters
          <6> HIDE DEF w, v
          <6>4. lastEvent \in [Bases -> Nat]
            BY DEF TypeInv, ClockType
          <6>. QED
            BY <3>0, <6>1, <6>2, <6>3, <6>4
        <5>. QED
          BY <5>1, <5>2, <5>3
      <4>. QED
        BY <3>0, <4>1, <4>2
    <3>. QED
      BY <1>2, <3>1, <3>2 DEF Cancelled
  <2>4. \A u \in Users : window'[u] <= window[u]
    BY <2>1 DEF TypeInv, ClockType
  <2>. QED
    BY <1>0, <2>2, <2>3, <2>4, BoundsKept
<1>. QED
  BY <1>1, <1>2, ReserveBounds, RetryBounds DEF Step

LEMMA NextBounds == TypeInv /\ BoundsInv /\ [Next]_vars => BoundsInv'
<1>1. BoundsInv /\ UNCHANGED vars => BoundsInv'
  BY DEF vars, baseVars, callVars, BoundsInv, WindowInv, DebtInv, EventInv, Entries, Turns
<1>. QED
  BY <1>1, TickBounds, BeginBounds, StepBounds DEF Next

(* Every variable keeps its type; in particular, calls that cannot all     *)
(* begin at once make no queue longer than MaxPlaces.                      *)
THEOREM TypeCorrect == Spec => []TypeOK
BY InitType, NextType, InitBounds, NextBounds, BoundsImplyTypeOK, PTL DEF Spec
-----------------------------------------------------------------------------
(* The rate of a bucket *)

(* The calls that wait for a token of base b: all of them, those that wait *)
(* x ticks at most, those that wait s at least, and those in between.      *)
Waiting(b) == {k \in Calls : pc[k] = "base" /\ base[k] = b}
Early(b, x) == {k \in Waiting(b) : wait[k] <= x}
Late(b, s) == {k \in Waiting(b) : wait[k] >= s}
Between(b, s, x) == {k \in Waiting(b) : s <= wait[k] /\ wait[k] <= x}

(* The time in which the bucket gains the tokens of so many calls, and     *)
(* that in which it gets full.                                             *)
Load(S) == Cardinality(S) * BasePeriod
Full == Burst * BasePeriod
Ages == 0..Second - 1

(* No more was sent, and waits to be, than the bucket has been emptied by. *)
SpentInv(b) == \A a \in Ages : sends[b][a] * BasePeriod + Load(Waiting(b)) <= debt[b] + a

(* The rate up to now and that of the calls that wait.                     *)
SoonInv(b) ==
  \A a \in Ages : \A x \in Nat :
    sends[b][a] * BasePeriod + Load(Early(b, x)) <= Full + a + x

LaterInv(b) ==
  \A s \in Nat \ {0} : \A x \in Nat : s <= x => Load(Between(b, s, x)) + s <= Full + x

(* A call that waits needs what the bucket lacks beyond a burst.           *)
LateInv(b) ==
  /\ \A s \in Nat \ {0} : Late(b, s) # {} => Load(Late(b, s)) + s <= debt[b]
  /\ \A k \in Waiting(b) : wait[k] > 0 => wait[k] + Full <= debt[b]

(* Calls that wait do so for tokens of their own, the last one for the     *)
(* token that CancelAt may give back.                                      *)
ApartInv(b) ==
  /\ \A j, k \in Waiting(b) :
       j # k /\ wait[j] > 0 /\ wait[k] > 0 =>
         wait[j] + BasePeriod <= wait[k] \/ wait[k] + BasePeriod <= wait[j]
  /\ debt[b] > Full => lastEvent[b] + Full = debt[b]

RateOf(b) == SpentInv(b) /\ SoonInv(b) /\ LaterInv(b) /\ LateInv(b) /\ ApartInv(b)

RateInv == \A b \in Bases : RateOf(b)

LEMMA FullProperties == BasePeriod \in Nat /\ BasePeriod > 0 /\ Full \in Nat /\ BasePeriod <= Full
<1>1. BasePeriod \in Nat /\ BasePeriod > 0 /\ Burst \in Int /\ 1 <= Burst
  BY LimitsAssumption
<1>2. 1 * BasePeriod <= Burst * BasePeriod /\ 1 * BasePeriod = BasePeriod
  BY <1>1, Products
<1>3. Burst * BasePeriod \in Nat
  BY Parameters
<1>. QED
  BY <1>1, <1>2, <1>3 DEF Full

LEMMA LoadProperties ==
  ASSUME NEW S, S \subseteq Calls
  PROVE  /\ Load(S) \in Nat
         /\ \A T : T \subseteq S => Load(T) <= Load(S)
         /\ \A T, x : T \subseteq S \cup {x} /\ x \in Calls => Load(T) <= Load(S) + BasePeriod
         /\ \A T, x : T \subseteq S \ {x} /\ x \in S => Load(T) + BasePeriod <= Load(S)
         /\ S = {} => Load(S) = 0
<1>0. BasePeriod \in Nat
  BY FullProperties
<1>1. IsFiniteSet(S) /\ Cardinality(S) \in Nat
  BY CallsAssumption, FS_Subset, FS_CardinalityType
<1>2. \A T : T \subseteq S => Cardinality(T) \in Nat /\ Cardinality(T) <= Cardinality(S)
  BY <1>1, FS_Subset, FS_CardinalityType
<1>3. ASSUME NEW T, NEW x, T \subseteq S \cup {x}, x \in Calls
      PROVE  Cardinality(T) \in Nat /\ Cardinality(T) <= Cardinality(S) + 1
  <2>1. /\ IsFiniteSet(S \cup {x}) /\ Cardinality(S \cup {x}) \in Nat
        /\ Cardinality(S \cup {x}) <= Cardinality(S) + 1
    BY <1>1, FS_AddElement, FS_CardinalityType
  <2>2. Cardinality(T) \in Nat /\ Cardinality(T) <= Cardinality(S \cup {x})
    BY <1>3, <2>1, FS_Subset, FS_CardinalityType
  <2>. QED
    BY <1>1, <2>1, <2>2
<1>4. ASSUME NEW T, NEW x, T \subseteq S \ {x}, x \in S
      PROVE  Cardinality(T) \in Nat /\ Cardinality(T) + 1 <= Cardinality(S)
  <2>1. IsFiniteSet(S \ {x}) /\ Cardinality(S \ {x}) = Cardinality(S) - 1
    BY <1>1, <1>4, FS_RemoveElement
  <2>2. Cardinality(T) \in Nat /\ Cardinality(T) <= Cardinality(S \ {x})
    BY <1>4, <2>1, FS_Subset, FS_CardinalityType
  <2>. QED
    BY <1>1, <2>1, <2>2
<1>5. Load(S) \in Nat
  BY <1>0, <1>1 DEF Load
<1>6. ASSUME NEW T, T \subseteq S PROVE Load(T) <= Load(S)
  BY <1>0, <1>1, <1>2, <1>6, Products DEF Load
<1>7. ASSUME NEW T, NEW x, T \subseteq S \cup {x}, x \in Calls
      PROVE  Load(T) <= Load(S) + BasePeriod
  <2>1. Cardinality(T) * BasePeriod <= (Cardinality(S) + 1) * BasePeriod
    BY <1>0, <1>1, <1>3, <1>7, Products
  <2>2. (Cardinality(S) + 1) * BasePeriod = Cardinality(S) * BasePeriod + BasePeriod
    BY <1>0, <1>1, Products
  <2>. QED
    BY <2>1, <2>2 DEF Load
<1>8. ASSUME NEW T, NEW x, T \subseteq S \ {x}, x \in S
      PROVE  Load(T) + BasePeriod <= Load(S)
  <2>1. (Cardinality(T) + 1) * BasePeriod <= Cardinality(S) * BasePeriod
    BY <1>0, <1>1, <1>4, <1>8, Products
  <2>2. (Cardinality(T) + 1) * BasePeriod = Cardinality(T) * BasePeriod + BasePeriod
    BY <1>0, <1>4, <1>8, Products
  <2>. QED
    BY <2>1, <2>2 DEF Load
<1>9. S = {} => Load(S) = 0
  BY <1>0, FS_EmptySet DEF Load
<1>. QED
  BY <1>5, <1>6, <1>7, <1>8, <1>9

(* The sets of calls that wait are sets of calls. *)
LEMMA WaitingCalls ==
  /\ \A b : Waiting(b) \subseteq Calls
  /\ \A b, x : Early(b, x) \subseteq Waiting(b) /\ Late(b, x) \subseteq Waiting(b)
  /\ \A b, s, x : Between(b, s, x) \subseteq Late(b, s) /\ Between(b, s, x) \subseteq Waiting(b)
BY DEF Waiting, Early, Late, Between

LEMMA InitRate == Init => RateInv
<1> SUFFICES ASSUME Init, NEW b \in Bases PROVE RateOf(b)
  BY DEF RateInv
<1>0. \A a \in Ages : a \in Nat
  BY LimitsAssumption DEF Ages
<1>1. /\ Waiting(b) = {} /\ debt[b] = 0 /\ \A a \in Ages : sends[b][a] * BasePeriod = 0
  BY FullProperties DEF Init, Waiting, Ages
<1>2. \A s, x : Early(b, x) = {} /\ Late(b, s) = {} /\ Between(b, s, x) = {}
  BY <1>1 DEF Early, Late, Between
<1>3. Load({}) = 0 /\ Full \in Nat
  BY LoadProperties, FullProperties
<1>4. SpentInv(b)
  BY <1>0, <1>1, <1>3 DEF SpentInv
<1>5. SoonInv(b)
  BY <1>0, <1>1, <1>2, <1>3 DEF SoonInv
<1>6. LaterInv(b)
  BY <1>2, <1>3 DEF LaterInv
<1>7. LateInv(b) /\ ApartInv(b)
  BY <1>1, <1>2, <1>3 DEF LateInv, ApartInv
<1>. QED
  BY <1>4, <1>5, <1>6, <1>7 DEF RateOf

(* What the steps about base b have in common. *)
LEMMA RateTypes ==
  ASSUME TypeInv, NEW b \in Bases
  PROVE  /\ debt[b] \in Nat /\ lastEvent[b] \in Nat
         /\ \A a \in Ages : a \in Nat /\ sends[b][a] \in Nat /\ sends[b][a] * BasePeriod \in Nat
         /\ \A k \in Waiting(b) : k \in Calls /\ wait[k] \in Nat
         /\ Load(Waiting(b)) \in Nat
         /\ \A s, x : /\ Load(Early(b, x)) \in Nat /\ Load(Late(b, s)) \in Nat
                      /\ Load(Between(b, s, x)) \in Nat
<1>1. BasePeriod \in Nat /\ \A m \in Nat : m * BasePeriod \in Nat
  BY FullProperties
<1>2. \A a \in Ages : a \in Nat /\ sends[b][a] \in Nat
  BY LimitsAssumption DEF TypeInv, ClockType, Ages
<1>3. debt[b] \in Nat /\ lastEvent[b] \in Nat
  BY DEF TypeInv, ClockType
<1>4. \A k \in Waiting(b) : k \in Calls /\ wait[k] \in Nat
  BY DEF TypeInv, CallType, Waiting
<1>5. /\ Waiting(b) \subseteq Calls
      /\ \A s, x : Early(b, x) \subseteq Calls /\ Late(b, s) \subseteq Calls /\ Between(b, s, x) \subseteq Calls
  BY WaitingCalls
<1>. QED
  BY <1>1, <1>2, <1>3, <1>4, <1>5, LoadProperties

(* Steps that at most take calls out of the queue keep the rate.           *)
LEMMA KeptRate ==
  ASSUME TypeInv, NEW b \in Bases, RateOf(b),
         debt'[b] = debt[b], lastEvent'[b] = lastEvent[b], sends'[b] = sends[b],
         Waiting(b)' \subseteq Waiting(b),
         \A k \in Waiting(b)' : wait'[k] = wait[k]
  PROVE  RateOf(b)'
<1>0. /\ Full \in Nat /\ debt[b] \in Nat
      /\ \A a \in Ages : a \in Nat /\ sends[b][a] * BasePeriod \in Nat
  BY FullProperties, RateTypes
<1>1. /\ \A x : Early(b, x)' \subseteq Early(b, x) /\ Late(b, x)' \subseteq Late(b, x)
      /\ \A s, x : Between(b, s, x)' \subseteq Between(b, s, x)
  BY DEF Early, Late, Between
<1>2. /\ Load(Waiting(b)') \in Nat /\ Load(Waiting(b)) \in Nat
      /\ Load(Waiting(b)') <= Load(Waiting(b))
      /\ \A x : /\ Load(Early(b, x)') \in Nat /\ Load(Early(b, x)) \in Nat
                /\ Load(Early(b, x)') <= Load(Early(b, x))
                /\ Load(Late(b, x)') \in Nat /\ Load(Late(b, x)) \in Nat
                /\ Load(Late(b, x)') <= Load(Late(b, x))
      /\ \A s, x : /\ Load(Between(b, s, x)') \in Nat /\ Load(Between(b, s, x)) \in Nat
                   /\ Load(Between(b, s, x)') <= Load(Between(b, s, x))
  <2>1. /\ Waiting(b)' \subseteq Calls
        /\ \A x : Early(b, x)' \subseteq Calls /\ Late(b, x)' \subseteq Calls
        /\ \A s, x : Between(b, s, x)' \subseteq Calls
    BY <1>1, WaitingCalls
  <2>2. /\ Waiting(b) \subseteq Calls
        /\ \A s, x : Early(b, x) \subseteq Calls /\ Late(b, s) \subseteq Calls /\ Between(b, s, x) \subseteq Calls
    BY WaitingCalls
  <2>. QED
    BY <1>1, <2>1, <2>2, LoadProperties
<1>3. SpentInv(b)'
  BY <1>0, <1>2 DEF RateOf, SpentInv
<1>4. SoonInv(b)'
  BY <1>0, <1>2 DEF RateOf, SoonInv
<1>5. LaterInv(b)'
  BY <1>0, <1>2 DEF RateOf, LaterInv
<1>6. LateInv(b)'
  <2>1. ASSUME NEW s \in Nat \ {0}, Late(b, s)' # {}
        PROVE  Load(Late(b, s)') + s <= debt'[b]
    BY <1>0, <1>1, <1>2, <2>1 DEF RateOf, LateInv
  <2>2. ASSUME NEW k \in Waiting(b)', wait'[k] > 0
        PROVE  wait'[k] + Full <= debt'[b]
    BY <2>2 DEF RateOf, LateInv
  <2>. QED
    BY <2>1, <2>2 DEF LateInv
<1>7. ApartInv(b)'
  BY DEF RateOf, ApartInv
<1>. QED
  BY <1>3, <1>4, <1>5, <1>6, <1>7 DEF RateOf

(* The loads of the sets of calls that wait are natural numbers.           *)
LEMMA Loads ==
  ASSUME NEW b
  PROVE  /\ Load(Waiting(b)) \in Nat
         /\ \A x : Load(Early(b, x)) \in Nat /\ Load(Late(b, x)) \in Nat
         /\ \A s, x : Load(Between(b, s, x)) \in Nat
<1>1. /\ Waiting(b) \subseteq Calls
      /\ \A s, x : Early(b, x) \subseteq Calls /\ Late(b, x) \subseteq Calls /\ Between(b, s, x) \subseteq Calls
  BY WaitingCalls
<1>. QED
  BY <1>1, LoadProperties

(* A request uses up the place of a call that need not wait any longer.    *)
LEMMA SendRate ==
  ASSUME TypeInv, NEW k \in Calls, NEW b \in Bases, RateOf(b), Send(k), base[k] = b
  PROVE  RateOf(b)'
<1>0. /\ Full \in Nat /\ debt[b] \in Nat /\ BasePeriod \in Nat
      /\ \A a \in Ages : a \in Nat /\ sends[b][a] \in Nat /\ sends[b][a] * BasePeriod \in Nat
  BY FullProperties, RateTypes
<1>1. /\ k \in Waiting(b) /\ wait[k] = 0 /\ wait' = wait
      /\ debt' = debt /\ lastEvent' = lastEvent
      /\ Waiting(b)' = Waiting(b) \ {k}
  BY DEF Send, Awake, Waiting, baseVars, TypeInv, CallType
<1>2. /\ \A x \in Nat : Early(b, x)' \subseteq Early(b, x) \ {k} /\ k \in Early(b, x)
      /\ \A x : Late(b, x)' \subseteq Late(b, x)
      /\ \A s, x : Between(b, s, x)' \subseteq Between(b, s, x)
  BY <1>1 DEF Early, Late, Between
<1>3. \A a \in Ages : sends'[b][a] * BasePeriod = sends[b][a] * BasePeriod + BasePeriod
  <2>1. \A a \in Ages : sends'[b][a] = sends[b][a] + 1
    BY DEF Send, TypeInv, ClockType, Ages
  <2>2. \A n \in Nat : (n + 1) * BasePeriod = n * BasePeriod + BasePeriod
    BY <1>0, Products
  <2>. QED
    BY <1>0, <2>1, <2>2
<1>4. /\ Load(Waiting(b)) \in Nat /\ Load(Waiting(b)') \in Nat
      /\ Load(Waiting(b)') + BasePeriod <= Load(Waiting(b))
  BY <1>1, WaitingCalls, LoadProperties
<1>5. \A x \in Nat : /\ Load(Early(b, x)) \in Nat /\ Load(Early(b, x)') \in Nat
                     /\ Load(Early(b, x)') + BasePeriod <= Load(Early(b, x))
  <2>1. ASSUME NEW x \in Nat
        PROVE  /\ Load(Early(b, x)) \in Nat /\ Load(Early(b, x)') \in Nat
               /\ Load(Early(b, x)') + BasePeriod <= Load(Early(b, x))
    <3>1. Early(b, x) \subseteq Calls /\ Early(b, x)' \subseteq Calls
      BY <1>2, WaitingCalls
    <3>. QED
      BY <1>2, <3>1, LoadProperties
  <2>. QED
    BY <2>1
<1>6. /\ \A x : /\ Load(Late(b, x)) \in Nat /\ Load(Late(b, x)') \in Nat
                /\ Load(Late(b, x)') <= Load(Late(b, x))
      /\ \A s, x : /\ Load(Between(b, s, x)) \in Nat /\ Load(Between(b, s, x)') \in Nat
                   /\ Load(Between(b, s, x)') <= Load(Between(b, s, x))
  <2>1. \A s, x : Late(b, x) \subseteq Calls /\ Between(b, s, x) \subseteq Calls
    BY WaitingCalls
  <2>2. \A s, x : Late(b, x)' \subseteq Calls /\ Between(b, s, x)' \subseteq Calls
    BY <1>2, <2>1
  <2>. QED
    BY <1>2, <2>1, <2>2, LoadProperties
<1>7. SpentInv(b)'
  BY <1>0, <1>1, <1>3, <1>4 DEF RateOf, SpentInv
<1>8. SoonInv(b)'
  BY <1>0, <1>3, <1>5 DEF RateOf, SoonInv
<1>9. LaterInv(b)'
  BY <1>0, <1>6 DEF RateOf, LaterInv
<1>10. LateInv(b)'
  <2>1. ASSUME NEW s \in Nat \ {0}, Late(b, s)' # {}
        PROVE  Load(Late(b, s)') + s <= debt'[b]
    BY <1>0, <1>1, <1>2, <1>6, <2>1 DEF RateOf, LateInv
  <2>2. ASSUME NEW j \in Waiting(b)', wait'[j] > 0
        PROVE  wait'[j] + Full <= debt'[b]
    BY <1>1, <2>2 DEF RateOf, LateInv
  <2>. QED
    BY <2>1, <2>2 DEF LateInv
<1>11. ApartInv(b)'
  BY <1>1 DEF RateOf, ApartInv
<1>. QED
  BY <1>7, <1>8, <1>9, <1>10, <1>11 DEF RateOf

(* Time passes when nobody is due.                                         *)
LEMMA TickRate ==
  ASSUME TypeInv, NEW b \in Bases, RateOf(b), Tick
  PROVE  RateOf(b)'
<1>0. /\ Full \in Nat /\ debt[b] \in Nat /\ lastEvent[b] \in Nat /\ BasePeriod \in Nat
      /\ \A a \in Ages : a \in Nat /\ sends[b][a] \in Nat /\ sends[b][a] * BasePeriod \in Nat
      /\ \A k \in Waiting(b) : wait[k] \in Nat
  BY FullProperties, RateTypes
<1>1. /\ Waiting(b)' = Waiting(b)
      /\ \A k \in Waiting(b) : wait[k] >= 1 /\ wait'[k] = wait[k] - 1
      /\ debt'[b] = Less(debt[b], 1) /\ lastEvent'[b] = Less(lastEvent[b], 1)
  <2>1. Waiting(b)' = Waiting(b) /\ \A k \in Waiting(b) : wait[k] # 0 /\ wait'[k] = Less(wait[k], 1)
    BY DEF Tick, Waiting, Asleep, Awake
  <2>2. \A n \in Nat : n # 0 => n >= 1 /\ Less(n, 1) = n - 1
    BY DEF Less
  <2>3. debt'[b] = Less(debt[b], 1) /\ lastEvent'[b] = Less(lastEvent[b], 1)
    BY DEF Tick
  <2>. QED
    BY <1>0, <2>1, <2>2, <2>3
<1>2. /\ debt[b] >= 1 => debt'[b] = debt[b] - 1
      /\ debt[b] = 0 => debt'[b] = 0
      /\ lastEvent[b] >= 1 => lastEvent'[b] = lastEvent[b] - 1
  BY <1>0, <1>1 DEF Less
<1>3. /\ \A x \in Nat : Early(b, x)' = Early(b, x + 1) /\ Early(b, x)' = Between(b, 1, x + 1)
      /\ \A s \in Nat : Late(b, s)' = Late(b, s + 1)
      /\ Late(b, 1) = Waiting(b)
      /\ \A s, x \in Nat : Between(b, s, x)' = Between(b, s + 1, x + 1)
  BY <1>0, <1>1 DEF Early, Late, Between
<1>4. /\ sends'[b][0] * BasePeriod = 0
      /\ \A a \in Ages : a # 0 => a - 1 \in Ages /\ sends'[b][a] = sends[b][a - 1]
  <2>1. sends'[b] = [a \in 0..Second - 1 |-> IF a = 0 THEN 0 ELSE sends[b][a - 1]]
    BY DEF Tick
  <2>2. 0 \in 0..Second - 1 /\ \A a \in Ages : a # 0 => a - 1 \in Ages
    BY LimitsAssumption DEF Ages
  <2>. QED
    BY <1>0, <2>1, <2>2 DEF Ages
<1>5. SpentInv(b)'
  <2>1. ASSUME NEW a \in Ages
        PROVE  sends'[b][a] * BasePeriod + Load(Waiting(b)) <= debt'[b] + a
    <3>1. CASE a = 0
      <4>1. CASE Waiting(b) = {}
        BY <1>0, <1>1, <1>2, <1>4, <3>1, <4>1, LoadProperties
      <4>2. CASE Waiting(b) # {}
        <5>1. 1 \in Nat \ {0} /\ Late(b, 1) # {}
          BY <1>3, <4>2
        <5>2. Load(Waiting(b)) + 1 <= debt[b]
          BY <1>3, <5>1 DEF RateOf, LateInv
        <5>3. Load(Waiting(b)) \in Nat
          BY Loads
        <5>4. Load(Waiting(b)) <= debt'[b] /\ debt'[b] \in Nat
          BY <1>0, <1>2, <5>2, <5>3
        <5>5. sends'[b][a] * BasePeriod = 0
          BY <1>4, <3>1
        <5>. QED
          BY <3>1, <5>3, <5>4, <5>5
      <4>. QED
        BY <4>1, <4>2
    <3>2. CASE a # 0
      BY <1>0, <1>2, <1>4, <3>2, Loads DEF RateOf, SpentInv
    <3>. QED
      BY <3>1, <3>2
  <2>. QED
    BY <1>1, <2>1 DEF SpentInv
<1>6. SoonInv(b)'
  <2>1. ASSUME NEW a \in Ages, NEW x \in Nat
        PROVE  sends'[b][a] * BasePeriod + Load(Early(b, x)') <= Full + a + x
    <3>0. x + 1 \in Nat /\ 1 <= x + 1 /\ 1 \in Nat \ {0}
      OBVIOUS
    <3>1. CASE a = 0
      <4>1. Load(Between(b, 1, x + 1)) + 1 <= Full + (x + 1)
        BY <3>0 DEF RateOf, LaterInv
      <4>. QED
        <5>1. Load(Early(b, x)') = Load(Between(b, 1, x + 1)) /\ Load(Between(b, 1, x + 1)) \in Nat
          BY <1>3, Loads
        <5>2. sends'[b][a] * BasePeriod = 0
          BY <1>4, <3>1
        <5>. QED
          BY <1>0, <3>1, <4>1, <5>1, <5>2
    <3>2. CASE a # 0
      <4>1. sends[b][a - 1] * BasePeriod + Load(Early(b, x + 1)) <= Full + (a - 1) + (x + 1)
        BY <1>4, <3>0, <3>2 DEF RateOf, SoonInv
      <4>. QED
        <5>1. Load(Early(b, x)') = Load(Early(b, x + 1)) /\ Load(Early(b, x + 1)) \in Nat
          BY <1>3, Loads
        <5>2. /\ sends'[b][a] * BasePeriod = sends[b][a - 1] * BasePeriod
              /\ sends[b][a - 1] * BasePeriod \in Nat
          BY <1>0, <1>4, <3>2
        <5>. QED
          BY <1>0, <3>2, <4>1, <5>1, <5>2
    <3>. QED
      BY <3>1, <3>2
  <2>. QED
    BY <2>1 DEF SoonInv
<1>7. LaterInv(b)'
  <2>1. ASSUME NEW s \in Nat \ {0}, NEW x \in Nat, s <= x
        PROVE  Load(Between(b, s, x)') + s <= Full + x
    <3>1. s + 1 \in Nat \ {0} /\ x + 1 \in Nat /\ s + 1 <= x + 1
      BY <2>1
    <3>2. Load(Between(b, s + 1, x + 1)) + (s + 1) <= Full + (x + 1)
      BY <3>1 DEF RateOf, LaterInv
    <3>. QED
      BY <1>0, <1>3, <3>2, Loads
  <2>. QED
    BY <2>1 DEF LaterInv
<1>8. LateInv(b)'
  <2>1. ASSUME NEW s \in Nat \ {0}, Late(b, s)' # {}
        PROVE  Load(Late(b, s)') + s <= debt'[b]
    <3>1. s + 1 \in Nat \ {0} /\ Late(b, s)' = Late(b, s + 1)
      BY <1>3
    <3>2. Load(Late(b, s + 1)) + (s + 1) <= debt[b]
      BY <2>1, <3>1 DEF RateOf, LateInv
    <3>3. Load(Late(b, s + 1)) \in Nat
      BY Loads
    <3>4. Load(Late(b, s + 1)) + s <= debt'[b]
      BY <1>0, <1>2, <3>2, <3>3
    <3>. QED
      BY <3>1, <3>4
  <2>2. ASSUME NEW k \in Waiting(b)', wait'[k] > 0
        PROVE  wait'[k] + Full <= debt'[b]
    <3>1. wait[k] + Full <= debt[b] /\ wait[k] >= 1 /\ wait'[k] = wait[k] - 1 /\ wait[k] \in Nat
      BY <1>0, <1>1, <2>2 DEF RateOf, LateInv
    <3>. QED
      BY <1>0, <1>2, <3>1
  <2>. QED
    BY <2>1, <2>2 DEF LateInv
<1>9. ApartInv(b)'
  <2>1. ASSUME NEW j \in Waiting(b), NEW k \in Waiting(b), j # k, wait'[j] > 0, wait'[k] > 0
        PROVE  wait'[j] + BasePeriod <= wait'[k] \/ wait'[k] + BasePeriod <= wait'[j]
    BY <1>0, <1>1, <2>1 DEF RateOf, ApartInv
  <2>2. debt'[b] > Full => lastEvent'[b] + Full = debt'[b]
    BY <1>0, <1>2 DEF RateOf, ApartInv
  <2>. QED
    BY <1>1, <2>1, <2>2 DEF ApartInv
<1>. QED
  BY <1>5, <1>6, <1>7, <1>8, <1>9 DEF RateOf

(* A sum stays below a bound when a summand shrinks or the bound grows.   *)
LEMMA Smaller ==
  \A l, m, n, p, q \in Nat :
    /\ l + m <= p /\ n <= m => l + n <= p
    /\ l + m <= p /\ p <= q => l + m <= q
OBVIOUS

(* A reservation joins the queue at its end.                               *)
LEMMA ReserveRate ==
  ASSUME TypeInv, NEW k \in Calls, NEW b \in Bases, RateOf(b), ReserveBase(k), base[k] = b
  PROVE  RateOf(b)'
<1> DEFINE w == Less(debt[b] + BasePeriod, Full)
<1>0. /\ Full \in Nat /\ debt[b] \in Nat /\ BasePeriod \in Nat /\ BasePeriod <= Full
      /\ \A a \in Ages : a \in Nat /\ sends[b][a] \in Nat /\ sends[b][a] * BasePeriod \in Nat
      /\ \A j \in Waiting(b) : j \in Calls /\ wait[j] \in Nat
  BY FullProperties, RateTypes
<1>1. /\ w \in Nat /\ debt[b] + BasePeriod <= Full + w
      /\ w > 0 => debt[b] + BasePeriod = Full + w
      /\ debt[b] + BasePeriod > Full => w > 0
  BY <1>0 DEF Less
<1>2. /\ debt'[b] = debt[b] + BasePeriod /\ lastEvent'[b] = w /\ sends' = sends
      /\ wait'[k] = w
  BY DEF ReserveBase, Reserve, Sleep, TypeInv, ClockType, CallType, Full
<1> HIDE DEF w
<1>3. /\ k \notin Waiting(b) /\ Waiting(b)' = Waiting(b) \cup {k}
      /\ \A j \in Waiting(b) : wait'[j] = wait[j]
  BY DEF ReserveBase, Sleep, Waiting, TypeInv, CallType
<1>4. /\ \A x \in Nat : /\ Early(b, x)' \subseteq Waiting(b)'
                        /\ x < w => Early(b, x)' \subseteq Early(b, x)
      /\ \A s \in Nat : /\ Late(b, s)' \subseteq Late(b, s) \cup {k}
                        /\ s > w => Late(b, s)' \subseteq Late(b, s)
      /\ \A s, x \in Nat : /\ Between(b, s, x)' \subseteq Late(b, s) \cup {k}
                           /\ s > w \/ w > x => Between(b, s, x)' \subseteq Between(b, s, x)
  BY <1>0, <1>1, <1>2, <1>3 DEF Early, Late, Between
<1>5. /\ Waiting(b) \subseteq Calls /\ Waiting(b)' \subseteq Calls
      /\ \A x : Early(b, x) \subseteq Calls /\ Late(b, x) \subseteq Calls
      /\ \A s, x : Between(b, s, x) \subseteq Calls
      /\ \A x \in Nat : Early(b, x)' \subseteq Calls /\ Late(b, x)' \subseteq Calls
      /\ \A s, x \in Nat : Between(b, s, x)' \subseteq Calls
  BY <1>3, <1>4, WaitingCalls
<1>6. /\ Load(Waiting(b)') \in Nat /\ Load(Waiting(b)') <= Load(Waiting(b)) + BasePeriod
      /\ \A x \in Nat : Load(Early(b, x)') \in Nat /\ Load(Late(b, x)') \in Nat
      /\ \A s, x \in Nat : Load(Between(b, s, x)') \in Nat
  BY <1>3, <1>5, LoadProperties
<1>7. ASSUME NEW a \in Ages
      PROVE  sends[b][a] * BasePeriod + Load(Waiting(b)') <= debt[b] + BasePeriod + a
  <2>1. sends[b][a] * BasePeriod + Load(Waiting(b)) <= debt[b] + a
    BY DEF RateOf, SpentInv
  <2>2. /\ sends[b][a] * BasePeriod \in Nat /\ a \in Nat
        /\ Load(Waiting(b)) \in Nat /\ Load(Waiting(b)') \in Nat
        /\ Load(Waiting(b)') <= Load(Waiting(b)) + BasePeriod
    BY <1>0, <1>6, Loads
  <2> DEFINE sent == sends[b][a] * BasePeriod
             before == Load(Waiting(b))
             after == Load(Waiting(b)')
             owed == debt[b]
  <2>3. sent + before <= owed + a /\ sent \in Nat /\ before \in Nat /\ after \in Nat
        /\ after <= before + BasePeriod /\ owed \in Nat
    BY <1>0, <2>1, <2>2
  <2> HIDE DEF sent, before, after, owed
  <2>4. sent + after <= owed + BasePeriod + a
    BY <1>0, <2>2, <2>3
  <2>. QED
    BY <2>4 DEF sent, after, owed
<1>8. SpentInv(b)'
  BY <1>0, <1>2, <1>7 DEF SpentInv
<1>9. SoonInv(b)'
  <2>1. ASSUME NEW a \in Ages, NEW x \in Nat
        PROVE  sends[b][a] * BasePeriod + Load(Early(b, x)') <= Full + a + x
    <3>1. CASE x < w
      <4>1. Load(Early(b, x)') <= Load(Early(b, x)) /\ Load(Early(b, x)) \in Nat
        BY <1>4, <1>5, <3>1, LoadProperties
      <4>2. sends[b][a] * BasePeriod + Load(Early(b, x)) <= Full + a + x
        BY DEF RateOf, SoonInv
      <4>3. /\ sends[b][a] * BasePeriod \in Nat /\ a \in Nat
            /\ Load(Early(b, x)) \in Nat /\ Load(Early(b, x)') \in Nat
        BY <1>0, <1>6, <4>1
      <4>. QED
        BY <1>0, <4>1, <4>2, <4>3, Smaller
    <3>2. CASE x >= w
      <4>1. Load(Early(b, x)') <= Load(Waiting(b)')
        BY <1>4, <1>5, LoadProperties
      <4>2. /\ sends[b][a] * BasePeriod \in Nat /\ a \in Nat
            /\ Load(Early(b, x)') \in Nat /\ Load(Waiting(b)') \in Nat
        BY <1>0, <1>6
      <4>3. debt[b] + BasePeriod + a <= Full + a + x
        BY <1>0, <1>1, <3>2, <4>2
      <4>4. sends[b][a] * BasePeriod + Load(Waiting(b)') <= Full + a + x
        BY <1>0, <1>7, <4>2, <4>3, Smaller
      <4>. QED
        BY <1>0, <4>1, <4>2, <4>4, Smaller
    <3>. QED
      BY <1>1, <3>1, <3>2
  <2>. QED
    BY <1>2, <2>1 DEF SoonInv
<1>10. ASSUME NEW s \in Nat \ {0}, s <= w, NEW S, S \subseteq Late(b, s) \cup {k}
       PROVE  Load(S) + s <= debt[b] + BasePeriod
  <2>1. Load(S) \in Nat /\ Load(Late(b, s)) \in Nat /\ Load(S) <= Load(Late(b, s)) + BasePeriod
    <3>1. Late(b, s) \subseteq Calls /\ S \subseteq Calls
      BY <1>5, <1>10
    <3>. QED
      BY <1>10, <3>1, LoadProperties
  <2>2. CASE Late(b, s) = {}
    <3>1. Load(Late(b, s)) = 0
      BY <1>5, <2>2, LoadProperties
    <3>. QED
      BY <1>0, <1>1, <1>10, <2>1, <3>1
  <2>3. CASE Late(b, s) # {}
    <3>1. Load(Late(b, s)) + s <= debt[b]
      BY <2>3 DEF RateOf, LateInv
    <3>. QED
      BY <1>0, <2>1, <3>1
  <2>. QED
    BY <2>2, <2>3
<1>11. LaterInv(b)'
  <2>1. ASSUME NEW s \in Nat \ {0}, NEW x \in Nat, s <= x
        PROVE  Load(Between(b, s, x)') + s <= Full + x
    <3>1. CASE s > w \/ w > x
      <4>1. Load(Between(b, s, x)') <= Load(Between(b, s, x)) /\ Load(Between(b, s, x)) \in Nat
        BY <1>4, <1>5, <3>1, LoadProperties
      <4>2. Load(Between(b, s, x)) + s <= Full + x
        BY <2>1 DEF RateOf, LaterInv
      <4>. QED
        BY <1>0, <1>6, <4>1, <4>2
    <3>2. CASE s <= w /\ w <= x
      <4>1. Load(Between(b, s, x)') + s <= debt[b] + BasePeriod
        BY <1>4, <1>10, <3>2
      <4>2. Load(Between(b, s, x)') \in Nat
        BY <1>6
      <4>. QED
        BY <1>0, <1>1, <3>2, <4>1, <4>2
    <3>. QED
      BY <1>1, <3>1, <3>2
  <2>. QED
    BY <2>1 DEF LaterInv
<1>12. LateInv(b)'
  <2>1. ASSUME NEW s \in Nat \ {0}, Late(b, s)' # {}
        PROVE  Load(Late(b, s)') + s <= debt'[b]
    <3>1. CASE s > w
      <4>1. /\ Load(Late(b, s)') <= Load(Late(b, s)) /\ Load(Late(b, s)) \in Nat
            /\ Load(Late(b, s)') \in Nat
        BY <1>4, <1>5, <1>6, <3>1, LoadProperties
      <4>2. Load(Late(b, s)) + s <= debt[b]
        BY <1>4, <2>1, <3>1 DEF RateOf, LateInv
      <4>. QED
        BY <1>0, <1>2, <4>1, <4>2
    <3>2. CASE s <= w
      BY <1>2, <1>4, <1>10, <3>2
    <3>. QED
      BY <1>1, <3>1, <3>2
  <2>2. ASSUME NEW j \in Waiting(b)', wait'[j] > 0
        PROVE  wait'[j] + Full <= debt'[b]
    <3>1. CASE j = k
      BY <1>0, <1>1, <1>2, <2>2, <3>1
    <3>2. CASE j \in Waiting(b)
      <4>1. wait[j] + Full <= debt[b] /\ wait[j] \in Nat /\ wait'[j] = wait[j]
        BY <1>0, <1>3, <2>2, <3>2 DEF RateOf, LateInv
      <4>. QED
        BY <1>0, <1>2, <4>1
    <3>. QED
      BY <1>3, <3>1, <3>2
  <2>. QED
    BY <2>1, <2>2 DEF LateInv
<1>13. ApartInv(b)'
  <2>1. ASSUME NEW j \in Waiting(b), wait[j] > 0, w > 0
        PROVE  wait[j] + BasePeriod <= w
    <3>1. wait[j] + Full <= debt[b] /\ wait[j] \in Nat
      BY <1>0, <2>1 DEF RateOf, LateInv
    <3>. QED
      BY <1>0, <1>1, <2>1, <3>1
  <2>2. ASSUME NEW i \in Waiting(b)', NEW j \in Waiting(b)', i # j, wait'[i] > 0, wait'[j] > 0
        PROVE  wait'[i] + BasePeriod <= wait'[j] \/ wait'[j] + BasePeriod <= wait'[i]
    <3>1. CASE i \in Waiting(b) /\ j \in Waiting(b)
      BY <1>3, <2>2, <3>1 DEF RateOf, ApartInv
    <3>2. CASE i = k /\ j \in Waiting(b)
      BY <1>2, <1>3, <2>1, <2>2, <3>2
    <3>3. CASE i \in Waiting(b) /\ j = k
      BY <1>2, <1>3, <2>1, <2>2, <3>3
    <3>. QED
      BY <1>3, <2>2, <3>1, <3>2, <3>3
  <2>3. debt'[b] > Full => lastEvent'[b] + Full = debt'[b]
    BY <1>0, <1>1, <1>2
  <2>. QED
    BY <2>2, <2>3 DEF ApartInv
<1>. QED
  BY <1>8, <1>9, <1>11, <1>12, <1>13 DEF RateOf

(* CancelAt gives back the last reservation, of which no other call has    *)
(* need, and no other reservation.                                         *)
LEMMA CancelRate ==
  ASSUME TypeInv, NEW k \in Calls, NEW b \in Bases, RateOf(b),
         Cancelled(k), pc[k] = "base", base[k] = b
  PROVE  RateOf(b)'
<1>0. /\ Full \in Nat /\ debt[b] \in Nat /\ lastEvent[b] \in Nat
      /\ BasePeriod \in Nat /\ BasePeriod <= Full
      /\ \A a \in Ages : a \in Nat /\ sends[b][a] \in Nat /\ sends[b][a] * BasePeriod \in Nat
      /\ \A j \in Waiting(b) : j \in Calls /\ wait[j] \in Nat
  BY FullProperties, RateTypes
<1>1. /\ k \in Waiting(b) /\ wait[k] # 0 /\ sends' = sends
      /\ Waiting(b)' = Waiting(b) \ {k}
      /\ \A j \in Waiting(b)' : wait'[j] = wait[j]
  BY DEF Cancelled, Sleep, Awake, Waiting, TypeInv, CallType
<1>2. CASE wait[k] # lastEvent[b]
  BY <1>1, <1>2, KeptRate DEF Cancelled, CancelAt
<1>3. CASE wait[k] = lastEvent[b]
  <2> DEFINE w == wait[k]
  <2>1. w \in Nat /\ w > 0
    BY <1>0, <1>1
  <2>2. w + Full = debt[b]
    <3>1. w + Full <= debt[b]
      BY <1>1, <2>1 DEF RateOf, LateInv
    <3>2. debt[b] > Full
      BY <1>0, <2>1, <3>1
    <3>. QED
      BY <1>3, <3>2 DEF RateOf, ApartInv
  <2>3. /\ debt' = [debt EXCEPT ![b] = Less(@, BasePeriod)]
        /\ lastEvent' = [lastEvent EXCEPT ![b] = IF w >= BasePeriod THEN w - BasePeriod ELSE w]
    BY <1>3 DEF Cancelled, CancelAt
  <2> HIDE DEF w
  <2>4. /\ debt'[b] = debt[b] - BasePeriod
        /\ debt'[b] > Full => lastEvent'[b] = w - BasePeriod
    <3>1. debt'[b] = Less(debt[b], BasePeriod)
      BY <2>3 DEF TypeInv, ClockType
    <3>2. lastEvent'[b] = IF w >= BasePeriod THEN w - BasePeriod ELSE w
      BY <2>3 DEF TypeInv, ClockType
    <3>3. debt[b] >= BasePeriod
      BY <1>0, <2>1, <2>2
    <3>4. debt'[b] = debt[b] - BasePeriod
      BY <1>0, <3>1, <3>3 DEF Less
    <3>. QED
      BY <1>0, <2>1, <2>2, <3>2, <3>4
  <2>5. ASSUME NEW j \in Waiting(b)', wait[j] > 0
        PROVE  wait[j] + BasePeriod <= w
    <3>1. j \in Waiting(b) /\ j # k /\ wait[j] \in Nat
      BY <1>0, <1>1
    <3>2. wait[j] + Full <= debt[b]
      BY <2>5, <3>1 DEF RateOf, LateInv
    <3>3. wait[j] + BasePeriod <= w \/ w + BasePeriod <= wait[j]
      BY <1>1, <2>1, <2>5, <3>1 DEF RateOf, ApartInv, w
    <3>4. BasePeriod > 0
      BY FullProperties
    <3>. QED
      BY <1>0, <2>1, <2>2, <3>1, <3>2, <3>3, <3>4
  <2>6. /\ \A x : Early(b, x)' \subseteq Early(b, x)
        /\ \A x \in Nat : /\ Late(b, x)' \subseteq Late(b, x)
                          /\ x <= w => Late(b, x)' \subseteq Late(b, x) \ {k} /\ k \in Late(b, x)
        /\ \A s, x : Between(b, s, x)' \subseteq Between(b, s, x)
    BY <1>1, <2>1 DEF Early, Late, Between, w
  <2>7. /\ Waiting(b) \subseteq Calls /\ Waiting(b)' \subseteq Calls
        /\ \A x : Early(b, x) \subseteq Calls /\ Late(b, x) \subseteq Calls /\ Early(b, x)' \subseteq Calls
        /\ \A x \in Nat : Late(b, x)' \subseteq Calls
        /\ \A s, x : Between(b, s, x) \subseteq Calls /\ Between(b, s, x)' \subseteq Calls
    BY <1>1, <2>6, WaitingCalls
  <2>8. /\ Load(Waiting(b)') \in Nat /\ Load(Waiting(b)') + BasePeriod <= Load(Waiting(b))
        /\ \A x : Load(Early(b, x)') \in Nat /\ Load(Early(b, x)') <= Load(Early(b, x))
        /\ \A s, x : /\ Load(Between(b, s, x)') \in Nat
                     /\ Load(Between(b, s, x)') <= Load(Between(b, s, x))
    BY <1>1, <2>6, <2>7, LoadProperties
  <2>9. SpentInv(b)'
    BY <1>0, <1>1, <2>4, <2>8, Loads DEF RateOf, SpentInv
  <2>10. SoonInv(b)'
    BY <1>0, <1>1, <2>8, Loads DEF RateOf, SoonInv
  <2>11. LaterInv(b)'
    BY <1>0, <2>8, Loads DEF RateOf, LaterInv
  <2>12. LateInv(b)'
    <3>1. ASSUME NEW s \in Nat \ {0}, NEW j \in Late(b, s)'
          PROVE  Load(Late(b, s)') + s <= debt'[b]
      <4>1. j \in Waiting(b)' /\ wait[j] >= s /\ wait[j] \in Nat
        BY <1>0, <1>1 DEF Late
      <4>2. s <= w
        <5>1. wait[j] + BasePeriod <= w
          BY <2>5, <4>1
        <5>. QED
          BY <1>0, <2>1, <4>1, <5>1
      <4>3. /\ Load(Late(b, s)') \in Nat /\ Load(Late(b, s)) \in Nat
            /\ Load(Late(b, s)') + BasePeriod <= Load(Late(b, s))
        BY <2>6, <2>7, <4>2, LoadProperties
      <4>4. Load(Late(b, s)) + s <= debt[b]
        BY <2>6, <4>2 DEF RateOf, LateInv
      <4>. QED
        BY <1>0, <2>4, <4>3, <4>4
    <3>2. ASSUME NEW j \in Waiting(b)', wait'[j] > 0
          PROVE  wait'[j] + Full <= debt'[b]
      <4>1. wait'[j] = wait[j] /\ wait[j] \in Nat /\ wait[j] + BasePeriod <= w
        BY <1>0, <1>1, <2>5, <3>2
      <4>. QED
        BY <1>0, <2>1, <2>2, <2>4, <4>1
    <3>. QED
      BY <3>1, <3>2 DEF LateInv
  <2>13. ApartInv(b)'
    <3>1. ASSUME NEW i \in Waiting(b)', NEW j \in Waiting(b)', i # j, wait'[i] > 0, wait'[j] > 0
          PROVE  wait'[i] + BasePeriod <= wait'[j] \/ wait'[j] + BasePeriod <= wait'[i]
      BY <1>1, <3>1 DEF RateOf, ApartInv
    <3>2. debt'[b] > Full => lastEvent'[b] + Full = debt'[b]
      BY <1>0, <2>1, <2>2, <2>4
    <3>. QED
      BY <3>1, <3>2 DEF ApartInv
  <2>. QED
    BY <2>9, <2>10, <2>11, <2>12, <2>13 DEF RateOf
<1>. QED
  BY <1>2, <1>3

LEMMA NextRate == TypeInv /\ RateInv /\ [Next]_vars => RateInv'
<1> SUFFICES ASSUME TypeInv, RateInv, [Next]_vars, NEW b \in Bases PROVE RateOf(b)'
  BY DEF RateInv
<1>0. RateOf(b)
  BY DEF RateInv
<1>1. CASE UNCHANGED vars
  BY <1>0, <1>1, KeptRate DEF vars, baseVars, callVars, Waiting
<1>2. CASE Tick
  BY <1>0, <1>2, TickRate
<1>3. ASSUME NEW k \in Calls, NEW u \in Users, NEW c \in Bases \cup {NoBase}, Begin(k, u, c)
      PROVE  RateOf(b)'
  <2>1. Waiting(b)' \subseteq Waiting(b) /\ \A j \in Waiting(b)' : wait'[j] = wait[j]
    BY <1>3 DEF Begin, Enter, Sleep, Waiting, TypeInv, CallType
  <2>. QED
    BY <1>0, <1>3, <2>1, KeptRate DEF Begin, baseVars
<1>4. ASSUME NEW k \in Calls, Step(k) \/ Cancelled(k)
      PROVE  RateOf(b)'
  <2>1. CASE PassNoBase(k) \/ Answered(k) \/ Failed(k) \/ RateLimited(k) \/ Retry(k) \/ Return(k)
    <3>1. Waiting(b)' \subseteq Waiting(b) /\ \A j \in Waiting(b)' : wait'[j] = wait[j]
      BY <2>1, BasesAssumption
      DEF PassNoBase, Answered, Failed, RateLimited, Retry, Return, Enter, Sleep, End, Ended,
          Waiting, TypeInv, CallType
    <3>2. UNCHANGED <<baseVars, sends>>
      BY <2>1 DEF PassNoBase, Answered, Failed, RateLimited, Retry, Return
    <3>. QED
      BY <1>0, <3>1, <3>2, KeptRate DEF baseVars
  <2>2. CASE ReserveBase(k)
    <3>1. CASE base[k] = b
      BY <1>0, <2>2, <3>1, ReserveRate
    <3>2. CASE base[k] # b
      <4>1. Waiting(b)' \subseteq Waiting(b) /\ \A j \in Waiting(b)' : wait'[j] = wait[j]
        BY <2>2, <3>2 DEF ReserveBase, Sleep, Waiting, TypeInv, CallType
      <4>2. debt'[b] = debt[b] /\ lastEvent'[b] = lastEvent[b] /\ sends' = sends
        BY <2>2, <3>2 DEF ReserveBase, Reserve, TypeInv, ClockType
      <4>. QED
        BY <1>0, <4>1, <4>2, KeptRate
    <3>. QED
      BY <3>1, <3>2
  <2>3. CASE Send(k)
    <3>1. CASE base[k] = b
      BY <1>0, <2>3, <3>1, SendRate
    <3>2. CASE base[k] # b
      <4>1. Waiting(b)' \subseteq Waiting(b) /\ \A j \in Waiting(b)' : wait'[j] = wait[j]
        BY <2>3, <3>2 DEF Send, Waiting, TypeInv, CallType
      <4>2. debt' = debt /\ lastEvent' = lastEvent /\ sends'[b] = sends[b]
        BY <2>3, <3>2 DEF Send, baseVars, TypeInv, ClockType
      <4>. QED
        BY <1>0, <4>1, <4>2, KeptRate
    <3>. QED
      BY <3>1, <3>2
  <2>4. CASE Cancelled(k)
    <3>1. CASE pc[k] = "base" /\ base[k] = b
      BY <1>0, <2>4, <3>1, CancelRate
    <3>2. CASE ~(pc[k] = "base" /\ base[k] = b)
      <4>1. Waiting(b)' \subseteq Waiting(b) /\ \A j \in Waiting(b)' : wait'[j] = wait[j]
        BY <2>4, <3>2 DEF Cancelled, Sleep, Waiting, TypeInv, CallType
      <4>2. debt'[b] = debt[b] /\ lastEvent'[b] = lastEvent[b] /\ sends' = sends
        <5>1. CASE pc[k] = "base"
          BY <2>4, <3>2, <5>1 DEF Cancelled, CancelAt, TypeInv, ClockType
        <5>2. CASE pc[k] # "base"
          BY <2>4, <5>2 DEF Cancelled
        <5>. QED
          BY <5>1, <5>2
      <4>. QED
        BY <1>0, <4>1, <4>2, KeptRate
    <3>. QED
      BY <3>1, <3>2
  <2>. QED
    BY <1>4, <2>1, <2>2, <2>3, <2>4 DEF Step
<1>. QED
  BY <1>1, <1>2, <1>3, <1>4 DEF Next

LEMMA RateImplied == TypeInv /\ RateInv => BaseRate
<1> SUFFICES ASSUME TypeInv, RateInv, NEW b \in Bases, NEW a \in Ages
             PROVE  sends[b][a] * BasePeriod <= Full + a
  BY DEF BaseRate, Ages, Full
<1>1. sends[b][a] * BasePeriod + Load(Early(b, 0)) <= Full + a + 0
  BY DEF RateInv, RateOf, SoonInv
<1>. QED
  BY <1>1, FullProperties, RateTypes, Loads

(* In any time a base is sent at most a burst and what the bucket gains,   *)
(* although reservations in the middle of the queue are cancelled and      *)
(* nobody takes their places (waitForBaseRateLimit).                       *)
THEOREM RateKept == Spec => []BaseRate
BY InitType, NextType, InitRate, NextRate, RateImplied, PTL DEF Spec
=============================================================================
