--------------------------- MODULE AirtableClient ---------------------------
(***************************************************************************)
(* The HTTP client for Airtable's API (internal/sync/airtable.go): calls   *)
(* wait for the window of their user and for the token bucket of their     *)
(* base, and are tried again when Airtable answers 429.                    *)
(*                                                                         *)
(* Times are numbers of ticks from now.  A bucket (golang.org/x/time/rate) *)
(* of Burst tokens that gains one every BasePeriod is described by its     *)
(* debt, the time until it is full.  A sleep ends on time: the delays of   *)
(* the scheduler are below a tick.  A window or a bucket that was not used *)
(* for ten minutes is forgotten; it has been open, or full, for long then, *)
(* which is what a new one is, so that is no step of its own.              *)
(***************************************************************************)
EXTENDS Naturals, FiniteSets

CONSTANTS
  Calls,         \* slots for concurrent calls of doJSON
  Users,         \* access tokens
  Bases,
  NoBase,        \* the base of a call that concerns none (ListBases)
  Burst,         \* baseRateBurst
  BasePeriod,    \* 1 / baseRateLimit
  UserInterval,  \* the interval of waitForUserRateLimit
  MaxAttempts,   \* maxRetryAttempts
  MaxBackoff,    \* maxRetryBackoff
  RetryAfters,   \* bound: what Airtable asks for in Retry-After
  MaxQueue,      \* bound: the places taken in a window when a call begins
  Second         \* the time for which the sends are remembered, for BaseRate

ASSUME CallsAssumption == IsFiniteSet(Calls) /\ Users # {}
ASSUME BasesAssumption == NoBase \notin Bases
ASSUME LimitsAssumption ==
  /\ Burst \in Nat \ {0} /\ BasePeriod \in Nat \ {0} /\ UserInterval \in Nat
  /\ MaxAttempts \in Nat \ {0} /\ MaxBackoff \in Nat /\ RetryAfters \subseteq Nat
  /\ MaxQueue \in Nat
  /\ Second \in Nat \ {0}

VARIABLES
  window,    \* window[u]: nextAllowedAt
  debt,      \* debt[b]: time until the bucket of b is full
  lastEvent, \* lastEvent[b]: when its last reservation takes effect
  pc, user, base, attempt,
  wait,      \* wait[k]: what is left of the sleep of call k
  performed, \* performed[k]: how often Airtable has carried out call k
  hint,      \* hint[k]: what is left of the last Retry-After, up to the cap
  sends      \* sends[b][a]: history, requests for b sent in the last a ticks

baseVars == <<debt, lastEvent>>
callVars == <<pc, user, base, attempt, wait, performed, hint>>
vars == <<window, baseVars, callVars, sends>>

Asleep == {"user", "base", "backoff"}
Ended == {"ok", "failed", "limited"}
PCs == {"idle", "sent"} \cup Asleep \cup Ended

(* Calls that have begun may yet take as many places. *)
MaxPlaces == MaxQueue + Cardinality(Calls) * MaxAttempts
MaxWindow == MaxPlaces * UserInterval
MaxDebt == MaxPlaces * BasePeriod

TypeOK ==
  /\ window \in [Users -> 0..MaxWindow]
  /\ debt \in [Bases -> 0..MaxDebt] /\ lastEvent \in [Bases -> 0..MaxDebt]
  /\ pc \in [Calls -> PCs] /\ user \in [Calls -> Users] /\ base \in [Calls -> Bases \cup {NoBase}]
  /\ attempt \in [Calls -> 0..MaxAttempts - 1]
  /\ wait \in [Calls -> Nat] /\ hint \in [Calls -> 0..MaxBackoff]
  /\ performed \in [Calls -> Nat]
  /\ sends \in [Bases -> [0..Second - 1 -> Nat]]

AnyUser == CHOOSE u \in Users : TRUE

Init ==
  /\ window = [u \in Users |-> 0]
  /\ debt = [b \in Bases |-> 0] /\ lastEvent = [b \in Bases |-> 0]
  /\ pc = [k \in Calls |-> "idle"] /\ user = [k \in Calls |-> AnyUser]
  /\ base = [k \in Calls |-> NoBase] /\ attempt = [k \in Calls |-> 0]
  /\ wait = [k \in Calls |-> 0] /\ hint = [k \in Calls |-> 0]
  /\ performed = [k \in Calls |-> 0]
  /\ sends = [b \in Bases |-> [a \in 0..Second - 1 |-> 0]]

Less(m, n) == IF m > n THEN m - n ELSE 0
Least(m, n) == IF m < n THEN m ELSE n

(* Call k goes to sleep for n ticks. *)
Sleep(k, label, n) ==
  /\ pc' = [pc EXCEPT ![k] = label]
  /\ wait' = [wait EXCEPT ![k] = n]

Awake(k) == wait[k] = 0

-----------------------------------------------------------------------------
(* waitForWindow, for the user *)

(* A window opens at once for everybody who finds it open. *)
EnterTogether(k, u) ==
  /\ Sleep(k, "user", window[u])
  /\ window' = [window EXCEPT ![u] = IF @ = 0 THEN UserInterval ELSE @]

(* Under c.mu: the next place in the window.  It stays taken when the call *)
(* is cancelled.                                                           *)
Enter(k, u) ==
  /\ Sleep(k, "user", window[u])
  /\ window' = [window EXCEPT ![u] = @ + UserInterval]

(* A call of doJSON begins. *)
Begin(k, u, b) ==
  /\ pc[k] = "idle"
  /\ window[u] <= MaxQueue * UserInterval /\ (b \in Bases => debt[b] <= MaxQueue * BasePeriod)
  /\ Enter(k, u)
  /\ user' = [user EXCEPT ![k] = u]
  /\ base' = [base EXCEPT ![k] = b]
  /\ UNCHANGED <<baseVars, attempt, performed, hint, sends>>

-----------------------------------------------------------------------------
(* waitForBaseRateLimit *)

(* A call that concerns no base does not wait for one. *)
PassNoBase(k) ==
  /\ pc[k] = "user" /\ Awake(k) /\ base[k] = NoBase
  /\ Sleep(k, "base", 0)
  /\ UNCHANGED <<window, baseVars, user, base, attempt, performed, hint, sends>>

(* ReserveN of the bucket. *)
Reserve(k, b) ==
  /\ debt' = [debt EXCEPT ![b] = @ + BasePeriod]
  /\ lastEvent' = [lastEvent EXCEPT ![b] = Less(debt[b] + BasePeriod, Burst * BasePeriod)]

ReserveBase(k) ==
  /\ pc[k] = "user" /\ Awake(k) /\ base[k] \in Bases
  /\ Reserve(k, base[k])
  /\ Sleep(k, "base", lastEvent'[base[k]])
  /\ UNCHANGED <<window, user, base, attempt, performed, hint, sends>>

(* Every reservation that is cancelled is given back. *)
CancelAny(b, w) == debt' = [debt EXCEPT ![b] = Less(@, BasePeriod)] /\ UNCHANGED lastEvent

(* CancelAt of a reservation for w ticks from now: it is given back unless *)
(* a later one depends on it.                                              *)
CancelAt(b, w) ==
  IF w = lastEvent[b]
    THEN /\ debt' = [debt EXCEPT ![b] = Less(@, BasePeriod)]
         /\ lastEvent' = [lastEvent EXCEPT ![b] = IF w >= BasePeriod THEN w - BasePeriod ELSE w]
    ELSE UNCHANGED <<debt, lastEvent>>

-----------------------------------------------------------------------------
(* doJSON *)

Send(k) ==
  /\ pc[k] = "base" /\ Awake(k)
  /\ pc' = [pc EXCEPT ![k] = "sent"]
  /\ sends' = IF base[k] \in Bases
                THEN [sends EXCEPT ![base[k]] = [a \in 0..Second - 1 |-> @[a] + 1]]
                ELSE sends
  /\ UNCHANGED <<window, baseVars, user, base, attempt, wait, performed, hint>>

End(k, label) == pc' = [pc EXCEPT ![k] = label]

Perform(k) == performed' = [performed EXCEPT ![k] = @ + 1]

(* Airtable carries out the request and its answer arrives. *)
Answered(k) ==
  /\ pc[k] = "sent"
  /\ Perform(k)
  /\ End(k, "ok")
  /\ UNCHANGED <<window, baseVars, user, base, attempt, wait, hint, sends>>

(* A request that failed is tried again while there are attempts left.     *)
FailedRetrying(k) ==
  /\ pc[k] = "sent"
  /\ Perform(k) \/ UNCHANGED performed
  /\ IF attempt[k] < MaxAttempts - 1
       THEN Sleep(k, "backoff", 0)
       ELSE End(k, "failed") /\ UNCHANGED wait
  /\ UNCHANGED <<window, baseVars, user, base, attempt, hint, sends>>

(* Any other status, no answer within defaultHTTPTimeout, or one that      *)
(* cannot be read: the request may have been carried out.                  *)
Failed(k) ==
  /\ pc[k] = "sent"
  /\ Perform(k) \/ UNCHANGED performed
  /\ End(k, "failed")
  /\ UNCHANGED <<window, baseVars, user, base, attempt, wait, hint, sends>>

(* computeRateLimitBackoff with jitter in both directions. *)
BackoffAround(n, a) == {Least(MaxBackoff, d) : d \in Less(n, 1)..n + 1}

(* A delay of n that grows by half at each attempt.                        *)
Scaled(n, a) == (n * 3 ^ a) \div 2 ^ a

(* Powers and quotients of naturals; the proofs leave Scaled unexpanded. *)
ASSUME ScaledAssumption ==
  \A n \in RetryAfters, a \in 0..MaxAttempts - 1 : Scaled(n, a) \in Nat

(* computeRateLimitBackoff: the delay asked for or, when that is longer,   *)
(* the scaled one, up to 0.3 of it more, and never more than MaxBackoff.   *)
Backoff(n, a) ==
  LET delay == IF Scaled(n, a) > n THEN Scaled(n, a) ELSE n
  IN  {Least(MaxBackoff, delay + jitter) : jitter \in 0..(3 * delay) \div 10}

(* One attempt too many. *)
RateLimitedOnceMore(k) ==
  /\ pc[k] = "sent"
  /\ \E n \in RetryAfters : \E d \in Backoff(n, attempt[k]) : Sleep(k, "backoff", d)
  /\ UNCHANGED <<window, baseVars, user, base, attempt, performed, hint, sends>>

(* 429: Airtable has not carried out the request. *)
RateLimited(k) ==
  /\ pc[k] = "sent"
  /\ IF attempt[k] < MaxAttempts - 1
       THEN \E n \in RetryAfters :
              /\ \E d \in Backoff(n, attempt[k]) : Sleep(k, "backoff", d)
              /\ hint' = [hint EXCEPT ![k] = Least(n, MaxBackoff)]
       ELSE End(k, "limited") /\ UNCHANGED <<wait, hint>>
  /\ UNCHANGED <<window, baseVars, user, base, attempt, performed, sends>>

(* The attempts are not counted. *)
RetryUncounted(k) ==
  /\ pc[k] = "backoff" /\ Awake(k)
  /\ Enter(k, user[k])
  /\ UNCHANGED <<baseVars, user, base, attempt, performed, hint, sends>>

Retry(k) ==
  /\ pc[k] = "backoff" /\ Awake(k)
  /\ Enter(k, user[k])
  /\ attempt' = [attempt EXCEPT ![k] = @ + 1]
  /\ UNCHANGED <<baseVars, user, base, performed, hint, sends>>

(* The context of a call that sleeps is done. *)
Cancelled(k) ==
  /\ pc[k] \in Asleep /\ ~Awake(k)
  /\ IF pc[k] = "base" THEN CancelAt(base[k], wait[k]) ELSE UNCHANGED <<debt, lastEvent>>
  /\ Sleep(k, "failed", 0)
  /\ UNCHANGED <<window, user, base, attempt, performed, hint, sends>>

Return(k) ==
  /\ pc[k] \in Ended
  /\ pc' = [pc EXCEPT ![k] = "idle"]
  /\ user' = [user EXCEPT ![k] = AnyUser]
  /\ base' = [base EXCEPT ![k] = NoBase]
  /\ attempt' = [attempt EXCEPT ![k] = 0]
  /\ performed' = [performed EXCEPT ![k] = 0]
  /\ hint' = [hint EXCEPT ![k] = 0]
  /\ UNCHANGED <<window, baseVars, wait, sends>>

(* Time passes; those who need not sleep any longer act first. *)
Tick ==
  /\ \A k \in Calls : pc[k] \in Asleep => ~Awake(k)
  /\ window' = [u \in Users |-> Less(window[u], 1)]
  /\ debt' = [b \in Bases |-> Less(debt[b], 1)]
  /\ lastEvent' = [b \in Bases |-> Less(lastEvent[b], 1)]
  /\ wait' = [k \in Calls |-> Less(wait[k], 1)]
  /\ hint' = [k \in Calls |-> Less(hint[k], 1)]
  /\ sends' = [b \in Bases |-> [a \in 0..Second - 1 |-> IF a = 0 THEN 0 ELSE sends[b][a - 1]]]
  /\ UNCHANGED <<pc, user, base, attempt, performed>>

Step(k) ==
  \/ PassNoBase(k) \/ ReserveBase(k) \/ Send(k)
  \/ Answered(k) \/ Failed(k) \/ RateLimited(k)
  \/ Retry(k) \/ Return(k)

Next ==
  \/ Tick
  \/ \E k \in Calls : Step(k) \/ Cancelled(k)
  \/ \E k \in Calls, u \in Users, b \in Bases \cup {NoBase} : Begin(k, u, b)

Spec == Init /\ [][Next]_vars

(* Timers fire and Airtable answers, or defaultHTTPTimeout passes. *)
FairSpec == Spec /\ WF_vars(Tick) /\ \A k \in Calls : WF_vars(Step(k))

-----------------------------------------------------------------------------
(* Properties *)

(* What a call reports is what has happened, and Airtable carries out no   *)
(* call twice, though it may send several requests (doJSON; execute in     *)
(* approval/service.go relies on it).                                      *)
CallsAreTrue ==
  \A k \in Calls :
    /\ performed[k] <= 1
    /\ pc[k] = "ok" => performed[k] = 1
    /\ pc[k] = "limited" => performed[k] = 0

(* Two calls of one user never leave the window together, whatever calls   *)
(* are cancelled or tried again meanwhile (waitForWindow).                 *)
UserSlotsApart ==
  \A j, k \in Calls :
    j # k /\ pc[j] = "user" /\ pc[k] = "user" /\ user[j] = user[k] =>
      wait[j] >= wait[k] + UserInterval \/ wait[k] >= wait[j] + UserInterval

(* In any time, a base is sent at most a burst and what the bucket gains,  *)
(* also when reservations in the middle of the queue are cancelled         *)
(* (waitForBaseRateLimit).                                                 *)
BaseRate ==
  \A b \in Bases : \A time \in 0..Second - 1 :
    sends[b][time] * BasePeriod <= Burst * BasePeriod + time

(* A call that was answered 429 is not sent again before the time Airtable *)
(* has asked for, up to the cap (computeRateLimitBackoff).                 *)
RetryAfterKept == \A k \in Calls : pc[k] = "sent" => hint[k] = 0

(* Every call ends, whatever the others do (the waits are bounded and the  *)
(* attempts counted).                                                      *)
CallsEnd == \A k \in Calls : (pc[k] # "idle") ~> (pc[k] = "idle")
=============================================================================
