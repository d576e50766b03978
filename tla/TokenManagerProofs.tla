------------------------- MODULE TokenManagerProofs -------------------------
(***************************************************************************)
(* Theorems about TokenManager, for any number of callers and rotations.   *)
(***************************************************************************)
EXTENDS TokenManager, TLAPS

-----------------------------------------------------------------------------
(* Type correctness *)

CallerType ==
  /\ pc \in [Callers -> PCs]
  /\ token \in [Callers -> Tokens]
  /\ answer \in [Callers -> Answers]
  /\ late \in [Callers -> BOOLEAN]

RowType == row \in [refresh : Tokens, fresh : BOOLEAN, reauth : BOOLEAN]
FlightType == flight \in [leader : Callers \cup {NoCaller}, answer : Answers]
AirtableType == good \in Tokens /\ revoked \in {"no", "user", "reuse"} /\ delayed \subseteq Tokens

LEMMA TypeParts == TypeOK <=> RowType /\ FlightType /\ CallerType /\ AirtableType /\ faulty \in BOOLEAN
BY DEF TypeOK, RowType, FlightType, CallerType, AirtableType

LEMMA TypePartsNext ==
  RowType' /\ FlightType' /\ CallerType' /\ AirtableType' /\ faulty' \in BOOLEAN => TypeOK'
BY DEF TypeOK, RowType, FlightType, CallerType, AirtableType

LEMMA ZeroIsToken == 0 \in Tokens
BY RotationsAssumption DEF Tokens

LEMMA InitType == Init => TypeOK
<1> SUFFICES ASSUME Init PROVE TypeOK
  OBVIOUS
<1>1. CallerType
  BY ZeroIsToken DEF Init, CallerType, PCs, Answers
<1>2. RowType /\ FlightType
  BY ZeroIsToken DEF Init, RowType, FlightType, NoFlight, Answers
<1>3. AirtableType /\ faulty \in BOOLEAN
  BY ZeroIsToken DEF Init, AirtableType
<1>. QED
  BY <1>1, <1>2, <1>3, TypeParts

LEMMA ReturnType ==
  ASSUME CallerType, NEW c \in Callers, Return(c)
  PROVE  CallerType'
BY ZeroIsToken DEF CallerType, Return, Goto, PCs, Answers

LEMMA FinishType ==
  ASSUME CallerType, NEW c \in Callers, NEW a \in Answers, Finish(c, a), token' \in [Callers -> Tokens]
  PROVE  CallerType'
BY DEF CallerType, Finish, Goto, PCs

LEMMA GotoType ==
  ASSUME CallerType, NEW c \in Callers, NEW l \in PCs, Goto(c, l),
         token' \in [Callers -> Tokens], UNCHANGED <<answer, late>>
  PROVE  CallerType'
BY DEF CallerType, Goto

(* A rotation stays within the tokens, and a refusal only revokes. *)
LEMMA RotateType ==
  ASSUME good \in Tokens, NEW t, Rotate(t)
  PROVE  good' \in Tokens /\ good' = good + 1 /\ t = good /\ revoked = "no" /\ revoked' = revoked
BY RotationsAssumption DEF Rotate, Accepted, Tokens

LEMMA RefuseType ==
  ASSUME revoked \in {"no", "user", "reuse"}, NEW t, Refuse(t)
  PROVE  /\ good' = good
         /\ revoked' \in {"user", "reuse"}
         /\ revoked' = revoked \/ (revoked = "no" /\ revoked' = "reuse" /\ t # good)
BY DEF Refuse

LEMMA StepType ==
  ASSUME TypeOK, NEW c \in Callers, Step(c)
  PROVE  TypeOK'
<1> USE TypeParts, TypePartsNext
<1>0. token[c] \in Tokens /\ row.refresh \in Tokens /\ answer[c] \in Answers
  BY DEF RowType, CallerType
<1>1. CASE Lookup(c)
  <2>1. CASE Return(c)
    BY <1>1, <2>1, ReturnType DEF Lookup, RowType, FlightType, AirtableType, airtableVars
  <2>2. CASE /\ Goto(c, "join")
             /\ token' = [token EXCEPT ![c] = row.refresh]
             /\ UNCHANGED <<answer, late>>
    <3>1. CallerType'
      BY <1>0, <2>2 DEF CallerType, Goto, PCs
    <3>. QED
      BY <1>1, <3>1 DEF Lookup, RowType, FlightType, AirtableType, airtableVars
  <2>. QED
    BY <1>1, <2>1, <2>2 DEF Lookup
<1>2. CASE Join(c)
  <2>1. CallerType'
    BY <1>2, ReturnType DEF Join, Goto, CallerType, PCs
  <2>2. FlightType'
    BY <1>2 DEF Join, FlightType, Answers
  <2>. QED
    BY <1>2, <2>1, <2>2 DEF Join, RowType, AirtableType, airtableVars
<1>3. CASE Publish(c)
  <2>1. CallerType'
    BY <1>3, ZeroIsToken DEF Publish, CallerType, PCs
  <2>2. FlightType'
    BY <1>0, <1>3 DEF Publish, FlightType
  <2>. QED
    BY <1>3, <2>1, <2>2 DEF Publish, RowType, AirtableType, airtableVars
<1>4. CASE Release(c)
  <2>1. FlightType'
    BY <1>4 DEF Release, FlightType, NoFlight, Answers
  <2>. QED
    BY <1>4, <2>1, ReturnType DEF Release, RowType, AirtableType, airtableVars
<1>5. CASE Load(c)
  <2>1. CallerType'
    BY <1>0, <1>5, FinishType DEF Load, Goto, CallerType, PCs, Answers, Critical
  <2>. QED
    BY <1>5, <2>1 DEF Load, RowType, FlightType, AirtableType, airtableVars
<1>6. CASE Refreshed(c)
  <2>1. good' \in Tokens /\ revoked' = revoked
    BY <1>6, RotateType DEF Refreshed, AirtableType
  <2>2. CallerType'
    BY <1>6, <2>1 DEF Refreshed, Goto, CallerType, PCs, Critical
  <2>. QED
    BY <1>6, <2>1, <2>2 DEF Refreshed, RowType, FlightType, AirtableType
<1>7. CASE Refused(c)
  <2>1. good' = good /\ revoked' \in {"user", "reuse"}
    BY <1>7, RefuseType DEF Refused, AirtableType
  <2>2. CallerType'
    BY <1>7 DEF Refused, Goto, CallerType, PCs, Critical
  <2>. QED
    BY <1>7, <2>1, <2>2 DEF Refused, RowType, FlightType, AirtableType
<1>8. CASE RefreshFails(c)
  <2>1. CallerType'
    BY <1>8, FinishType DEF RefreshFails, CallerType, Answers
  <2>2. AirtableType' /\ faulty' \in BOOLEAN
    <3>1. CASE UNCHANGED <<airtableVars, faulty>>
      BY <3>1 DEF AirtableType, airtableVars
    <3>2. CASE /\ Rotate(token[c]) \/ Refuse(token[c])
               /\ faulty' = TRUE
               /\ UNCHANGED delayed
      BY <3>2, RotateType, RefuseType DEF AirtableType
    <3>3. CASE /\ delayed' = delayed \cup {token[c]}
               /\ faulty' = TRUE
               /\ UNCHANGED <<good, revoked>>
      BY <1>0, <3>3 DEF AirtableType
    <3>. QED
      BY <1>8, <3>1, <3>2, <3>3 DEF RefreshFails
  <2>. QED
    BY <1>8, <2>1, <2>2 DEF RefreshFails, RowType, FlightType
<1>9. CASE Mark(c)
  <2>1. CallerType'
    BY <1>9, FinishType DEF Mark, CallerType, Answers
  <2>2. RowType'
    BY <1>9 DEF Mark, RowType
  <2>. QED
    BY <1>9, <2>1, <2>2 DEF Mark, FlightType, AirtableType, airtableVars
<1>10. CASE Put(c)
  <2>1. CallerType'
    BY <1>10, FinishType DEF Put, CallerType, Answers
  <2>2. RowType'
    BY <1>0, <1>10 DEF Put, RowType
  <2>. QED
    BY <1>10, <2>1, <2>2 DEF Put, FlightType, AirtableType, airtableVars
<1>11. CASE StatementFails(c)
  <2>1. CallerType'
    BY <1>11, FinishType, ReturnType DEF StatementFails, CallerType, Answers
  <2>. QED
    BY <1>11, <2>1 DEF StatementFails, RowType, FlightType, AirtableType, airtableVars
<1>. QED
  BY <1>1, <1>2, <1>3, <1>4, <1>5, <1>6, <1>7, <1>8, <1>9, <1>10, <1>11 DEF Step

LEMMA NextType == TypeOK /\ [Next]_vars => TypeOK'
<1> SUFFICES ASSUME TypeOK, [Next]_vars PROVE TypeOK'
  OBVIOUS
<1> USE TypeParts, TypePartsNext
<1>1. ASSUME NEW c \in Callers, Start(c) PROVE TypeOK'
  <2>1. CallerType'
    BY <1>1 DEF Start, Goto, CallerType, PCs
  <2>. QED
    BY <1>1, <2>1 DEF Start, RowType, FlightType, AirtableType, airtableVars
<1>2. ASSUME NEW c \in Callers, Step(c) PROVE TypeOK'
  BY <1>2, StepType
<1>3. ASSUME NEW c \in Callers, CancelWait(c) PROVE TypeOK'
  BY <1>3, ReturnType DEF CancelWait, RowType, FlightType, AirtableType, airtableVars
<1>4. ASSUME NEW c \in Callers, Deadline(c) PROVE TypeOK'
  BY <1>4 DEF Deadline, CallerType, RowType, FlightType, AirtableType, airtableVars
<1>5. CASE Age
  BY <1>5 DEF Age, CallerType, RowType, FlightType, AirtableType, airtableVars, callerVars
<1>6. CASE Revoke
  BY <1>6 DEF Revoke, CallerType, RowType, FlightType, AirtableType, callerVars
<1>7. CASE Crash
  <2>1. CallerType'
    BY <1>7, ZeroIsToken DEF Crash, CallerType, PCs, Answers
  <2>2. FlightType'
    BY <1>7 DEF Crash, FlightType, NoFlight, Answers
  <2>3. delayed' \subseteq Tokens
    BY <1>7 DEF Crash, CallerType, AirtableType
  <2>. QED
    BY <1>7, <2>1, <2>2, <2>3 DEF Crash, RowType, AirtableType
<1>8. ASSUME NEW t \in Tokens, Deliver(t) PROVE TypeOK'
  <2>1. good' \in Tokens /\ revoked' \in {"no", "user", "reuse"}
    BY <1>8, RotateType, RefuseType DEF Deliver, AirtableType
  <2>. QED
    BY <1>8, <2>1 DEF Deliver, CallerType, RowType, FlightType, AirtableType, callerVars
<1>9. CASE UNCHANGED vars
  BY <1>9 DEF vars, CallerType, RowType, FlightType, AirtableType, callerVars, airtableVars
<1>. QED
  BY <1>1, <1>2, <1>3, <1>4, <1>5, <1>6, <1>7, <1>8, <1>9 DEF Next

(* Every variable of the token manager keeps its type, for any callers. *)
THEOREM TypeCorrect == Spec => []TypeOK
BY InitType, NextType, PTL DEF Spec

-----------------------------------------------------------------------------
(* One flight at a time *)

(* At most one caller leads. *)
LEMMA OneLeader ==
  ASSUME FlightInv, NEW c \in Callers, NEW d \in Callers, pc[c] \in Leading, pc[d] \in Leading
  PROVE  c = d
BY DEF FlightInv

LEMMA StepFlight ==
  ASSUME TypeOK, FlightInv, NEW c \in Callers, Step(c)
  PROVE  FlightInv'
<1> USE DEF Leading, Critical
<1>0. /\ pc \in [Callers -> PCs]
      /\ flight \in [leader : Callers \cup {NoCaller}, answer : Answers]
      /\ NoCaller \notin Callers
  BY CallersAssumption DEF TypeOK
<1>1. CASE /\ pc[c] \in Leading
           /\ \A d \in Callers : d # c => pc'[d] = pc[d] \/ pc'[d] = "idle"
           /\ flight'.leader = flight.leader
  <2>1. flight.leader = c
    BY <1>1 DEF FlightInv
  <2>2. \A d \in Callers : d # c => pc[d] \notin Leading
    BY <1>1, OneLeader
  <2>. QED
    BY <1>0, <1>1, <2>1, <2>2 DEF FlightInv
<1>2. CASE /\ pc[c] \in {"lookup", "join"} /\ UNCHANGED flight
           /\ pc'[c] \in {"idle", "join", "wait"}
           /\ \A d \in Callers : d # c => pc'[d] = pc[d]
  BY <1>2 DEF FlightInv
<1>3. CASE Lookup(c) \/ (pc[c] = "lookup" /\ StatementFails(c))
  BY <1>0, <1>2, <1>3 DEF Lookup, StatementFails, Return, Goto
<1>4. CASE Join(c)
  <2>1. CASE flight = NoFlight /\ flight' = [leader |-> c, answer |-> "none"] /\ Goto(c, "load")
    <3>1. \A d \in Callers : pc[d] \notin Leading
      BY <1>0, <2>1 DEF FlightInv, NoFlight
    <3>2. \A d \in Callers : d # c => pc'[d] = pc[d]
      BY <1>0, <2>1 DEF Goto
    <3>. QED
      BY <1>0, <2>1, <3>1, <3>2 DEF FlightInv
  <2>2. CASE UNCHANGED flight /\ (Goto(c, "wait") \/ Return(c))
    BY <1>0, <1>2, <1>4, <2>2 DEF Join, Goto, Return
  <2>. QED
    BY <1>4, <2>1, <2>2 DEF Join
<1>5. CASE Publish(c)
  BY <1>0, <1>1, <1>5 DEF Publish
<1>6. CASE Release(c)
  <2>1. \A d \in Callers : d # c => pc[d] \notin Leading
    BY <1>6, OneLeader DEF Release
  <2>. QED
    BY <1>0, <1>6, <2>1 DEF Release, Return, Goto, FlightInv, NoFlight
<1>7. CASE Load(c) \/ Refreshed(c) \/ Refused(c) \/ RefreshFails(c) \/ Mark(c) \/ Put(c)
             \/ (pc[c] # "lookup" /\ StatementFails(c))
  <2>1. UNCHANGED flight /\ pc[c] \in Leading
    BY <1>7 DEF Load, Refreshed, Refused, RefreshFails, Mark, Put, StatementFails
  <2>2. \E l : Goto(c, l)
    BY <1>7 DEF Load, Refreshed, Refused, RefreshFails, Mark, Put, StatementFails, Finish
  <2>3. \A d \in Callers : d # c => pc'[d] = pc[d]
    BY <1>0, <2>2 DEF Goto
  <2>. QED
    BY <1>1, <2>1, <2>3
<1>. QED
  BY <1>3, <1>4, <1>5, <1>6, <1>7 DEF Step

LEMMA NextFlight == TypeOK /\ FlightInv /\ [Next]_vars => FlightInv'
<1> SUFFICES ASSUME TypeOK, FlightInv, [Next]_vars PROVE FlightInv'
  OBVIOUS
<1> USE DEF Leading, Critical
<1>0. pc \in [Callers -> PCs]
  BY DEF TypeOK
<1>1. ASSUME NEW c \in Callers, Step(c) PROVE FlightInv'
  BY <1>1, StepFlight
<1>2. ASSUME NEW c \in Callers, Start(c) \/ CancelWait(c) PROVE FlightInv'
  BY <1>0, <1>2 DEF Start, CancelWait, Return, Goto, FlightInv
<1>3. CASE Crash
  BY <1>3 DEF Crash, FlightInv, NoFlight
<1>4. CASE UNCHANGED <<pc, flight>>
  BY <1>4 DEF FlightInv
<1>5. ASSUME NEW c \in Callers, Deadline(c) PROVE FlightInv'
  BY <1>4, <1>5 DEF Deadline
<1>6. Age \/ Revoke \/ (\E t \in Tokens : Deliver(t)) \/ UNCHANGED vars => UNCHANGED <<pc, flight>>
  BY DEF Age, Revoke, Deliver, vars, callerVars
<1>. QED
  BY <1>1, <1>2, <1>3, <1>4, <1>5, <1>6 DEF Next

-----------------------------------------------------------------------------
(* What is stored, presented and promised *)

(* TokenInv without FlightInv. *)
TokensInv == SectionInv /\ CustodyInv /\ RotatedTokenStored /\ NeverReused /\ ReauthIsTrue

(* The steps of a caller that touch neither the row nor Airtable, and send *)
(* nobody into the critical section.                                       *)
LEMMA QuietStep ==
  ASSUME TypeOK, TokensInv, UNCHANGED <<row, airtableVars>>, faulty => faulty',
         \A d \in Callers : /\ pc'[d] \in Critical => pc'[d] = pc[d] /\ token'[d] = token[d]
                            /\ pc[d] = "put" => pc'[d] = "put" \/ faulty'
  PROVE  TokensInv'
<1> USE DEF Critical, airtableVars
<1>1. SectionInv'
  BY DEF TokensInv, SectionInv
<1>2. CustodyInv'
  BY DEF TokensInv, CustodyInv
<1>3. RotatedTokenStored'
  BY DEF TokensInv, RotatedTokenStored
<1>. QED
  BY <1>1, <1>2, <1>3 DEF TokensInv, NeverReused, ReauthIsTrue

(* What Airtable does with a request of the past, which only exists when a *)
(* refresh has been cut short, and is too old to rotate what is about to   *)
(* be stored.                                                              *)
LEMMA LateRequest ==
  ASSUME TypeOK, TokensInv, NEW t \in Tokens, t <= row.refresh, faulty', UNCHANGED row,
         \A u \in delayed' : u <= row.refresh,
         Rotate(t) \/ Refuse(t) \/ UNCHANGED <<good, revoked>>,
         \A d \in Callers : pc'[d] \in Critical => pc'[d] = pc[d] /\ token'[d] = token[d]
  PROVE  TokensInv'
<1> USE DEF Critical
<1>1. good \in Nat /\ row.refresh \in Nat /\ good \in Tokens
      /\ \A d \in Callers : token[d] \in Nat
  BY DEF TypeOK, Tokens
<1>2. good <= good' /\ good' \in Nat /\ (revoked # "no" => revoked' # "no" /\ good' = good)
  BY <1>1, RotateType, RefuseType DEF TypeOK
<1>3. \A d \in Callers : pc[d] = "put" => good' = good
  BY <1>1, RotateType, RefuseType DEF TokensInv, SectionInv, CustodyInv, TypeOK
<1>4. SectionInv'
  BY <1>1, <1>2, <1>3 DEF TokensInv, SectionInv
<1>5. CustodyInv'
  BY <1>2 DEF TokensInv, CustodyInv
<1>6. ReauthIsTrue'
  BY <1>5 DEF CustodyInv, ReauthIsTrue
<1>. QED
  BY <1>4, <1>5, <1>6 DEF TokensInv, RotatedTokenStored, NeverReused

(* A leader that holds the stored token is the only one that holds one, so *)
(* that token is good unless a refresh has been cut short.                 *)
LEMMA LeaderHoldsGoodToken ==
  ASSUME FlightInv, TokensInv, NEW c \in Callers, pc[c] = "refresh", ~faulty
  PROVE  token[c] = good
<1>1. \A d \in Callers : pc[d] # "put"
  BY OneLeader DEF Leading, Critical
<1>. QED
  BY <1>1 DEF TokensInv, SectionInv, RotatedTokenStored

LEMMA DelayedType == TypeOK => \A t \in delayed : t \in Nat
BY DEF TypeOK, Tokens

LEMMA StepSection ==
  ASSUME TypeOK, FlightInv, TokensInv, NEW c \in Callers, Step(c)
  PROVE  TokensInv'
<1> USE DEF Critical
<1>0. /\ pc \in [Callers -> PCs] /\ token \in [Callers -> Tokens]
      /\ good \in Nat /\ row.refresh \in Nat /\ \A d \in Callers : token[d] \in Nat
      /\ good \in Tokens /\ token[c] \in Tokens
      /\ revoked \in {"no", "user", "reuse"}
  BY DEF TypeOK, Tokens
<1>1. CASE Lookup(c) \/ Join(c) \/ Publish(c) \/ Release(c) \/ StatementFails(c)
  <2>0. faulty' = faulty \/ faulty' = (faulty \/ pc[c] = "put")
    BY <1>1 DEF Lookup, Join, Publish, Release, StatementFails
  <2>. UNCHANGED <<row, airtableVars>>
    BY <1>1 DEF Lookup, Join, Publish, Release, StatementFails
  <2>1. faulty => faulty'
    BY Zenon, <2>0
  <2>2. \A d \in Callers : pc'[d] \in Critical => pc'[d] = pc[d] /\ token'[d] = token[d]
    BY <1>0, <1>1 DEF Lookup, Join, Publish, Release, StatementFails, Return, Finish, Goto
  <2>3. \A d \in Callers : pc[d] = "put" => pc'[d] = "put" \/ faulty'
    BY <1>0, <1>1 DEF Lookup, Join, Publish, Release, StatementFails, Return, Finish, Goto
  <2>. QED
    BY <2>1, <2>2, <2>3, QuietStep
<1>2. CASE Load(c)
  <2>1. UNCHANGED <<row, airtableVars, faulty>> /\ pc[c] = "load"
    BY <1>2 DEF Load
  <2>2. \A d \in Callers : d # c => pc'[d] = pc[d] /\ token'[d] = token[d]
    BY <1>0, <1>2 DEF Load, Finish, Goto
  <2>3. pc'[c] = "publish" \/ (pc'[c] = "refresh" /\ token'[c] = row.refresh /\ ~row.reauth)
    BY <1>0, <1>2 DEF Load, Finish, Goto
  <2>4. SectionInv'
    BY <2>1, <2>2, <2>3 DEF TokensInv, SectionInv, airtableVars
  <2>5. RotatedTokenStored'
    BY <2>1, <2>2 DEF TokensInv, RotatedTokenStored, airtableVars
  <2>6. CustodyInv'
    BY <2>1, <2>2, <2>3 DEF TokensInv, CustodyInv, airtableVars
  <2>. QED
    BY <2>1, <2>4, <2>5, <2>6 DEF TokensInv, NeverReused, ReauthIsTrue, airtableVars
<1>3. CASE Refreshed(c)
  <2>1. /\ good' = good + 1 /\ token[c] = good /\ revoked = "no" /\ revoked' = "no"
        /\ UNCHANGED <<row, delayed, faulty>> /\ pc[c] = "refresh"
    BY <1>0, <1>3, RotateType DEF Refreshed
  <2>2. pc'[c] = "put" /\ token'[c] = good'
    BY <1>0, <1>3 DEF Refreshed, Goto
  <2>3. \A d \in Callers : d # c => pc'[d] = pc[d] /\ token'[d] = token[d]
    BY <1>0, <1>3 DEF Refreshed, Goto
  <2>4. \A d \in Callers : d # c => pc[d] \notin Critical
    BY <2>1, OneLeader DEF Leading
  <2>5. SectionInv'
    BY <1>0, <2>1, <2>2, <2>3, <2>4 DEF TokensInv, SectionInv
  <2>6. RotatedTokenStored'
    BY <2>2 DEF RotatedTokenStored
  <2>7. CustodyInv'
    BY <1>0, <2>1, <2>2, <2>3 DEF TokensInv, SectionInv, CustodyInv
  <2>. QED
    BY <2>1, <2>5, <2>6, <2>7 DEF TokensInv, NeverReused, CustodyInv, ReauthIsTrue
<1>4. CASE Refused(c)
  <2>1. /\ good' = good /\ revoked' \in {"user", "reuse"}
        /\ revoked' = revoked \/ (revoked = "no" /\ token[c] # good)
        /\ UNCHANGED <<row, token, delayed, faulty>> /\ pc[c] = "refresh"
    BY <1>0, <1>4, RefuseType DEF Refused
  <2>2. pc'[c] = "mark" /\ \A d \in Callers : d # c => pc'[d] = pc[d]
    BY <1>0, <1>4 DEF Refused, Goto
  <2>3. SectionInv'
    BY <2>1, <2>2 DEF TokensInv, SectionInv
  <2>4. RotatedTokenStored'
    BY <2>1, <2>2 DEF TokensInv, RotatedTokenStored
  <2>5. NeverReused'
    BY <2>1, LeaderHoldsGoodToken DEF TokensInv, NeverReused
  <2>6. CustodyInv'
    BY <2>1, <2>2 DEF TokensInv, CustodyInv
  <2>. QED
    BY <2>1, <2>3, <2>4, <2>5, <2>6 DEF TokensInv, ReauthIsTrue
<1>5. CASE RefreshFails(c)
  <2>1. UNCHANGED <<row, token>> /\ pc[c] = "refresh"
    BY <1>5 DEF RefreshFails
  <2>2. pc'[c] = "publish" /\ \A d \in Callers : d # c => pc'[d] = pc[d]
    BY <1>0, <1>5 DEF RefreshFails, Finish, Goto
  <2>3. CASE UNCHANGED <<airtableVars, faulty>>
    BY <2>1, <2>2, <2>3, QuietStep
  <2>4. CASE /\ faulty' /\ (Rotate(token[c]) \/ Refuse(token[c]) \/ UNCHANGED <<good, revoked>>)
             /\ delayed' \subseteq delayed \cup {token[c]}
    <3>1. token[c] <= row.refresh /\ \A u \in delayed' : u <= row.refresh
      BY <1>0, <2>1, <2>4 DEF TokensInv, SectionInv, CustodyInv
    <3>. QED
      BY <1>0, <2>1, <2>2, <2>4, <3>1, LateRequest
  <2>. QED
    BY <1>5, <2>3, <2>4 DEF RefreshFails
<1>6. CASE Mark(c)
  <2>1. /\ row'.reauth = TRUE /\ row'.refresh = row.refresh
        /\ UNCHANGED <<token, good, revoked, delayed, faulty>> /\ pc[c] = "mark"
    BY <1>6 DEF Mark, airtableVars, TypeOK
  <2>2. pc'[c] = "publish" /\ \A d \in Callers : d # c => pc'[d] = pc[d]
    BY <1>0, <1>6 DEF Mark, Finish, Goto
  <2>3. SectionInv'
    BY <2>1, <2>2 DEF TokensInv, SectionInv
  <2>4. RotatedTokenStored'
    BY <2>1, <2>2 DEF TokensInv, RotatedTokenStored
  <2>5. \A d \in Callers : d # c => pc[d] \notin Critical
    BY <2>1, OneLeader DEF Leading
  <2>6. CustodyInv'
    BY <2>1, <2>2, <2>5 DEF TokensInv, SectionInv, CustodyInv
  <2>. QED
    BY <2>1, <2>3, <2>4, <2>6 DEF TokensInv, NeverReused, CustodyInv, ReauthIsTrue
<1>7. CASE Put(c)
  <2>1. /\ row' = [refresh |-> token[c], fresh |-> TRUE, reauth |-> FALSE]
        /\ UNCHANGED <<token, good, revoked, delayed, faulty>> /\ pc[c] = "put"
    BY <1>7 DEF Put, airtableVars
  <2>2. pc'[c] = "publish" /\ \A d \in Callers : d # c => pc'[d] = pc[d]
    BY <1>0, <1>7 DEF Put, Finish, Goto
  <2>3. \A d \in Callers : d # c => pc[d] \notin Critical
    BY <2>1, OneLeader DEF Leading
  <2>4. SectionInv'
    BY <1>0, <2>1, <2>2, <2>3 DEF TokensInv, SectionInv
  <2>5. RotatedTokenStored'
    BY <2>1 DEF TokensInv, SectionInv, RotatedTokenStored
  <2>6. CustodyInv'
    BY <1>0, <2>1, <2>2, <2>3, DelayedType DEF TokensInv, CustodyInv
  <2>. QED
    BY <2>1, <2>4, <2>5, <2>6 DEF TokensInv, NeverReused, ReauthIsTrue
<1>. QED
  BY <1>1, <1>2, <1>3, <1>4, <1>5, <1>6, <1>7 DEF Step

LEMMA NextSection == TypeOK /\ FlightInv /\ TokensInv /\ [Next]_vars => TokensInv'
<1> SUFFICES ASSUME TypeOK, FlightInv, TokensInv, [Next]_vars PROVE TokensInv'
  OBVIOUS
<1> USE DEF Critical
<1>0. pc \in [Callers -> PCs] /\ token \in [Callers -> Tokens] /\ row.refresh \in Nat
  BY DEF TypeOK, Tokens
<1>1. ASSUME NEW c \in Callers, Step(c) PROVE TokensInv'
  BY <1>1, StepSection
<1>2. ASSUME NEW c \in Callers, Start(c) \/ CancelWait(c) \/ Deadline(c) PROVE TokensInv'
  <2>1. UNCHANGED <<row, airtableVars, faulty>>
    BY <1>2 DEF Start, CancelWait, Deadline
  <2>2. \A d \in Callers : /\ pc'[d] \in Critical => pc'[d] = pc[d] /\ token'[d] = token[d]
                           /\ pc[d] = "put" => pc'[d] = "put"
    BY <1>0, <1>2 DEF Start, CancelWait, Deadline, Return, Goto
  <2>. QED
    BY <2>1, <2>2, QuietStep
<1>3. CASE Age \/ Revoke
  <2>1. /\ row'.refresh = row.refresh /\ row'.reauth = row.reauth
        /\ UNCHANGED <<pc, token, good, delayed, faulty>>
        /\ revoked' = revoked \/ (revoked = "no" /\ revoked' = "user")
    BY <1>3 DEF Age, Revoke, callerVars, airtableVars, TypeOK
  <2>2. SectionInv'
    BY <2>1 DEF TokensInv, SectionInv
  <2>3. RotatedTokenStored'
    BY <2>1 DEF TokensInv, RotatedTokenStored
  <2>4. CustodyInv'
    BY <2>1 DEF TokensInv, CustodyInv
  <2>. QED
    BY <2>1, <2>2, <2>3, <2>4 DEF TokensInv, NeverReused, ReauthIsTrue
<1>4. CASE Crash
  <2>1. /\ UNCHANGED <<row, good, revoked>> /\ \A d \in Callers : pc'[d] = "idle"
        /\ faulty' = (faulty \/ \E d \in Callers : pc[d] \in {"refresh", "put"})
    BY <1>4 DEF Crash
  <2>2. delayed' # {} => delayed # {} \/ \E d \in Callers : pc[d] = "refresh"
    BY <1>4 DEF Crash
  <2>3. SectionInv'
    BY <2>1, <2>2 DEF TokensInv, SectionInv
  <2>4. RotatedTokenStored'
    BY <2>1 DEF TokensInv, RotatedTokenStored
  <2>5. \A t \in delayed' : t \in delayed \/ \E d \in Callers : pc[d] = "refresh" /\ t = token[d]
    BY <1>4 DEF Crash
  <2>6. CustodyInv'
    BY <1>0, <2>1, <2>5 DEF TokensInv, SectionInv, CustodyInv
  <2>. QED
    BY <2>1, <2>3, <2>4, <2>6 DEF TokensInv, NeverReused, ReauthIsTrue
<1>5. ASSUME NEW t \in Tokens, Deliver(t) PROVE TokensInv'
  <2>1. /\ faulty' /\ UNCHANGED <<row, callerVars>> /\ t <= row.refresh
        /\ \A u \in delayed' : u <= row.refresh
    BY <1>5 DEF Deliver, TokensInv, SectionInv, CustodyInv
  <2>. QED
    BY <1>5, <2>1, LateRequest DEF Deliver, callerVars
<1>6. CASE UNCHANGED vars
  BY <1>6, QuietStep DEF vars, callerVars
<1>. QED
  BY <1>1, <1>2, <1>3, <1>4, <1>5, <1>6 DEF Next

LEMMA InitInv == Init => TokenInv
BY DEF Init, TokenInv, FlightInv, SectionInv, CustodyInv, RotatedTokenStored, NeverReused, ReauthIsTrue,
       Leading, Critical, NoFlight

(* TokenInv holds in every reachable state. *)
THEOREM InvCorrect == Spec => []TokenInv
<1>1. TypeOK /\ TokenInv /\ [Next]_vars => TokenInv'
  BY NextFlight, NextSection DEF TokenInv, TokensInv
<1>. QED
  BY InitInv, TypeCorrect, <1>1, PTL DEF Spec

(* A rotated token is stored, or about to be, whatever clients do.         *)
THEOREM RotatedStored == Spec => []RotatedTokenStored
<1>1. TokenInv => RotatedTokenStored
  BY DEF TokenInv
<1>. QED
  BY InvCorrect, <1>1, PTL

(* The manager does not present a refresh token twice.                     *)
THEOREM NoReuse == Spec => []NeverReused
<1>1. TokenInv => NeverReused
  BY DEF TokenInv
<1>. QED
  BY InvCorrect, <1>1, PTL

(* Only users whose token is dead are asked to connect again.              *)
THEOREM TrueReauth == Spec => []ReauthIsTrue
<1>1. TokenInv => ReauthIsTrue
  BY DEF TokenInv
<1>. QED
  BY InvCorrect, <1>1, PTL

-----------------------------------------------------------------------------
(* TokenManager implements TokenCustody *)

Taken == \E c \in Callers : pc[c] = "put"

(* A refresh that has a token to store has the good one, which is not the  *)
(* stored one.                                                             *)
LEMMA Kept ==
  ASSUME TypeOK, TokenInv
  PROVE  /\ row.refresh = good => WhereKept = "stored" /\ ~Taken
         /\ Taken => WhereKept = "held"
         /\ row.refresh # good /\ ~Taken => WhereKept = "lost"
<1>1. good \in Nat /\ row.refresh \in Nat
  BY DEF TypeOK, Tokens
<1>. QED
  BY <1>1 DEF TokenInv, SectionInv, CustodyInv, WhereKept, Taken

LEMMA KeptNext ==
  ASSUME TypeOK', TokenInv'
  PROVE  /\ (row.refresh = good)' => WhereKept' = "stored" /\ ~Taken'
         /\ Taken' => WhereKept' = "held"
         /\ (row.refresh # good)' /\ ~Taken' => WhereKept' = "lost"
<1>1. good' \in Nat /\ row'.refresh \in Nat
  BY DEF TypeOK, Tokens
<1>. QED
  BY <1>1 DEF TokenInv, SectionInv, CustodyInv, WhereKept, Taken

(* Nothing has happened to the token. *)
LEMMA KeptSame ==
  ASSUME TypeOK, TokenInv, TypeOK', TokenInv', row'.refresh = row.refresh, good' = good,
         Taken' <=> Taken
  PROVE  WhereKept' = WhereKept
BY Kept, KeptNext

(* A caller has done something that is nobody else's business. *)
LEMMA QuietImplements ==
  ASSUME TypeOK, TokenInv, TypeOK', TokenInv', row'.refresh = row.refresh,
         row'.reauth = row.reauth, UNCHANGED <<good, revoked, faulty>>, Taken' <=> Taken
  PROVE  UNCHANGED Custody!custodyVars
BY KeptSame DEF Custody!custodyVars

(* Airtable refuses a token: the chain is dead already, or dies because a  *)
(* refresh was cut short some time ago.                                    *)
LEMMA RefuseImplements ==
  ASSUME TypeOK, TokenInv, TypeOK', TokenInv', NEW t, Refuse(t), t # good => faulty,
         UNCHANGED row, faulty' \/ faulty' = faulty, Taken' <=> Taken
  PROVE  [Custody!CustodyNext]_Custody!custodyVars
<1>1. /\ good' = good
      /\ revoked' = revoked \/ (revoked = "no" /\ revoked' = "reuse" /\ t # good)
  BY RefuseType DEF TypeOK
<1>2. WhereKept' = WhereKept
  BY <1>1, KeptSame
<1>3. faulty \in BOOLEAN /\ faulty' \in BOOLEAN
  BY DEF TypeOK
<1>4. CASE revoked' = revoked
  <2>1. faulty' = TRUE \/ faulty' = faulty
    BY <1>3
  <2>. QED
    BY <1>2, <1>4, <2>1 DEF Custody!CustodyNext, Custody!CutShort, Custody!custodyVars
<1>5. CASE revoked = "no" /\ revoked' = "reuse" /\ t # good
  <2>1. faulty' = faulty /\ faulty
    BY <1>3, <1>5
  <2>. QED
    BY <1>2, <1>5, <2>1 DEF Custody!CustodyNext, Custody!PresentAgain
<1>. QED
  BY <1>1, <1>4, <1>5

(* Airtable rotates the stored token and nobody hears of it. *)
LEMMA RotateImplements ==
  ASSUME TypeOK, TokenInv, TypeOK', TokenInv', NEW t, Rotate(t), t = row.refresh,
         UNCHANGED row, faulty', Taken' <=> Taken
  PROVE  Custody!Lose
<1>1. good' = good + 1 /\ row.refresh = good /\ UNCHANGED revoked /\ revoked = "no"
  BY DEF Rotate, Accepted
<1>2. good \in Nat /\ faulty' = TRUE
  BY DEF TypeOK, Tokens
<1>3. WhereKept = "stored" /\ WhereKept' = "lost"
  BY <1>1, <1>2, Kept, KeptNext
<1>. QED
  BY <1>1, <1>2, <1>3 DEF Custody!Lose

(* Only the steps into put and out of it change whether a token is held.   *)
LEMMA TakenSame ==
  ASSUME NEW c \in Callers, pc[c] # "put", pc'[c] # "put",
         \A d \in Callers : d # c => pc'[d] = pc[d] \/ (pc[d] # "put" /\ pc'[d] # "put")
  PROVE  Taken' <=> Taken
BY DEF Taken

LEMMA StepImplements ==
  ASSUME TypeOK, TokenInv, TypeOK', TokenInv', NEW c \in Callers, Step(c)
  PROVE  [Custody!CustodyNext]_Custody!custodyVars
<1>0. /\ pc \in [Callers -> PCs] /\ token \in [Callers -> Tokens]
      /\ good \in Nat /\ row.refresh \in Nat /\ faulty \in BOOLEAN
      /\ FlightInv /\ TokensInv
  BY DEF TypeOK, Tokens, TokenInv, TokensInv
<1>1. CASE Lookup(c) \/ Join(c) \/ Publish(c) \/ Release(c) \/ Load(c)
             \/ (StatementFails(c) /\ pc[c] # "put")
  <2>0. faulty' = faulty \/ faulty' = (faulty \/ pc[c] = "put")
    BY <1>1 DEF Lookup, Join, Publish, Release, Load, StatementFails
  <2>1. pc[c] # "put" /\ UNCHANGED <<row, good, revoked>>
    BY <1>1 DEF Lookup, Join, Publish, Release, Load, StatementFails, airtableVars
  <2>2. faulty' = faulty
    BY <1>0, <2>0, <2>1
  <2>3. pc'[c] # "put"
    BY <1>0, <1>1 DEF Lookup, Join, Publish, Release, Load, StatementFails, Return, Finish, Goto
  <2>4. \A d \in Callers : d # c => pc'[d] = pc[d] \/ (pc[d] # "put" /\ pc'[d] # "put")
    BY <1>0, <1>1 DEF Lookup, Join, Publish, Release, Load, StatementFails, Return, Finish, Goto
  <2>. QED
    BY <2>1, <2>2, <2>3, <2>4, TakenSame, QuietImplements
<1>2. CASE Refreshed(c)
  <2>1. /\ token[c] = good /\ revoked = "no" /\ good' = good + 1
        /\ UNCHANGED <<row, revoked, faulty>> /\ pc[c] = "refresh"
    BY <1>2 DEF Refreshed, Rotate, Accepted
  <2>2. Taken'
    BY <1>0, <1>2 DEF Refreshed, Goto, Taken
  <2>3. WhereKept = "stored" /\ WhereKept' = "held"
    BY <2>1, <2>2, Kept, KeptNext DEF TokenInv, SectionInv
  <2>. QED
    BY <2>1, <2>3 DEF Custody!CustodyNext, Custody!Take
<1>3. CASE Refused(c)
  <2>1. pc[c] = "refresh" /\ Refuse(token[c]) /\ UNCHANGED <<row, faulty>>
    BY <1>3 DEF Refused
  <2>2. Taken' <=> Taken
    BY <1>0, <1>3, TakenSame DEF Refused, Goto
  <2>. QED
    BY <1>0, <2>1, <2>2, LeaderHoldsGoodToken, RefuseImplements
<1>4. CASE RefreshFails(c)
  <2>1. pc[c] = "refresh" /\ token[c] = row.refresh /\ UNCHANGED row
    BY <1>4 DEF RefreshFails, TokenInv, SectionInv
  <2>2. Taken' <=> Taken
    BY <1>0, <1>4, TakenSame DEF RefreshFails, Finish, Goto
  <2>3. CASE UNCHANGED <<airtableVars, faulty>>
    BY <2>1, <2>2, <2>3, QuietImplements DEF airtableVars
  <2>4. CASE Rotate(token[c]) /\ faulty' = TRUE
    BY <2>1, <2>2, <2>4, RotateImplements DEF Custody!CustodyNext
  <2>5. CASE Refuse(token[c]) /\ faulty' = TRUE
    BY <1>0, <2>1, <2>2, <2>5, LeaderHoldsGoodToken, RefuseImplements
  <2>6. CASE UNCHANGED <<good, revoked>> /\ faulty' = TRUE
    BY <2>1, <2>2, <2>6, KeptSame DEF Custody!CustodyNext, Custody!CutShort
  <2>. QED
    BY <1>4, <2>3, <2>4, <2>5, <2>6 DEF RefreshFails
<1>5. CASE Mark(c)
  <2>1. /\ pc[c] = "mark" /\ revoked # "no" /\ UNCHANGED <<good, revoked, faulty>>
        /\ row'.reauth = TRUE /\ row'.refresh = row.refresh
    BY <1>5 DEF Mark, airtableVars, TypeOK, TokenInv, SectionInv
  <2>2. Taken' <=> Taken
    BY <1>0, <1>5, TakenSame DEF Mark, Finish, Goto
  <2>. QED
    BY <2>1, <2>2, KeptSame DEF Custody!CustodyNext, Custody!Tell
<1>6. CASE Put(c)
  <2>1. /\ pc[c] = "put" /\ UNCHANGED <<good, revoked, faulty>>
        /\ row' = [refresh |-> token[c], fresh |-> TRUE, reauth |-> FALSE]
    BY <1>6 DEF Put, airtableVars
  <2>2. token[c] = good /\ ~row.reauth /\ Taken
    BY <2>1 DEF TokenInv, SectionInv, CustodyInv, Taken
  <2>3. WhereKept = "held" /\ WhereKept' = "stored"
    BY <2>1, <2>2, Kept, KeptNext
  <2>4. row'.reauth = row.reauth
    BY <2>1, <2>2 DEF TypeOK
  <2>. QED
    BY <2>1, <2>3, <2>4 DEF Custody!CustodyNext, Custody!Store
<1>7. CASE StatementFails(c) /\ pc[c] = "put"
  <2>1. UNCHANGED <<row, good, revoked>> /\ faulty' = (faulty \/ pc[c] = "put")
    BY <1>7 DEF StatementFails, airtableVars
  <2>2. faulty' = TRUE
    BY <1>7, <2>1
  <2>3. Taken /\ ~Taken'
    <3>1. \A d \in Callers : d # c => pc[d] # "put"
      BY <1>0, <1>7, OneLeader DEF Leading, Critical
    <3>. QED
      BY <1>0, <1>7, <3>1 DEF StatementFails, Finish, Goto, Taken
  <2>4. WhereKept = "held" /\ WhereKept' = "lost"
    BY <2>1, <2>3, Kept, KeptNext
  <2>. QED
    BY <2>1, <2>2, <2>4 DEF Custody!CustodyNext, Custody!Lose
<1>. QED
  BY <1>1, <1>2, <1>3, <1>4, <1>5, <1>6, <1>7 DEF Step

LEMMA NextImplements ==
  ASSUME TypeOK, TokenInv, TypeOK', TokenInv', [Next]_vars
  PROVE  [Custody!CustodyNext]_Custody!custodyVars
<1>0. pc \in [Callers -> PCs] /\ good \in Nat /\ row.refresh \in Nat /\ faulty \in BOOLEAN
  BY DEF TypeOK, Tokens
<1>1. ASSUME NEW c \in Callers, Step(c) PROVE [Custody!CustodyNext]_Custody!custodyVars
  BY <1>1, StepImplements
<1>2. ASSUME NEW c \in Callers, Start(c) \/ CancelWait(c) \/ Deadline(c)
      PROVE  UNCHANGED Custody!custodyVars
  <2>1. UNCHANGED <<row, good, revoked, faulty>>
    BY <1>2 DEF Start, CancelWait, Deadline, airtableVars
  <2>2. Taken' <=> Taken
    BY <1>0, <1>2 DEF Start, CancelWait, Deadline, Return, Goto, Taken
  <2>. QED
    BY <2>1, <2>2, QuietImplements
<1>3. CASE Age
  <2>1. /\ row'.refresh = row.refresh /\ row'.reauth = row.reauth
        /\ UNCHANGED <<pc, good, revoked, faulty>>
    BY <1>3 DEF Age, callerVars, airtableVars, TypeOK
  <2>. QED
    BY <2>1, QuietImplements DEF Taken
<1>4. CASE Revoke
  <2>1. revoked = "no" /\ revoked' = "user" /\ UNCHANGED <<row, pc, good, faulty>>
    BY <1>4 DEF Revoke, callerVars
  <2>2. WhereKept' = WhereKept
    BY <2>1, KeptSame DEF Taken
  <2>. QED
    BY <2>1, <2>2 DEF Custody!CustodyNext, Custody!TakeAway
<1>5. CASE Crash
  <2>1. /\ UNCHANGED <<row, good, revoked>> /\ ~Taken'
        /\ faulty' = (faulty \/ \E d \in Callers : pc[d] \in {"refresh", "put"})
    BY <1>5 DEF Crash, Taken
  <2>2. CASE Taken
    <3>1. faulty' = TRUE
      BY <2>1, <2>2 DEF Taken
    <3>. QED
      BY <2>1, <2>2, <3>1, Kept, KeptNext DEF Custody!CustodyNext, Custody!Lose
  <2>3. CASE ~Taken
    <3>1. faulty' = TRUE \/ faulty' = faulty
      BY <1>0, <2>1
    <3>2. WhereKept' = WhereKept
      BY <2>1, <2>3, KeptSame
    <3>. QED
      BY <2>1, <3>1, <3>2 DEF Custody!CustodyNext, Custody!CutShort, Custody!custodyVars
  <2>. QED
    BY <2>2, <2>3
<1>6. ASSUME NEW t \in Tokens, Deliver(t) PROVE [Custody!CustodyNext]_Custody!custodyVars
  <2>1. /\ faulty' = faulty /\ faulty /\ UNCHANGED <<row, pc>> /\ t <= row.refresh
    BY <1>6 DEF Deliver, callerVars, TokenInv, SectionInv, CustodyInv
  <2>2. Taken' <=> Taken
    BY <2>1 DEF Taken
  <2>3. CASE Rotate(t)
    <3>1. t = row.refresh
      BY <1>0, <2>1, <2>3 DEF Rotate, Accepted, TokenInv, SectionInv
    <3>. QED
      BY <2>1, <2>2, <2>3, <3>1, RotateImplements DEF Custody!CustodyNext
  <2>4. CASE Refuse(t)
    BY <2>1, <2>2, <2>4, RefuseImplements
  <2>5. CASE UNCHANGED <<good, revoked>>
    BY <2>1, <2>2, <2>5, QuietImplements
  <2>. QED
    BY <1>6, <2>3, <2>4, <2>5 DEF Deliver
<1>7. CASE UNCHANGED vars
  <2>1. UNCHANGED <<row, pc, good, revoked, faulty>>
    BY <1>7 DEF vars, callerVars, airtableVars
  <2>. QED
    BY <2>1, QuietImplements DEF Taken
<1>. QED
  BY <1>1, <1>2, <1>3, <1>4, <1>5, <1>6, <1>7 DEF Next

(* The token manager implements TokenCustody: one refresh at a time takes  *)
(* the good token and stores the next, nothing is lost or presented again  *)
(* unless a refresh was cut short, and who is told stays told.             *)
THEOREM ManagerImplementsCustody == Spec => ImplementsCustody
<1>1. Init => Custody!CustodyInit
  BY DEF Init, WhereKept, Custody!CustodyInit
<1>. QED
  BY <1>1, NextImplements, TypeCorrect, InvCorrect, PTL
  DEF Spec, ImplementsCustody, Custody!CustodySpec
=============================================================================
