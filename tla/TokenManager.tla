---------------------------- MODULE TokenManager ----------------------------
(***************************************************************************)
(* The Airtable token manager (internal/oauth/token_manager.go) for one    *)
(* user: tool calls and the refresh loop ask for an access token, at most  *)
(* one of them refreshes it and the others wait for its answer, and the    *)
(* rotated refresh token is stored in airtable_tokens.  Users do not       *)
(* interact, and a user who logs in again is a new user (createUserSession *)
(* in handler.go).                                                         *)
(*                                                                         *)
(* Airtable's refresh tokens are numbered in the order of their rotation.  *)
(* Only the last one is good; one that is presented again revokes them all *)
(* (SPEC.md, 2.3).  An access token is as old as the refresh token it came *)
(* with and is not modelled apart from it.                                 *)
(***************************************************************************)
EXTENDS Naturals

CONSTANTS
  Callers,     \* slots for concurrent users of the token manager
  Background,  \* those of them whose context is never cancelled: the loop
  NoCaller,
  MaxRotations \* bound: number of times Airtable rotates the token

ASSUME CallersAssumption == Background \subseteq Callers /\ NoCaller \notin Callers
ASSUME RotationsAssumption == MaxRotations \in Nat

VARIABLES
  row,      \* the user's row of airtable_tokens
  flight,   \* inFlight[user]: the caller that leads the refresh, what it got
  pc,       \* pc[c]: the next step of caller c
  token,    \* token[c]: the refresh token in the row c has read last
  answer,   \* answer[c]: what the refresh that c leads or waits for returned
  late,     \* late[c]: opCtx is done
  good,     \* the refresh token Airtable accepts
  revoked,  \* "no", by the "user" at Airtable, or by a "reuse" of a token
  delayed,  \* tokens in requests whose caller gave up, still on their way
  faulty    \* history: a refresh that had begun was cut short

callerVars == <<pc, token, answer, late>>
airtableVars == <<good, revoked, delayed>>
vars == <<row, flight, callerVars, airtableVars, faulty>>

Tokens == 0..MaxRotations
NoFlight == [leader |-> NoCaller, answer |-> "none"]

(* The critical section of refreshNow, under opCtx. *)
Critical == {"refresh", "mark", "put"}
PCs == {"idle", "lookup", "join", "wait", "load", "publish", "release"} \cup Critical
Answers == {"none", "token", "reauth", "error"}

TypeOK ==
  /\ row \in [refresh : Tokens, fresh : BOOLEAN, reauth : BOOLEAN]
  /\ flight \in [leader : Callers \cup {NoCaller}, answer : Answers]
  /\ pc \in [Callers -> PCs]
  /\ token \in [Callers -> Tokens]
  /\ answer \in [Callers -> Answers]
  /\ late \in [Callers -> BOOLEAN]
  /\ good \in Tokens
  /\ revoked \in {"no", "user", "reuse"}
  /\ delayed \subseteq Tokens
  /\ faulty \in BOOLEAN

(* The user has logged in. *)
Init ==
  /\ row = [refresh |-> 0, fresh |-> TRUE, reauth |-> FALSE]
  /\ flight = NoFlight
  /\ pc = [c \in Callers |-> "idle"]
  /\ token = [c \in Callers |-> 0]
  /\ answer = [c \in Callers |-> "none"]
  /\ late = [c \in Callers |-> FALSE]
  /\ good = 0 /\ revoked = "no" /\ delayed = {}
  /\ faulty = FALSE

Goto(c, label) == pc' = [pc EXCEPT ![c] = label]

(* The caller answers its client and forgets what it knew. *)
Return(c) ==
  /\ Goto(c, "idle")
  /\ token' = [token EXCEPT ![c] = 0]
  /\ answer' = [answer EXCEPT ![c] = "none"]
  /\ late' = [late EXCEPT ![c] = FALSE]

(* An error of Airtable is returned as it is. *)
FinishRaw(c, a) ==
  /\ Goto(c, "publish")
  /\ answer' = [answer EXCEPT ![c] = IF a = "error" THEN "invalid_grant" ELSE a]
  /\ late' = [late EXCEPT ![c] = FALSE]

(* refreshNow returns a to the leader c. *)
Finish(c, a) ==
  /\ Goto(c, "publish")
  /\ answer' = [answer EXCEPT ![c] = a]
  /\ late' = [late EXCEPT ![c] = FALSE]

-----------------------------------------------------------------------------
(* AirtableAccessToken, refreshExpiringTokens *)

Start(c) ==
  /\ pc[c] = "idle"
  /\ Goto(c, "lookup")
  /\ UNCHANGED <<row, flight, token, answer, late, airtableVars, faulty>>

(* GetAirtableToken: a row that is marked, or expires much later, answers. *)
(* The loop lists the rows that are neither.                               *)
Lookup(c) ==
  /\ pc[c] = "lookup"
  /\ \/ /\ row.reauth \/ row.fresh
        /\ Return(c)
     \/ /\ ~row.reauth /\ ~row.fresh
        /\ Goto(c, "join")
        /\ token' = [token EXCEPT ![c] = row.refresh]
        /\ UNCHANGED <<answer, late>>
  /\ UNCHANGED <<row, flight, airtableVars, faulty>>

-----------------------------------------------------------------------------
(* refreshAndGetAccess *)

(* Under m.mu: the caller leads a refresh, waits for the one under way, or *)
(* takes the answer of one that is done and not yet removed.               *)
Join(c) ==
  /\ pc[c] = "join"
  /\ \/ /\ flight = NoFlight
        /\ flight' = [leader |-> c, answer |-> "none"]
        /\ Goto(c, "load")
        /\ UNCHANGED <<token, answer, late>>
     \/ /\ flight # NoFlight /\ flight.answer = "none"
        /\ Goto(c, "wait")
        /\ UNCHANGED <<flight, token, answer, late>>
     \/ /\ flight.answer # "none"
        /\ Return(c)
        /\ UNCHANGED flight
  /\ UNCHANGED <<row, airtableVars, faulty>>

(* close(call.done) without telling those who wait. *)
PublishToNobody(c) ==
  /\ pc[c] = "publish"
  /\ flight' = [flight EXCEPT !.answer = answer[c]]
  /\ Goto(c, "release")
  /\ UNCHANGED <<row, token, answer, late, airtableVars, faulty>>

(* close(call.done): those who wait have their answer, which is kept for   *)
(* those who join before the entry is deleted.                             *)
Publish(c) ==
  /\ pc[c] = "publish"
  /\ flight' = [flight EXCEPT !.answer = answer[c]]
  /\ pc' = [d \in Callers |-> IF d = c THEN "release"
                              ELSE IF pc[d] = "wait" THEN "idle" ELSE pc[d]]
  /\ token' = [d \in Callers |-> IF pc[d] = "wait" THEN 0 ELSE token[d]]
  /\ UNCHANGED <<row, answer, late, airtableVars, faulty>>

(* delete(m.inFlight, userID) *)
Release(c) ==
  /\ pc[c] = "release"
  /\ flight' = NoFlight
  /\ Return(c)
  /\ UNCHANGED <<row, airtableVars, faulty>>

(* The client of a waiting caller goes away. *)
CancelWait(c) ==
  /\ c \notin Background
  /\ pc[c] = "wait"
  /\ Return(c)
  /\ UNCHANGED <<row, flight, airtableVars, faulty>>

-----------------------------------------------------------------------------
(* refreshNow *)

(* The row that was read before is taken for the current one. *)
LoadNothing(c) ==
  /\ pc[c] = "load"
  /\ Goto(c, "refresh")
  /\ UNCHANGED <<row, flight, token, answer, late, airtableVars, faulty>>

(* The row is read again: another refresh may have replaced it meanwhile.  *)
Load(c) ==
  /\ pc[c] = "load"
  /\ \/ /\ row.reauth /\ Finish(c, "reauth") /\ UNCHANGED token
     \/ /\ ~row.reauth /\ row.fresh /\ Finish(c, "token") /\ UNCHANGED token
     \/ /\ ~row.reauth /\ ~row.fresh
        /\ token' = [token EXCEPT ![c] = row.refresh]
        /\ Goto(c, "refresh")
        /\ UNCHANGED <<answer, late>>
  /\ UNCHANGED <<row, flight, airtableVars, faulty>>

(* What Airtable makes of a request with refresh token t. *)
Accepted(t) == revoked = "no" /\ t = good /\ good < MaxRotations

Rotate(t) == Accepted(t) /\ good' = good + 1 /\ UNCHANGED revoked

Refuse(t) ==
  /\ revoked # "no" \/ t # good
  /\ revoked' = IF revoked = "no" THEN "reuse" ELSE revoked
  /\ UNCHANGED good

(* Refresh: Airtable rotates the token and its reply arrives. *)
Refreshed(c) ==
  /\ pc[c] = "refresh" /\ ~late[c]
  /\ Rotate(token[c])
  /\ token' = [token EXCEPT ![c] = good']
  /\ Goto(c, "put")
  /\ UNCHANGED <<row, flight, answer, late, delayed, faulty>>

(* invalid_grant is an error like any other. *)
RefusedUnnoticed(c) ==
  /\ pc[c] = "refresh" /\ ~late[c]
  /\ Refuse(token[c])
  /\ Finish(c, "error")
  /\ UNCHANGED <<row, flight, token, delayed, faulty>>

(* Refresh: invalid_grant. *)
Refused(c) ==
  /\ pc[c] = "refresh" /\ ~late[c]
  /\ Refuse(token[c])
  /\ Goto(c, "mark")
  /\ UNCHANGED <<row, flight, token, answer, late, delayed, faulty>>

(* Any other failure, opCtx included: the request does not arrive, or      *)
(* Airtable handles it and the reply is lost, or it will handle it.        *)
RefreshFails(c) ==
  /\ pc[c] = "refresh"
  /\ \/ UNCHANGED <<airtableVars, faulty>>
     \/ /\ Rotate(token[c]) \/ Refuse(token[c])
        /\ faulty' = TRUE
        /\ UNCHANGED delayed
     \/ /\ delayed' = delayed \cup {token[c]}
        /\ faulty' = TRUE
        /\ UNCHANGED <<good, revoked>>
  /\ Finish(c, "error")
  /\ UNCHANGED <<row, flight, token>>

(* MarkAirtableTokenReauthRequired. *)
Mark(c) ==
  /\ pc[c] = "mark" /\ ~late[c]
  /\ row' = [row EXCEPT !.reauth = TRUE]
  /\ Finish(c, "reauth") \/ Finish(c, "error")
  /\ UNCHANGED <<flight, token, airtableVars, faulty>>

(* PutAirtableToken. *)
Put(c) ==
  /\ pc[c] = "put" /\ ~late[c]
  /\ row' = [refresh |-> token[c], fresh |-> TRUE, reauth |-> FALSE]
  /\ Finish(c, "token") \/ Finish(c, "error")
  /\ UNCHANGED <<flight, token, airtableVars, faulty>>

(* The client goes away while the leader has a token to store. *)
StatementCancelled(c) ==
  /\ \/ /\ pc[c] = "lookup" /\ Return(c)
     \/ /\ pc[c] \in {"load", "mark", "put"} /\ Finish(c, "error") /\ UNCHANGED token
  /\ UNCHANGED <<row, flight, airtableVars, faulty>>

(* A statement fails without effect: the database is away, the client of a *)
(* caller that is not in the critical section has gone, opCtx is done.     *)
StatementFails(c) ==
  /\ \/ /\ pc[c] = "lookup" /\ Return(c)
     \/ /\ pc[c] \in {"load", "mark", "put"} /\ Finish(c, "error") /\ UNCHANGED token
  /\ faulty' = (faulty \/ pc[c] = "put")
  /\ UNCHANGED <<row, flight, airtableVars>>

(* refreshCriticalTimeout passes. *)
Deadline(c) ==
  /\ pc[c] \in Critical /\ ~late[c]
  /\ late' = [late EXCEPT ![c] = TRUE]
  /\ UNCHANGED <<row, flight, pc, token, answer, airtableVars, faulty>>

-----------------------------------------------------------------------------
(* The environment *)

(* expires_at comes within refreshBefore. *)
Age ==
  /\ row.fresh
  /\ row' = [row EXCEPT !.fresh = FALSE]
  /\ UNCHANGED <<flight, callerVars, airtableVars, faulty>>

(* The user takes the integration's access away at Airtable. *)
Revoke ==
  /\ revoked = "no"
  /\ revoked' = "user"
  /\ UNCHANGED <<row, flight, callerVars, good, delayed, faulty>>

(* A request whose caller gave up arrives, or never will. *)
Deliver(t) ==
  /\ t \in delayed
  /\ delayed' = delayed \ {t}
  /\ Rotate(t) \/ Refuse(t) \/ UNCHANGED <<good, revoked>>
  /\ UNCHANGED <<row, flight, callerVars, faulty>>

(* The process dies and starts again. *)
Crash ==
  /\ flight' = NoFlight
  /\ pc' = [c \in Callers |-> "idle"]
  /\ token' = [c \in Callers |-> 0]
  /\ answer' = [c \in Callers |-> "none"]
  /\ late' = [c \in Callers |-> FALSE]
  /\ faulty' = (faulty \/ \E c \in Callers : pc[c] \in {"refresh", "put"})
  /\ delayed' \in {delayed, delayed \cup {token[c] : c \in {d \in Callers : pc[d] = "refresh"}}}
  /\ UNCHANGED <<row, good, revoked>>

Step(c) ==
  \/ Lookup(c) \/ Join(c) \/ Publish(c) \/ Release(c)
  \/ Load(c) \/ Refreshed(c) \/ Refused(c) \/ RefreshFails(c)
  \/ Mark(c) \/ Put(c) \/ StatementFails(c)

Next ==
  \/ \E c \in Callers : Start(c) \/ Step(c) \/ CancelWait(c) \/ Deadline(c)
  \/ Age \/ Revoke \/ Crash
  \/ \E t \in Tokens : Deliver(t)

Spec == Init /\ [][Next]_vars

(* Calls go on, the loop ticks, tokens age, crashes stop; what is tried    *)
(* again and again (a statement, a call of Airtable) does not fail for     *)
(* ever.                                                                   *)
Fairness ==
  /\ WF_vars(Age)
  /\ \A c \in Background : WF_vars(Start(c))
  /\ \A c \in Callers :
       /\ WF_vars(Step(c))
       /\ SF_vars(Lookup(c)) /\ SF_vars(Load(c))
       /\ SF_vars(Refused(c)) /\ SF_vars(Mark(c))
  /\ <>[][~Crash]_vars

FairSpec == Spec /\ Fairness

-----------------------------------------------------------------------------
(* Properties *)

(* The stored token, or the one that the leader is about to store, is the  *)
(* one Airtable accepts: whatever clients do, a rotated token is lost only *)
(* when the critical section itself is cut short (refreshNow's opCtx,      *)
(* "the rotated token must be persisted even if the requesting client      *)
(* disconnects").                                                          *)
RotatedTokenStored ==
  \/ faulty
  \/ row.refresh = good
  \/ \E c \in Callers : pc[c] = "put" /\ token[c] = good

(* No token is presented twice unless a refresh was cut short: concurrent  *)
(* callers never get the user's whole chain revoked (the single flight of  *)
(* refreshAndGetAccess and the second read of refreshNow).                 *)
NeverReused == revoked = "reuse" => faulty

(* A user is told to log in again only when the stored token is dead       *)
(* (MarkAirtableTokenReauthRequired).                                      *)
ReauthIsTrue == row.reauth => (revoked # "no" \/ row.refresh # good)

(* Where the token is that Airtable accepts. *)
WhereKept ==
  IF row.refresh = good THEN "stored"
  ELSE IF \E c \in Callers : pc[c] = "put" /\ token[c] = good THEN "held"
  ELSE "lost"

Custody == INSTANCE TokenCustody
             WITH kept <- WhereKept, chain <- revoked, told <- row.reauth, cut <- faulty

(* The manager keeps the user's chain as TokenCustody says: a token is     *)
(* taken by one refresh and stored by it, one that is lost is never there  *)
(* again, and only the owner of a dead chain is told, who stays told.      *)
ImplementsCustody == Custody!CustodySpec

(* Everyone who waits for a refresh gets an answer, also when it fails     *)
(* (refreshAndGetAccess).                                                  *)
FollowersAnswered == \A c \in Callers : (pc[c] = "wait") ~> (pc[c] # "wait")

(* A user whose token is dead is told so in the end, also after a crash or *)
(* a lost reply (the refresh loop and "Failure handling" in SPEC.md 2.3).  *)
DeadTokenNoticed ==
  (revoked # "no" \/ row.refresh # good)
    ~> (row.reauth \/ (row.refresh = good /\ revoked = "no"))

-----------------------------------------------------------------------------
(* The inductive invariant behind the safety properties *)

(* At most one caller leads, and the entry in inFlight is its. *)
Leading == {"load", "publish", "release"} \cup Critical

FlightInv ==
  /\ \A c \in Callers : pc[c] \in Leading => flight.leader = c
  /\ flight.leader = NoCaller => flight.answer = "none"

(* A leader refreshes the token in the row, it was refused for a reason,   *)
(* and what it is about to store is Airtable's last word.                  *)
SectionInv ==
  /\ \A c \in Callers : pc[c] = "refresh" => token[c] = row.refresh
  /\ \A c \in Callers : pc[c] = "mark" => revoked # "no"
  /\ \A c \in Callers : pc[c] = "put" => token[c] = good
  /\ row.refresh <= good
  /\ delayed # {} => faulty

(* What it is about to store is new, also to the requests on their way,    *)
(* and nobody has been told meanwhile that the chain is dead.              *)
CustodyInv ==
  /\ \A c \in Callers : pc[c] = "put" => row.refresh < token[c]
  /\ \A c \in Callers : pc[c] \in {"refresh", "put"} => ~row.reauth
  /\ \A t \in delayed : t <= row.refresh
  /\ row.reauth => revoked # "no"

TokenInv ==
  /\ FlightInv /\ SectionInv /\ CustodyInv
  /\ RotatedTokenStored /\ NeverReused /\ ReauthIsTrue
=============================================================================
