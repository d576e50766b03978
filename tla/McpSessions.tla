---------------------------- MODULE McpSessions -----------------------------
(***************************************************************************)
(* The sessions of the MCP endpoint (internal/mcp/session.go, handler.go): *)
(* a table in memory, whose entries expire when they are idle, and the     *)
(* event streams that keep them alive.                                     *)
(***************************************************************************)
EXTENDS Naturals

CONSTANTS
  SessionIds,  \* bound: sessions that are created
  Users,
  Streams,     \* slots for GET requests
  NoSession,
  NoUser,
  Heartbeat,   \* time between two heartbeats of a stream
  IdleTTL      \* SessionManager.idleTTL

VARIABLES
  owner,   \* owner[s]: Session.OwnerID, or NoUser when s is not in the table
  idle,    \* idle[s]: time since Session.LastSeenAt
  used,    \* the ids that have been given out
  stream,  \* stream[g]: the session an open stream belongs to
  viewer,  \* viewer[g]: the user who opened it
  beat,    \* beat[g]: time since its last heartbeat
  deleted  \* history: the sessions a client has deleted

vars == <<owner, idle, used, stream, viewer, beat, deleted>>
streamVars == <<stream, viewer, beat>>

TypeOK ==
  /\ owner \in [SessionIds -> Users \cup {NoUser}]
  /\ idle \in [SessionIds -> 0..IdleTTL]
  /\ used \subseteq SessionIds /\ deleted \subseteq used
  /\ stream \in [Streams -> SessionIds \cup {NoSession}]
  /\ viewer \in [Streams -> Users \cup {NoUser}]
  /\ beat \in [Streams -> 0..Heartbeat]

Init ==
  /\ owner = [s \in SessionIds |-> NoUser]
  /\ idle = [s \in SessionIds |-> 0]
  /\ used = {} /\ deleted = {}
  /\ stream = [g \in Streams |-> NoSession]
  /\ viewer = [g \in Streams |-> NoUser]
  /\ beat = [g \in Streams |-> 0]

(* The sessions that pruneExpiredLocked keeps. *)
Kept == {s \in SessionIds : owner[s] # NoUser /\ idle[s] < IdleTTL}

(* The table holds exactly the sessions in kept, and those in seen have    *)
(* just been seen.                                                         *)
Table(kept, seen) ==
  /\ owner' = [s \in SessionIds |-> IF s \in kept THEN owner[s] ELSE NoUser]
  /\ idle' = [s \in SessionIds |-> IF s \in kept \ seen THEN idle[s] ELSE 0]

(* Create, for an initialize request of user u. *)
Initialize(s, u) ==
  /\ s \notin used
  /\ used' = used \cup {s}
  /\ owner' = [t \in SessionIds |-> IF t = s THEN u ELSE IF t \in Kept THEN owner[t] ELSE NoUser]
  /\ idle' = [t \in SessionIds |-> IF t \in Kept \ {s} THEN idle[t] ELSE 0]
  /\ UNCHANGED <<streamVars, deleted>>

(* The session u may use. *)
Own(s, u) == s \in Kept /\ owner[s] = u

(* Touch finds the session and notes that it was seen; every call prunes.  *)
Touch(s, u) == Table(Kept, IF Own(s, u) THEN {s} ELSE {})

(* A POST with a session id; one that is not found is answered with 404.   *)
Call(s, u) ==
  /\ Touch(s, u)
  /\ UNCHANGED <<used, streamVars, deleted>>

(* DELETE. *)
Delete(s, u) ==
  /\ Table(IF Own(s, u) THEN Kept \ {s} ELSE Kept, {})
  /\ deleted' = IF Own(s, u) THEN deleted \cup {s} ELSE deleted
  /\ UNCHANGED <<used, streamVars>>

(* GET: the session is touched and the stream opened. *)
Open(g, s, u) ==
  /\ stream[g] = NoSession
  /\ Own(s, u)
  /\ Touch(s, u)
  /\ stream' = [stream EXCEPT ![g] = s]
  /\ viewer' = [viewer EXCEPT ![g] = u]
  /\ beat' = [beat EXCEPT ![g] = 0]
  /\ UNCHANGED <<used, deleted>>

(* A heartbeat that only pings. *)
BeatOnly(g) ==
  /\ stream[g] # NoSession
  /\ beat' = [beat EXCEPT ![g] = 0]
  /\ UNCHANGED <<owner, idle, used, stream, viewer, deleted>>

(* The ticker of handleGet: the result of Touch is ignored. *)
Beat(g) ==
  /\ stream[g] # NoSession
  /\ Touch(stream[g], viewer[g])
  /\ beat' = [beat EXCEPT ![g] = 0]
  /\ UNCHANGED <<used, stream, viewer, deleted>>

(* The client closes the stream. *)
Close(g) ==
  /\ stream[g] # NoSession
  /\ stream' = [stream EXCEPT ![g] = NoSession]
  /\ viewer' = [viewer EXCEPT ![g] = NoUser]
  /\ beat' = [beat EXCEPT ![g] = 0]
  /\ UNCHANGED <<owner, idle, used, deleted>>

(* RunExpiryLoop. *)
PruneExpired ==
  /\ Table(Kept, {})
  /\ UNCHANGED <<used, streamVars, deleted>>

(* Time passes; tickers fire when they are due. *)
Tick ==
  /\ \A g \in Streams : stream[g] # NoSession => beat[g] < Heartbeat
  /\ idle' = [s \in SessionIds |-> IF owner[s] # NoUser /\ idle[s] < IdleTTL
                                     THEN idle[s] + 1 ELSE idle[s]]
  /\ beat' = [g \in Streams |-> IF stream[g] # NoSession THEN beat[g] + 1 ELSE 0]
  /\ UNCHANGED <<owner, used, stream, viewer, deleted>>

(* The process restarts: connections are cut and the table is empty. *)
Crash ==
  /\ owner' = [s \in SessionIds |-> NoUser]
  /\ idle' = [s \in SessionIds |-> 0]
  /\ stream' = [g \in Streams |-> NoSession]
  /\ viewer' = [g \in Streams |-> NoUser]
  /\ beat' = [g \in Streams |-> 0]
  /\ UNCHANGED <<used, deleted>>

(* What a request of user u may do. *)
Request(u) ==
  \E s \in SessionIds :
     \/ Initialize(s, u) \/ Call(s, u) \/ Delete(s, u)
     \/ \E g \in Streams : Open(g, s, u)

(* What happens without a request. *)
Background ==
  \/ \E g \in Streams : Beat(g) \/ Close(g)
  \/ PruneExpired \/ Tick

-----------------------------------------------------------------------------
(* Properties *)

(* A session with an open stream does not expire: only its owner ends it   *)
(* (the heartbeat of handleGet).                                           *)
StreamKeepsSession ==
  \A g \in Streams :
    stream[g] # NoSession => stream[g] \in deleted \/ owner[stream[g]] = viewer[g]

(* It is as young as the last heartbeat of each of its streams.            *)
StreamInv ==
  \A g \in Streams : stream[g] # NoSession =>
    /\ stream[g] \in used /\ viewer[g] # NoUser
    /\ \/ stream[g] \in deleted
       \/ owner[stream[g]] = viewer[g] /\ idle[stream[g]] <= beat[g]
=============================================================================
