------------------------------ MODULE McpServer -----------------------------
(***************************************************************************)
(* The MCP endpoint behind its OAuth server (cmd/server/main.go): a        *)
(* request passes RequireBearer when its access token has a row in         *)
(* mcp_tokens, and the user of that row is the owner of its sessions.      *)
(* Users are logins, as in McpOAuth; both live in one process.             *)
(***************************************************************************)
EXTENDS McpOAuth

CONSTANTS SessionIds, Streams, NoSession, NoUser, Heartbeat, IdleTTL

ASSUME SessionsAssumption == NoSession \notin SessionIds /\ NoUser \notin Logins
ASSUME HeartbeatAssumption == /\ Heartbeat \in Nat /\ IdleTTL \in Nat
                              /\ 0 < Heartbeat /\ Heartbeat < IdleTTL

VARIABLES owner, idle, used, stream, viewer, beat, deleted

Sessions == INSTANCE McpSessions WITH Users <- Logins

sessionVars == <<owner, idle, used, stream, viewer, beat, deleted>>
serverVars == <<vars, sessionVars>>

(* RequireBearer lets user u in.  An access token may have expired, which  *)
(* the client sees as a refusal that changes nothing.                      *)
RequireBearer(u) == \E t \in mcpTokens : t[1] = u

ServerInit == Init /\ Sessions!Init

ServerNext ==
  \/ Step /\ UNCHANGED sessionVars
  \/ \E u \in Logins : RequireBearer(u) /\ Sessions!Request(u) /\ UNCHANGED vars
  \/ Sessions!Background /\ UNCHANGED vars
  \/ Crash /\ Sessions!Crash

ServerSpec == ServerInit /\ [][ServerNext]_serverVars

-----------------------------------------------------------------------------
(* Properties *)

ServerTypeOK == TypeOK /\ Sessions!TypeOK

(* A session with an open stream does not expire: only its owner ends it   *)
(* (the heartbeat of handleGet in mcp/handler.go).                         *)
StreamKeepsSession == Sessions!StreamKeepsSession

(* Whoever is let in, and whoever a session belongs to, has Airtable       *)
(* tokens: the session of a user whose login failed half way is never used *)
(* (AirtableCallback, issueMCPToken, RequireBearer).                       *)
UserHasAirtableToken ==
  /\ BearerHasAirtableToken
  /\ \A s \in SessionIds : owner[s] # NoUser => owner[s] \in users \cap airtableTokens
=============================================================================
