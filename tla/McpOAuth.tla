------------------------------ MODULE McpOAuth ------------------------------
(***************************************************************************)
(* The OAuth server for MCP clients (internal/oauth/handler.go): an MCP    *)
(* client registers, the user logs in at Airtable, and the client redeems  *)
(* a code, then again and again a refresh token, for a new pair of tokens. *)
(*                                                                         *)
(* A login is one passage through Authorize; its number stands for the     *)
(* `state' sent to Airtable, for the code given to the client and for the  *)
(* user, who is created anew at each login (createUserSession).  The pairs *)
(* of tokens of login l are <<l, 1>>, <<l, 2>>, ...  Entries in memory     *)
(* that have expired are treated as absent, so expiry and pruning of       *)
(* authRequests and authCodes are one step here.                           *)
(***************************************************************************)
EXTENDS Naturals, FiniteSets

CONSTANTS
  Clients,   \* client ids; one application may have registered several times
  Logins,
  Requests,  \* slots for callbacks and grants that are handled concurrently
  NoClient,  \* no client id: a login not begun, a grant that names none
  MaxPairs   \* bound: pairs of tokens per login

ASSUME ClientsAssumption == NoClient \notin Clients
ASSUME LoginsAssumption == Logins # {}   \* AnyLogin is one of them
ASSUME PairsAssumption == MaxPairs \in Nat \ {0}

VARIABLES
  clients,        \* oauth_clients
  client,         \* client[l]: the client id the login was begun with
  authRequests,   \* logins whose request waits for the user, in memory
  authCodes,      \* logins whose code is not yet redeemed, in memory
  users,          \* users
  airtableTokens, \* users with a row in airtable_tokens
  mcpTokens,      \* mcp_tokens: the access tokens
  refreshTokens,  \* mcp_refresh_tokens
  expired,        \* refresh tokens past their expires_at
  pc,             \* pc[r]: the next step of handler r
  login,          \* login[r]: what handler r works for
  pair,           \* pair[r]: the number of the pair it is about to issue
  codes,          \* the codes the application has received
  held,           \* the refresh tokens it has received
  presented       \* those it has presented

dbVars == <<clients, users, airtableTokens, mcpTokens, refreshTokens>>
memoryVars == <<client, authRequests, authCodes>>
handlerVars == <<pc, login, pair>>
clientVars == <<codes, held, presented>>
vars == <<dbVars, memoryVars, expired, handlerVars, clientVars>>

Pairs == Logins \X (1..MaxPairs)

(* Steps of AirtableCallback, then of issueMCPToken and the reply.         *)
CallbackPCs == {"exchange", "user", "airtable", "code"}
IssuePCs == {"access", "refresh"}
PCs == {"idle", "reply"} \cup CallbackPCs \cup IssuePCs

TypeOK ==
  /\ clients \subseteq Clients
  /\ client \in [Logins -> Clients \cup {NoClient}]
  /\ authRequests \subseteq Logins /\ authCodes \subseteq Logins
  /\ users \subseteq Logins /\ airtableTokens \subseteq Logins
  /\ mcpTokens \subseteq Pairs /\ refreshTokens \subseteq Pairs /\ expired \subseteq Pairs
  /\ pc \in [Requests -> PCs]
  /\ login \in [Requests -> Logins]
  /\ pair \in [Requests -> 1..MaxPairs]
  /\ codes \subseteq Logins
  /\ held \subseteq Pairs /\ presented \subseteq held

AnyLogin == CHOOSE l \in Logins : TRUE

Init ==
  /\ clients = {} /\ users = {} /\ airtableTokens = {}
  /\ mcpTokens = {} /\ refreshTokens = {} /\ expired = {}
  /\ client = [l \in Logins |-> NoClient]
  /\ authRequests = {} /\ authCodes = {}
  /\ pc = [r \in Requests |-> "idle"]
  /\ login = [r \in Requests |-> AnyLogin]
  /\ pair = [r \in Requests |-> 1]
  /\ codes = {} /\ held = {} /\ presented = {}

Goto(r, label) == pc' = [pc EXCEPT ![r] = label]

(* The numbers of the pairs of a handler at rest begin with 0. *)
ReturnToZero(r) ==
  /\ Goto(r, "idle")
  /\ login' = [login EXCEPT ![r] = AnyLogin]
  /\ pair' = [pair EXCEPT ![r] = 0]

(* A handler that has answered forgets what it knew. *)
Return(r) ==
  /\ Goto(r, "idle")
  /\ login' = [login EXCEPT ![r] = AnyLogin]
  /\ pair' = [pair EXCEPT ![r] = 1]

Begin(r, label, l, n) ==
  /\ pc[r] = "idle"
  /\ Goto(r, label)
  /\ login' = [login EXCEPT ![r] = l]
  /\ pair' = [pair EXCEPT ![r] = n]

(* A statement has been executed, whether or not the handler learns of it. *)
Executed(r, next) ==
  \/ Goto(r, next) /\ UNCHANGED <<login, pair>>
  \/ Return(r)

-----------------------------------------------------------------------------
(* Register, Authorize *)

Register(c) ==
  /\ clients' = clients \cup {c}
  /\ UNCHANGED <<users, airtableTokens, mcpTokens, refreshTokens, memoryVars, expired,
                 handlerVars, clientVars>>

Authorize(c, l) ==
  /\ c \in clients
  /\ client[l] = NoClient
  /\ client' = [client EXCEPT ![l] = c]
  /\ authRequests' = authRequests \cup {l}
  /\ UNCHANGED <<dbVars, authCodes, expired, handlerVars, clientVars>>

-----------------------------------------------------------------------------
(* AirtableCallback *)

(* consumeAuthorizationRequest.  A callback whose request has gone is      *)
(* answered with an error and changes nothing.                             *)
Callback(r, l) ==
  /\ l \in authRequests
  /\ authRequests' = authRequests \ {l}
  /\ Begin(r, "exchange", l, 1)
  /\ UNCHANGED <<dbVars, client, authCodes, expired, clientVars>>

(* Airtable exchanges its code for tokens. *)
Exchange(r) ==
  /\ pc[r] = "exchange"
  /\ Goto(r, "user")
  /\ UNCHANGED <<dbVars, memoryVars, expired, login, pair, clientVars>>

UpsertUser(r) ==
  /\ pc[r] = "user"
  /\ users' = users \cup {login[r]}
  /\ Executed(r, "airtable")
  /\ UNCHANGED <<clients, airtableTokens, mcpTokens, refreshTokens, memoryVars, expired, clientVars>>

(* The user's tokens are stored after the reply. *)
PutAirtableTokenLater(r) ==
  /\ pc[r] = "airtable"
  /\ Executed(r, "code")
  /\ UNCHANGED <<dbVars, memoryVars, expired, clientVars>>

PutAirtableToken(r) ==
  /\ pc[r] = "airtable"
  /\ airtableTokens' = airtableTokens \cup {login[r]}
  /\ Executed(r, "code")
  /\ UNCHANGED <<clients, users, mcpTokens, refreshTokens, memoryVars, expired, clientVars>>

(* The code is kept and sent to the client, which may not receive it. *)
IssueCode(r) ==
  /\ pc[r] = "code"
  /\ authCodes' = authCodes \cup {login[r]}
  /\ codes' \in {codes, codes \cup {login[r]}}
  /\ Return(r)
  /\ UNCHANGED <<dbVars, client, authRequests, expired, held, presented>>

-----------------------------------------------------------------------------
(* Token *)

(* The code is looked up and stays. *)
CodeGrantReading(r, l, c, verified) ==
  /\ l \in codes \cap authCodes
  /\ c = client[l] /\ verified
  /\ Begin(r, "access", l, 1)
  /\ UNCHANGED <<dbVars, memoryVars, expired, clientVars>>

(* handleAuthorizationCodeGrant: the code is consumed before the client id *)
(* and the verifier are compared, so that a wrong guess spends it.         *)
CodeGrant(r, l, c, verified) ==
  /\ l \in codes \cap authCodes
  /\ authCodes' = authCodes \ {l}
  /\ IF c = client[l] /\ verified
       THEN Begin(r, "access", l, 1)
       ELSE pc[r] = "idle" /\ UNCHANGED handlerVars
  /\ UNCHANGED <<dbVars, client, authRequests, expired, clientVars>>

(* ConsumeMCPRefreshToken as a SELECT, the DELETE coming later. *)
RefreshGrantReading(r, l, n, c) ==
  /\ <<l, n>> \in held
  /\ presented' = presented \cup {<<l, n>>}
  /\ n < MaxPairs
  /\ <<l, n>> \in refreshTokens \ expired
  /\ c \in {client[l], NoClient}
  /\ Begin(r, "access", l, n + 1)
  /\ UNCHANGED <<dbVars, memoryVars, expired, codes, held>>

(* handleRefreshTokenGrant: ConsumeMCPRefreshToken, one DELETE, then the   *)
(* comparison of the client id, if one is given.  The handler may not      *)
(* learn what the DELETE did, and a token that has gone is refused.        *)
RefreshGrant(r, l, n, c) ==
  /\ <<l, n>> \in held
  /\ presented' = presented \cup {<<l, n>>}
  /\ n < MaxPairs
  /\ \/ /\ <<l, n>> \in refreshTokens \ expired
        /\ refreshTokens' = refreshTokens \ {<<l, n>>}
        /\ \/ c \in {client[l], NoClient} /\ Begin(r, "access", l, n + 1)
           \/ pc[r] = "idle" /\ UNCHANGED handlerVars
     \/ /\ <<l, n>> \notin refreshTokens \ expired
        /\ pc[r] = "idle"
        /\ UNCHANGED <<refreshTokens, handlerVars>>
  /\ UNCHANGED <<clients, users, airtableTokens, mcpTokens, memoryVars, expired, codes, held>>

(* issueMCPToken: PutMCPToken. *)
PutMCPToken(r) ==
  /\ pc[r] = "access"
  /\ mcpTokens' = mcpTokens \cup {<<login[r], pair[r]>>}
  /\ Executed(r, "refresh")
  /\ UNCHANGED <<clients, users, airtableTokens, refreshTokens, memoryVars, expired, clientVars>>

(* issueMCPToken: PutMCPRefreshToken. *)
PutMCPRefreshToken(r) ==
  /\ pc[r] = "refresh"
  /\ refreshTokens' = refreshTokens \cup {<<login[r], pair[r]>>}
  /\ Executed(r, "reply")
  /\ UNCHANGED <<clients, users, airtableTokens, mcpTokens, memoryVars, expired, clientVars>>

(* The client receives the pair, or the reply is lost. *)
Reply(r) ==
  /\ pc[r] = "reply"
  /\ held' \in {held, held \cup {<<login[r], pair[r]>>}}
  /\ Return(r)
  /\ UNCHANGED <<dbVars, memoryVars, expired, codes, presented>>

(* The exchange or a statement fails without effect, or r.Context() ends.  *)
Fail(r) ==
  /\ pc[r] \in CallbackPCs \cup IssuePCs
  /\ Return(r)
  /\ UNCHANGED <<dbVars, memoryVars, expired, clientVars>>

-----------------------------------------------------------------------------
(* Time, RunCleanupLoop, restarts *)

ExpireRequest(l) ==
  /\ l \in authRequests \cup authCodes
  /\ authRequests' = authRequests \ {l}
  /\ authCodes' = authCodes \ {l}
  /\ UNCHANGED <<dbVars, client, expired, handlerVars, clientVars>>

ExpireToken(t) ==
  /\ t \in refreshTokens \ expired
  /\ expired' = expired \cup {t}
  /\ UNCHANGED <<dbVars, memoryVars, handlerVars, clientVars>>

(* PruneExpiredMCPRefreshTokens with the comparison turned round. *)
PruneUnexpired ==
  /\ refreshTokens' = refreshTokens \cap expired
  /\ UNCHANGED <<clients, users, airtableTokens, mcpTokens, memoryVars, expired,
                 handlerVars, clientVars>>

PruneExpired ==
  /\ refreshTokens' = refreshTokens \ expired
  /\ UNCHANGED <<clients, users, airtableTokens, mcpTokens, memoryVars, expired,
                 handlerVars, clientVars>>

Crash ==
  /\ authRequests' = {} /\ authCodes' = {}
  /\ pc' = [r \in Requests |-> "idle"]
  /\ login' = [r \in Requests |-> AnyLogin]
  /\ pair' = [r \in Requests |-> 1]
  /\ UNCHANGED <<dbVars, client, expired, clientVars>>

Handle(r) ==
  \/ Exchange(r) \/ UpsertUser(r) \/ PutAirtableToken(r) \/ IssueCode(r)
  \/ PutMCPToken(r) \/ PutMCPRefreshToken(r) \/ Reply(r) \/ Fail(r)

Grant(r) ==
  \E l \in Logins : \E c \in Clients \cup {NoClient} :
     \/ \E verified \in BOOLEAN : CodeGrant(r, l, c, verified)
     \/ \E n \in 1..MaxPairs : RefreshGrant(r, l, n, c)

(* Everything but a restart. *)
Step ==
  \/ \E c \in Clients : Register(c) \/ \E l \in Logins : Authorize(c, l)
  \/ \E r \in Requests : Handle(r) \/ Grant(r) \/ \E l \in Logins : Callback(r, l)
  \/ \E l \in Logins : ExpireRequest(l)
  \/ \E t \in Pairs : ExpireToken(t)
  \/ PruneExpired

Next == Step \/ Crash

Spec == Init /\ [][Next]_vars

-----------------------------------------------------------------------------
(* Properties *)

(* Where a login's right to its next pair of tokens is: in the pending     *)
(* request, in a handler, in the code or in a row of mcp_refresh_tokens.   *)
Places(l) ==
  {<<"request", l>> : x \in {l} \cap authRequests}
    \cup {<<"code", l>> : x \in {l} \cap authCodes}
    \cup {<<"handler", r>> : r \in {s \in Requests : pc[s] \in CallbackPCs \cup IssuePCs /\ login[s] = l}}
    \cup {<<"row", t>> : t \in {u \in refreshTokens : u[1] = l}}

(* That right is never duplicated: callbacks that are repeated, codes and  *)
(* refresh tokens that are presented twice or at once, and replies that    *)
(* are lost and retried never give a login two chains of tokens (the       *)
(* consume* functions, ConsumeMCPRefreshToken; "single-use" in SPEC.md     *)
(* 2.4).                                                                   *)
OneChainPerLogin == \A l \in Logins : \A x, y \in Places(l) : x = y

(* A refresh token that the client has received and not presented works    *)
(* until it expires, also after a restart (PruneExpiredMCPRefreshTokens;   *)
(* "Restart/redeploy behavior" in SPEC.md 2.4).                            *)
HeldTokenWorks == held \ (presented \cup expired) \subseteq refreshTokens

(* Whoever passes RequireBearer is a user with Airtable tokens, whatever   *)
(* failed on the way (the order of the steps of AirtableCallback).         *)
BearerHasAirtableToken ==
  \A t \in mcpTokens \cup refreshTokens : t[1] \in users \cap airtableTokens

-----------------------------------------------------------------------------
(* The chain of a login *)

(* Some handler is at one of these steps, for login l. *)
HandledAt(steps, l) == \E r \in Requests : pc[r] \in steps /\ login[r] = l

StageOf(l) ==
  IF client[l] = NoClient THEN "new"
  ELSE IF l \in authRequests \/ HandledAt(CallbackPCs, l) THEN "asked"
  ELSE IF l \in authCodes THEN "coded"
  ELSE IF HandledAt({"access"}, l) THEN "redeemed"
  ELSE IF HandledAt({"refresh"}, l) THEN "issued"
  ELSE IF \E t \in refreshTokens : t[1] = l THEN "kept"
  ELSE "over"

Chain == INSTANCE TokenChain WITH stage <- [l \in Logins |-> StageOf(l)], issued <- mcpTokens

(* Every login goes the way of TokenChain, whatever is repeated, lost or   *)
(* cut short: a code and each refresh token is redeemed once, and pairs    *)
(* are issued in order, none twice (the consume* functions, issueMCPToken).*)
ImplementsTokenChain == Chain!ChainSpec

(* Of the pairs of login l, those before n are among tokens. *)
IssuedBefore(tokens, l, n) == \A m \in 1..MaxPairs : <<l, m>> \in tokens <=> m < n

(* How many pairs have been issued follows from where the chain is. *)
NumbersInv ==
  /\ \A l \in Logins :
       client[l] = NoClient \/ l \in authRequests \cup authCodes \/ HandledAt(CallbackPCs, l)
         => IssuedBefore(mcpTokens, l, 1)
  /\ \A r \in Requests :
       /\ pc[r] = "access" => IssuedBefore(mcpTokens, login[r], pair[r])
       /\ pc[r] = "refresh" => IssuedBefore(mcpTokens, login[r], pair[r] + 1)
  /\ \A t \in refreshTokens : IssuedBefore(mcpTokens, t[1], t[2] + 1)
=============================================================================
