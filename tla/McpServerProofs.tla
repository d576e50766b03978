--------------------------- MODULE McpServerProofs ---------------------------
(***************************************************************************)
(* Theorems about McpServer, for any clients, logins, handlers, sessions   *)
(* and streams, and any heartbeat shorter than the idle time of a session. *)
(***************************************************************************)
EXTENDS McpServer, TLAPS

LEMMA AnyLoginIsLogin == AnyLogin \in Logins
BY LoginsAssumption DEF AnyLogin

-----------------------------------------------------------------------------
(* Type correctness of the OAuth server, by groups of variables *)

DbType ==
  /\ clients \subseteq Clients
  /\ users \subseteq Logins /\ airtableTokens \subseteq Logins
  /\ mcpTokens \subseteq Pairs /\ refreshTokens \subseteq Pairs /\ expired \subseteq Pairs

MemoryType ==
  /\ client \in [Logins -> Clients \cup {NoClient}]
  /\ authRequests \subseteq Logins /\ authCodes \subseteq Logins

HandlerType ==
  /\ pc \in [Requests -> PCs]
  /\ login \in [Requests -> Logins]
  /\ pair \in [Requests -> 1..MaxPairs]

ClientType == codes \subseteq Logins /\ held \subseteq Pairs /\ presented \subseteq held

LEMMA TypeParts == TypeOK <=> DbType /\ MemoryType /\ HandlerType /\ ClientType
BY DEF TypeOK, DbType, MemoryType, HandlerType, ClientType

LEMMA TypePartsNext == DbType' /\ MemoryType' /\ HandlerType' /\ ClientType' => TypeOK'
BY DEF TypeOK, DbType, MemoryType, HandlerType, ClientType

LEMMA InitType == Init => TypeOK
BY AnyLoginIsLogin, PairsAssumption
DEF Init, TypeOK, PCs, CallbackPCs, IssuePCs

LEMMA GotoType ==
  ASSUME HandlerType, NEW r \in Requests, NEW label \in PCs, Goto(r, label),
         UNCHANGED <<login, pair>>
  PROVE  HandlerType'
BY DEF HandlerType, Goto

LEMMA ReturnType ==
  ASSUME HandlerType, NEW r \in Requests, Return(r)
  PROVE  HandlerType'
BY AnyLoginIsLogin, PairsAssumption DEF HandlerType, Return, Goto, PCs

LEMMA ExecutedType ==
  ASSUME HandlerType, NEW r \in Requests, NEW next \in PCs, Executed(r, next)
  PROVE  HandlerType'
BY GotoType, ReturnType DEF Executed

LEMMA BeginType ==
  ASSUME HandlerType, NEW r \in Requests, NEW label \in PCs, NEW l \in Logins,
         NEW n \in 1..MaxPairs, Begin(r, label, l, n)
  PROVE  HandlerType'
BY DEF HandlerType, Begin, Goto

(* The pair a handler is about to issue is one of the pairs. *)
LEMMA HandlersPair ==
  ASSUME HandlerType, NEW r \in Requests
  PROVE  login[r] \in Logins /\ <<login[r], pair[r]>> \in Pairs
BY DEF HandlerType, Pairs

LEMMA HandleType ==
  ASSUME TypeOK, NEW r \in Requests, Handle(r)
  PROVE  TypeOK'
<1> USE TypeParts, TypePartsNext, HandlersPair DEF PCs, CallbackPCs, IssuePCs, dbVars, memoryVars,
        clientVars
<1>1. CASE Exchange(r)
  <2>1. HandlerType'
    BY <1>1, GotoType DEF Exchange
  <2>. QED
    BY <1>1, <2>1 DEF Exchange, DbType, MemoryType, ClientType
<1>2. CASE UpsertUser(r)
  <2>1. HandlerType'
    BY <1>2, ExecutedType DEF UpsertUser
  <2>. QED
    BY <1>2, <2>1 DEF UpsertUser, DbType, MemoryType, ClientType
<1>3. CASE PutAirtableToken(r)
  <2>1. HandlerType'
    BY <1>3, ExecutedType DEF PutAirtableToken
  <2>. QED
    BY <1>3, <2>1 DEF PutAirtableToken, DbType, MemoryType, ClientType
<1>4. CASE IssueCode(r)
  <2>1. HandlerType'
    BY <1>4, ReturnType DEF IssueCode
  <2>. QED
    BY <1>4, <2>1 DEF IssueCode, DbType, MemoryType, ClientType
<1>5. CASE PutMCPToken(r)
  <2>1. HandlerType'
    BY <1>5, ExecutedType DEF PutMCPToken
  <2>. QED
    BY <1>5, <2>1 DEF PutMCPToken, DbType, MemoryType, ClientType
<1>6. CASE PutMCPRefreshToken(r)
  <2>1. HandlerType'
    BY <1>6, ExecutedType DEF PutMCPRefreshToken
  <2>. QED
    BY <1>6, <2>1 DEF PutMCPRefreshToken, DbType, MemoryType, ClientType
<1>7. CASE Reply(r)
  <2>1. HandlerType'
    BY <1>7, ReturnType DEF Reply
  <2>. QED
    BY <1>7, <2>1 DEF Reply, DbType, MemoryType, ClientType
<1>8. CASE Fail(r)
  <2>1. HandlerType'
    BY <1>8, ReturnType DEF Fail
  <2>. QED
    BY <1>8, <2>1 DEF Fail, DbType, MemoryType, ClientType
<1>. QED
  BY <1>1, <1>2, <1>3, <1>4, <1>5, <1>6, <1>7, <1>8 DEF Handle

LEMMA CodeGrantType ==
  ASSUME TypeOK, NEW r \in Requests, NEW l \in Logins, NEW c \in Clients \cup {NoClient},
         NEW verified \in BOOLEAN, CodeGrant(r, l, c, verified)
  PROVE  TypeOK'
<1>1. HandlerType'
  <2>1. CASE Begin(r, "access", l, 1)
    BY <2>1, BeginType, TypeParts, PairsAssumption DEF PCs, IssuePCs
  <2>2. CASE UNCHANGED handlerVars
    BY <2>2, TypeParts DEF handlerVars, HandlerType
  <2>. QED
    BY <2>1, <2>2 DEF CodeGrant
<1>. QED
  BY <1>1, TypeParts, TypePartsNext
  DEF CodeGrant, DbType, MemoryType, ClientType, dbVars, clientVars

LEMMA RefreshGrantType ==
  ASSUME TypeOK, NEW r \in Requests, NEW l \in Logins, NEW n \in 1..MaxPairs,
         NEW c \in Clients \cup {NoClient}, RefreshGrant(r, l, n, c)
  PROVE  TypeOK'
<1>1. HandlerType'
  <2>1. n + 1 \in 1..MaxPairs /\ "access" \in PCs
    BY PairsAssumption DEF RefreshGrant, PCs, IssuePCs
  <2>. QED
    BY <2>1, BeginType, TypeParts DEF RefreshGrant, handlerVars, HandlerType
<1>. QED
  BY <1>1, TypeParts, TypePartsNext
  DEF RefreshGrant, DbType, MemoryType, ClientType, memoryVars

LEMMA StepType ==
  ASSUME TypeOK, Step
  PROVE  TypeOK'
<1> USE TypeParts, TypePartsNext DEF dbVars, memoryVars, handlerVars, clientVars
<1>1. ASSUME NEW c \in Clients, Register(c) PROVE TypeOK'
  BY <1>1 DEF Register, DbType, MemoryType, HandlerType, ClientType
<1>2. ASSUME NEW c \in Clients, NEW l \in Logins, Authorize(c, l) PROVE TypeOK'
  BY <1>2 DEF Authorize, DbType, MemoryType, HandlerType, ClientType
<1>3. ASSUME NEW r \in Requests, Handle(r) PROVE TypeOK'
  BY <1>3, HandleType
<1>4. ASSUME NEW r \in Requests, Grant(r) PROVE TypeOK'
  BY <1>4, CodeGrantType, RefreshGrantType DEF Grant
<1>5. ASSUME NEW r \in Requests, NEW l \in Logins, Callback(r, l) PROVE TypeOK'
  <2>1. HandlerType'
    BY <1>5, BeginType, PairsAssumption DEF Callback, PCs, CallbackPCs
  <2>. QED
    BY <1>5, <2>1 DEF Callback, DbType, MemoryType, ClientType
<1>6. ASSUME NEW l \in Logins, ExpireRequest(l) PROVE TypeOK'
  BY <1>6 DEF ExpireRequest, DbType, MemoryType, HandlerType, ClientType
<1>7. ASSUME NEW t \in Pairs, ExpireToken(t) PROVE TypeOK'
  BY <1>7 DEF ExpireToken, DbType, MemoryType, HandlerType, ClientType
<1>8. ASSUME PruneExpired PROVE TypeOK'
  BY <1>8 DEF PruneExpired, DbType, MemoryType, HandlerType, ClientType
<1>. QED
  BY <1>1, <1>2, <1>3, <1>4, <1>5, <1>6, <1>7, <1>8 DEF Step

LEMMA CrashType ==
  ASSUME TypeOK, Crash
  PROVE  TypeOK'
BY AnyLoginIsLogin, PairsAssumption
DEF TypeOK, Crash, PCs, dbVars, clientVars

-----------------------------------------------------------------------------
(* A held token works *)

(* The row of a pair is there before the pair is sent to the client.       *)
HeldInv ==
  /\ HeldTokenWorks
  /\ \A r \in Requests :
       pc[r] = "reply" => <<login[r], pair[r]>> \in refreshTokens \cup expired \cup presented

LEMMA InitHeld == Init => HeldInv
BY DEF Init, HeldInv, HeldTokenWorks

(* A step that leaves the tokens alone and sends no handler to its reply.  *)
LEMMA HeldKept ==
  ASSUME HeldInv, UNCHANGED <<held, presented, expired, refreshTokens>>,
         \A r \in Requests : pc'[r] = "reply" =>
           pc[r] = "reply" /\ login'[r] = login[r] /\ pair'[r] = pair[r]
  PROVE  HeldInv'
BY DEF HeldInv, HeldTokenWorks

LEMMA HandleHeld ==
  ASSUME TypeOK, HeldInv, NEW r \in Requests, Handle(r)
  PROVE  HeldInv'
<1>1. HandlerType
  BY TypeParts
<1> USE <1>1 DEF HandlerType, Executed, Return, Goto
<1>2. CASE Exchange(r)
  BY <1>2, HeldKept DEF Exchange, dbVars, clientVars
<1>3. CASE UpsertUser(r)
  BY <1>3, HeldKept DEF UpsertUser, clientVars
<1>4. CASE PutAirtableToken(r)
  BY <1>4, HeldKept DEF PutAirtableToken, clientVars
<1>5. CASE IssueCode(r)
  BY <1>5, HeldKept DEF IssueCode, dbVars
<1>6. CASE PutMCPToken(r)
  BY <1>6, HeldKept DEF PutMCPToken, clientVars
<1>7. CASE PutMCPRefreshToken(r)
  BY <1>7 DEF PutMCPRefreshToken, clientVars, HeldInv, HeldTokenWorks
<1>8. CASE Reply(r)
  BY <1>8 DEF Reply, dbVars, HeldInv, HeldTokenWorks
<1>9. CASE Fail(r)
  BY <1>9, HeldKept DEF Fail, dbVars, clientVars
<1>. QED
  BY <1>2, <1>3, <1>4, <1>5, <1>6, <1>7, <1>8, <1>9 DEF Handle

LEMMA GrantHeld ==
  ASSUME TypeOK, HeldInv, NEW r \in Requests, Grant(r)
  PROVE  HeldInv'
<1>1. HandlerType
  BY TypeParts
<1>2. ASSUME NEW l \in Logins, NEW n \in 1..MaxPairs, NEW label \in {"access"},
             Begin(r, label, l, n) \/ UNCHANGED handlerVars,
             NEW s \in Requests, pc'[s] = "reply"
      PROVE  pc[s] = "reply" /\ login'[s] = login[s] /\ pair'[s] = pair[s]
  BY <1>1, <1>2 DEF HandlerType, Begin, Goto, handlerVars
<1>3. ASSUME NEW l \in Logins, NEW c \in Clients \cup {NoClient}, NEW verified \in BOOLEAN,
             CodeGrant(r, l, c, verified)
      PROVE  HeldInv'
  <2>1. Begin(r, "access", l, 1) \/ UNCHANGED handlerVars
    BY <1>3 DEF CodeGrant
  <2>. QED
    BY <1>2, <1>3, <2>1, HeldKept, PairsAssumption DEF CodeGrant, dbVars, clientVars
<1>4. ASSUME NEW l \in Logins, NEW n \in 1..MaxPairs, NEW c \in Clients \cup {NoClient},
             RefreshGrant(r, l, n, c)
      PROVE  HeldInv'
  <2>1. Begin(r, "access", l, n + 1) \/ UNCHANGED handlerVars
    BY <1>4 DEF RefreshGrant
  <2>2. n + 1 \in 1..MaxPairs
    BY <1>4, PairsAssumption DEF RefreshGrant
  <2>3. \A s \in Requests : pc'[s] = "reply" =>
          pc[s] = "reply" /\ login'[s] = login[s] /\ pair'[s] = pair[s]
    BY <1>2, <2>1, <2>2
  <2>4. refreshTokens \subseteq refreshTokens' \cup presented'
    BY <1>4 DEF RefreshGrant
  <2>. QED
    BY <1>4, <2>3, <2>4 DEF RefreshGrant, HeldInv, HeldTokenWorks
<1>. QED
  BY <1>3, <1>4 DEF Grant

LEMMA StepHeld ==
  ASSUME TypeOK, HeldInv, Step
  PROVE  HeldInv'
<1>1. ASSUME NEW c \in Clients, Register(c) PROVE HeldInv'
  BY <1>1, HeldKept DEF Register, handlerVars, clientVars
<1>2. ASSUME NEW c \in Clients, NEW l \in Logins, Authorize(c, l) PROVE HeldInv'
  BY <1>2, HeldKept DEF Authorize, dbVars, handlerVars, clientVars
<1>3. ASSUME NEW r \in Requests, NEW l \in Logins, Callback(r, l) PROVE HeldInv'
  BY <1>3, HeldKept, TypeParts DEF Callback, Begin, Goto, HandlerType, dbVars, clientVars
<1>4. ASSUME NEW l \in Logins, ExpireRequest(l) PROVE HeldInv'
  BY <1>4, HeldKept DEF ExpireRequest, dbVars, handlerVars, clientVars
<1>5. ASSUME NEW t \in Pairs, ExpireToken(t) PROVE HeldInv'
  BY <1>5 DEF ExpireToken, HeldInv, HeldTokenWorks, dbVars, handlerVars, clientVars
<1>6. ASSUME PruneExpired PROVE HeldInv'
  BY <1>6 DEF PruneExpired, HeldInv, HeldTokenWorks, handlerVars, clientVars
<1>. QED
  BY <1>1, <1>2, <1>3, <1>4, <1>5, <1>6, HandleHeld, GrantHeld DEF Step

LEMMA CrashHeld ==
  ASSUME HeldInv, Crash
  PROVE  HeldInv'
BY HeldKept DEF Crash, dbVars, clientVars

-----------------------------------------------------------------------------
(* Whoever is let in has Airtable tokens *)

Known == users \cap airtableTokens

(* A handler past PutAirtableToken, a code and a token each stand for a    *)
(* login whose user and Airtable tokens are stored.                        *)
KnownInv ==
  /\ \A r \in Requests :
       /\ pc[r] = "airtable" => login[r] \in users
       /\ pc[r] \in {"code"} \cup IssuePCs => login[r] \in Known
  /\ authCodes \subseteq Known
  /\ BearerHasAirtableToken

LEMMA InitKnown == Init => KnownInv
BY DEF Init, KnownInv, BearerHasAirtableToken, IssuePCs

(* Users and their Airtable tokens are never deleted. *)
LEMMA StepGrowsKnown ==
  ASSUME Step
  PROVE  users \subseteq users' /\ Known \subseteq Known'
BY DEF Step, Register, Authorize, Handle, Grant, Callback, ExpireRequest, ExpireToken, PruneExpired,
       Exchange, UpsertUser, PutAirtableToken, IssueCode, PutMCPToken, PutMCPRefreshToken, Reply,
       Fail, CodeGrant, RefreshGrant, Known, dbVars

LEMMA HandleKnown ==
  ASSUME TypeOK, KnownInv, NEW r \in Requests, Handle(r)
  PROVE  KnownInv'
<1>1. HandlerType
  BY TypeParts
<1> USE <1>1
    DEF HandlerType, Executed, Return, Goto, KnownInv, BearerHasAirtableToken, IssuePCs, Known,
        dbVars, memoryVars
<1>2. CASE Exchange(r)
  BY <1>2 DEF Exchange
<1>3. CASE UpsertUser(r)
  BY <1>3 DEF UpsertUser
<1>4. CASE PutAirtableToken(r)
  BY <1>4 DEF PutAirtableToken
<1>5. CASE IssueCode(r)
  BY <1>5 DEF IssueCode
<1>6. CASE PutMCPToken(r)
  BY <1>6 DEF PutMCPToken
<1>7. CASE PutMCPRefreshToken(r)
  BY <1>7 DEF PutMCPRefreshToken
<1>8. CASE Reply(r)
  BY <1>8 DEF Reply
<1>9. CASE Fail(r)
  BY <1>9 DEF Fail
<1>. QED
  BY <1>2, <1>3, <1>4, <1>5, <1>6, <1>7, <1>8, <1>9 DEF Handle

LEMMA GrantKnown ==
  ASSUME TypeOK, KnownInv, NEW r \in Requests, Grant(r)
  PROVE  KnownInv'
<1>1. HandlerType
  BY TypeParts
<1> USE <1>1
    DEF HandlerType, Begin, Goto, KnownInv, BearerHasAirtableToken, IssuePCs, Known, handlerVars,
        dbVars, memoryVars
<1>2. ASSUME NEW l \in Logins, NEW c \in Clients \cup {NoClient}, NEW verified \in BOOLEAN,
             CodeGrant(r, l, c, verified)
      PROVE  KnownInv'
  BY <1>2 DEF CodeGrant
<1>3. ASSUME NEW l \in Logins, NEW n \in 1..MaxPairs, NEW c \in Clients \cup {NoClient},
             RefreshGrant(r, l, n, c)
      PROVE  KnownInv'
  BY <1>3 DEF RefreshGrant
<1>. QED
  BY <1>2, <1>3 DEF Grant

LEMMA StepKnown ==
  ASSUME TypeOK, KnownInv, Step
  PROVE  KnownInv'
<1> USE DEF KnownInv, BearerHasAirtableToken, Known, dbVars, memoryVars, handlerVars
<1>1. ASSUME NEW c \in Clients, Register(c) PROVE KnownInv'
  BY <1>1 DEF Register
<1>2. ASSUME NEW c \in Clients, NEW l \in Logins, Authorize(c, l) PROVE KnownInv'
  BY <1>2 DEF Authorize
<1>3. ASSUME NEW r \in Requests, NEW l \in Logins, Callback(r, l) PROVE KnownInv'
  BY <1>3, TypeParts DEF Callback, Begin, Goto, HandlerType, IssuePCs
<1>4. ASSUME NEW l \in Logins, ExpireRequest(l) PROVE KnownInv'
  BY <1>4 DEF ExpireRequest
<1>5. ASSUME NEW t \in Pairs, ExpireToken(t) PROVE KnownInv'
  BY <1>5 DEF ExpireToken
<1>6. ASSUME PruneExpired PROVE KnownInv'
  BY <1>6 DEF PruneExpired
<1>. QED
  BY <1>1, <1>2, <1>3, <1>4, <1>5, <1>6, HandleKnown, GrantKnown DEF Step

LEMMA CrashKnown ==
  ASSUME KnownInv, Crash
  PROVE  KnownInv' /\ users' = users /\ Known' = Known
BY DEF KnownInv, BearerHasAirtableToken, Known, Crash, IssuePCs, dbVars

-----------------------------------------------------------------------------
(* The sessions *)

LEMMA HeartbeatType == Heartbeat \in Nat /\ IdleTTL \in Nat /\ 0 < Heartbeat /\ Heartbeat < IdleTTL
BY HeartbeatAssumption

(* Besides, only an id that has been given out is in the table. *)
SessionsInv ==
  /\ Sessions!StreamInv
  /\ \A s \in SessionIds : owner[s] # NoUser => s \in used

LEMMA InitSessions == Sessions!Init => Sessions!TypeOK /\ SessionsInv
BY HeartbeatType DEF Sessions!Init, Sessions!TypeOK, SessionsInv, Sessions!StreamInv

(* The table after a call that prunes it. *)
LEMMA TableType ==
  ASSUME Sessions!TypeOK, NEW kept, NEW seen, Sessions!Table(kept, seen)
  PROVE  owner' \in [SessionIds -> Logins \cup {NoUser}] /\ idle' \in [SessionIds -> 0..IdleTTL]
BY HeartbeatType DEF Sessions!TypeOK, Sessions!Table

(* A session that a stream keeps is never pruned: it is younger than the   *)
(* last heartbeat.                                                         *)
LEMMA StreamedIsKept ==
  ASSUME Sessions!TypeOK, SessionsInv, NEW g \in Streams,
         stream[g] # NoSession, stream[g] \notin deleted
  PROVE  /\ stream[g] \in Sessions!Kept
         /\ owner[stream[g]] = viewer[g] /\ idle[stream[g]] <= beat[g]
BY HeartbeatType DEF Sessions!TypeOK, SessionsInv, Sessions!StreamInv, Sessions!Kept

(* A call that keeps every session in the table keeps those of streams.    *)
LEMMA TableStreams ==
  ASSUME Sessions!TypeOK, SessionsInv, NEW seen, Sessions!Table(Sessions!Kept, seen),
         UNCHANGED <<used, stream, viewer, deleted>>, beat' = beat
  PROVE  SessionsInv'
<1>0. \A s \in SessionIds : owner'[s] # NoUser => s \in used'
  BY DEF SessionsInv, Sessions!Table
<1> SUFFICES ASSUME NEW g \in Streams, stream[g] # NoSession, stream[g] \notin deleted
             PROVE  owner'[stream[g]] = viewer[g] /\ idle'[stream[g]] <= beat[g]
  BY <1>0 DEF SessionsInv, Sessions!StreamInv
<1>1. stream[g] \in SessionIds /\ beat[g] \in 0..Heartbeat
  BY DEF Sessions!TypeOK
<1>. QED
  BY <1>1, StreamedIsKept, HeartbeatType DEF Sessions!Table

LEMMA RequestSessions ==
  ASSUME Sessions!TypeOK, SessionsInv, NEW u \in Logins, Sessions!Request(u)
  PROVE  Sessions!TypeOK' /\ SessionsInv'
<1>1. ASSUME NEW s \in SessionIds, Sessions!Initialize(s, u)
      PROVE  Sessions!TypeOK' /\ SessionsInv'
  <2>1. Sessions!TypeOK'
    BY <1>1, HeartbeatType DEF Sessions!Initialize, Sessions!TypeOK, Sessions!streamVars
  <2>2. ASSUME NEW g \in Streams, stream[g] # NoSession, stream[g] \notin deleted
        PROVE  owner'[stream[g]] = viewer[g] /\ idle'[stream[g]] <= beat[g]
    <3>1. stream[g] \in SessionIds \ {s}
      BY <1>1, <2>2, SessionsAssumption
      DEF SessionsInv, Sessions!StreamInv, Sessions!Initialize, Sessions!TypeOK
    <3>. QED
      BY <1>1, <2>2, <3>1, StreamedIsKept DEF Sessions!Initialize
  <2>3. \A t \in SessionIds : owner'[t] # NoUser => t \in used'
    BY <1>1 DEF SessionsInv, Sessions!Initialize, Sessions!Kept
  <2>4. SessionsInv'
    BY <1>1, <2>2, <2>3 DEF SessionsInv, Sessions!StreamInv, Sessions!Initialize, Sessions!streamVars
  <2>. QED
    BY <2>1, <2>4
<1>2. ASSUME NEW s \in SessionIds, Sessions!Call(s, u)
      PROVE  Sessions!TypeOK' /\ SessionsInv'
  <2>1. Sessions!TypeOK'
    BY <1>2, TableType DEF Sessions!Call, Sessions!Touch, Sessions!TypeOK, Sessions!streamVars
  <2>. QED
    BY <1>2, <2>1, TableStreams DEF Sessions!Call, Sessions!Touch, Sessions!streamVars
<1>3. ASSUME NEW s \in SessionIds, Sessions!Delete(s, u)
      PROVE  Sessions!TypeOK' /\ SessionsInv'
  <2>1. CASE Sessions!Own(s, u)
    <3>1. /\ Sessions!Table(Sessions!Kept \ {s}, {})
          /\ deleted' = deleted \cup {s}
          /\ UNCHANGED <<used, stream, viewer, beat>>
      BY <1>3, <2>1 DEF Sessions!Delete, Sessions!streamVars
    <3>2. s \in used
      BY <2>1 DEF Sessions!Own, Sessions!Kept, SessionsInv
    <3>3. Sessions!TypeOK'
      BY <3>1, <3>2, TableType DEF Sessions!TypeOK
    <3>4. ASSUME NEW g \in Streams, stream[g] # NoSession, stream[g] \notin deleted \cup {s}
          PROVE  owner'[stream[g]] = viewer[g] /\ idle'[stream[g]] <= beat[g]
      BY <3>1, <3>4, StreamedIsKept DEF Sessions!Table, Sessions!TypeOK
    <3>5. \A t \in SessionIds : owner'[t] # NoUser => t \in used'
      BY <3>1 DEF SessionsInv, Sessions!Table
    <3>. QED
      BY <3>1, <3>3, <3>4, <3>5 DEF SessionsInv, Sessions!StreamInv
  <2>2. CASE ~Sessions!Own(s, u)
    <3>1. Sessions!TypeOK'
      BY <1>3, <2>2, TableType DEF Sessions!Delete, Sessions!TypeOK, Sessions!streamVars
    <3>. QED
      BY <1>3, <2>2, <3>1, TableStreams DEF Sessions!Delete, Sessions!streamVars
  <2>. QED
    BY <2>1, <2>2
<1>4. ASSUME NEW s \in SessionIds, NEW g \in Streams, Sessions!Open(g, s, u)
      PROVE  Sessions!TypeOK' /\ SessionsInv'
  <2>1. Sessions!Table(Sessions!Kept, {s})
    BY <1>4 DEF Sessions!Open, Sessions!Touch
  <2>2. Sessions!TypeOK'
    BY <1>4, <2>1, TableType, HeartbeatType DEF Sessions!Open, Sessions!TypeOK
  <2>3. ASSUME NEW h \in Streams, stream[h] # NoSession, stream[h] \notin deleted
        PROVE  owner'[stream[h]] = viewer[h] /\ idle'[stream[h]] <= beat[h]
    BY <2>1, <2>3, StreamedIsKept DEF Sessions!Table, Sessions!TypeOK
  <2>4. s \in used /\ owner'[s] = u /\ idle'[s] = 0
    BY <1>4, <2>1 DEF Sessions!Open, Sessions!Own, Sessions!Kept, Sessions!Table, SessionsInv
  <2>5. u # NoUser /\ \A t \in SessionIds : owner'[t] # NoUser => t \in used'
    BY <1>4, <2>1, SessionsAssumption DEF SessionsInv, Sessions!Table, Sessions!Open
  <2>6. SessionsInv'
    BY <1>4, <2>3, <2>4, <2>5 DEF SessionsInv, Sessions!StreamInv, Sessions!Open, Sessions!TypeOK
  <2>. QED
    BY <2>2, <2>6
<1>. QED
  BY <1>1, <1>2, <1>3, <1>4 DEF Sessions!Request

LEMMA BackgroundSessions ==
  ASSUME Sessions!TypeOK, SessionsInv, Sessions!Background
  PROVE  Sessions!TypeOK' /\ SessionsInv'
<1>1. ASSUME NEW g \in Streams, Sessions!Beat(g)
      PROVE  Sessions!TypeOK' /\ SessionsInv'
  <2>1. stream[g] # NoSession /\ stream[g] \in SessionIds
    BY <1>1 DEF Sessions!Beat, Sessions!TypeOK
  <2>2. Sessions!Table(Sessions!Kept, IF Sessions!Own(stream[g], viewer[g]) THEN {stream[g]} ELSE {})
    BY <1>1 DEF Sessions!Beat, Sessions!Touch
  <2>3. Sessions!TypeOK'
    BY <1>1, <2>2, TableType, HeartbeatType DEF Sessions!Beat, Sessions!TypeOK
  <2>4. ASSUME NEW h \in Streams, stream[h] # NoSession, stream[h] \notin deleted
        PROVE  owner'[stream[h]] = viewer[h] /\ idle'[stream[h]] <= beat'[h]
    <3>1. /\ stream[h] \in Sessions!Kept /\ stream[h] \in SessionIds
          /\ owner[stream[h]] = viewer[h] /\ idle[stream[h]] <= beat[h]
      BY <2>4, StreamedIsKept DEF Sessions!TypeOK
    <3>2. owner'[stream[h]] = viewer[h]
      BY <2>2, <3>1 DEF Sessions!Table
    <3>3. CASE h = g
      <4>1. Sessions!Own(stream[g], viewer[g])
        BY <3>1, <3>3 DEF Sessions!Own
      <4>2. idle'[stream[g]] = 0 /\ beat'[g] = 0
        BY <1>1, <2>1, <2>2, <4>1 DEF Sessions!Table, Sessions!Beat, Sessions!TypeOK
      <4>. QED
        BY <3>2, <3>3, <4>2
    <3>4. CASE h # g
      <4>1. beat'[h] = beat[h] /\ beat[h] \in Nat
        BY <1>1, <3>4, HeartbeatType DEF Sessions!Beat, Sessions!TypeOK
      <4>2. idle'[stream[h]] \in {idle[stream[h]], 0}
        BY <2>2, <3>1 DEF Sessions!Table
      <4>. QED
        BY <3>1, <3>2, <4>1, <4>2
    <3>. QED
      BY <3>3, <3>4
  <2>5. \A t \in SessionIds : owner'[t] # NoUser => t \in used'
    BY <1>1, <2>2 DEF SessionsInv, Sessions!Table, Sessions!Beat
  <2>. QED
    BY <1>1, <2>3, <2>4, <2>5 DEF SessionsInv, Sessions!StreamInv, Sessions!Beat
<1>2. ASSUME NEW g \in Streams, Sessions!Close(g)
      PROVE  Sessions!TypeOK' /\ SessionsInv'
  <2>1. Sessions!TypeOK'
    BY <1>2, HeartbeatType DEF Sessions!Close, Sessions!TypeOK
  <2>. QED
    BY <1>2, <2>1 DEF Sessions!Close, Sessions!TypeOK, SessionsInv, Sessions!StreamInv
<1>3. CASE Sessions!PruneExpired
  <2>1. Sessions!TypeOK'
    BY <1>3, TableType DEF Sessions!PruneExpired, Sessions!TypeOK, Sessions!streamVars
  <2>. QED
    BY <1>3, <2>1, TableStreams DEF Sessions!PruneExpired, Sessions!streamVars
<1>4. CASE Sessions!Tick
  <2>1. Sessions!TypeOK'
    BY <1>4, HeartbeatType DEF Sessions!Tick, Sessions!TypeOK
  <2>2. ASSUME NEW g \in Streams, stream[g] # NoSession, stream[g] \notin deleted
        PROVE  owner'[stream[g]] = viewer[g] /\ idle'[stream[g]] <= beat'[g]
    <3>1. /\ stream[g] \in SessionIds /\ beat[g] \in Nat /\ idle[stream[g]] \in Nat
          /\ owner[stream[g]] = viewer[g] /\ idle[stream[g]] <= beat[g]
      BY <2>2, StreamedIsKept, HeartbeatType DEF Sessions!TypeOK
    <3>2. beat'[g] = beat[g] + 1
      BY <1>4, <2>2 DEF Sessions!Tick
    <3>3. idle'[stream[g]] <= idle[stream[g]] + 1
      BY <1>4, <3>1 DEF Sessions!Tick
    <3>4. idle'[stream[g]] \in Nat
      BY <2>1, <3>1, HeartbeatType DEF Sessions!TypeOK
    <3>. QED
      BY <1>4, <3>1, <3>2, <3>3, <3>4 DEF Sessions!Tick
  <2>. QED
    BY <1>4, <2>1, <2>2 DEF Sessions!Tick, SessionsInv, Sessions!StreamInv
<1>. QED
  BY <1>1, <1>2, <1>3, <1>4 DEF Sessions!Background

LEMMA CrashSessions ==
  ASSUME Sessions!TypeOK, Sessions!Crash
  PROVE  Sessions!TypeOK' /\ SessionsInv'
BY HeartbeatType DEF Sessions!Crash, Sessions!TypeOK, SessionsInv, Sessions!StreamInv

(* A session belongs to the user who opened it, who was let in. *)
OwnersKnown == \A s \in SessionIds : owner[s] # NoUser => owner[s] \in Known

LEMMA RequestOwners ==
  ASSUME OwnersKnown, KnownInv, UNCHANGED vars, NEW u \in Logins, RequireBearer(u), Sessions!Request(u)
  PROVE  OwnersKnown'
<1>1. u \in Known /\ Known' = Known
  BY DEF RequireBearer, KnownInv, BearerHasAirtableToken, Known, vars, dbVars
<1>. QED
  BY <1>1 DEF OwnersKnown, Sessions!Request, Sessions!Initialize, Sessions!Call, Sessions!Delete,
              Sessions!Open, Sessions!Touch, Sessions!Table

LEMMA BackgroundOwners ==
  ASSUME OwnersKnown, UNCHANGED vars, Sessions!Background
  PROVE  OwnersKnown'
BY DEF OwnersKnown, Known, vars, dbVars, Sessions!Background, Sessions!Beat, Sessions!Close,
       Sessions!PruneExpired, Sessions!Tick, Sessions!Touch, Sessions!Table

-----------------------------------------------------------------------------
(* One chain of tokens per login *)

(* Handler r will issue the next pair of tokens of login l. *)
Carries(r, l) == pc[r] \in CallbackPCs \cup IssuePCs /\ login[r] = l

(* The right to the next pair, of a login that has begun, is in one place. *)
ChainOf(l) ==
  /\ client[l] = NoClient => l \notin authRequests
  /\ l \in authRequests \cup authCodes =>
       /\ l \notin authRequests \cap authCodes
       /\ \A r \in Requests : ~Carries(r, l)
       /\ \A t \in refreshTokens : t[1] # l
       /\ client[l] # NoClient
  /\ \A r \in Requests : Carries(r, l) =>
       /\ \A s \in Requests : Carries(s, l) => s = r
       /\ \A t \in refreshTokens : t[1] # l
       /\ client[l] # NoClient
  /\ \A t \in refreshTokens : t[1] = l =>
       /\ \A u \in refreshTokens : u[1] = l => u = t
       /\ client[l] # NoClient

ChainInv == \A l \in Logins : ChainOf(l)

LEMMA InitChain == Init => ChainInv
BY DEF Init, ChainInv, ChainOf, Carries, CallbackPCs, IssuePCs

(* What the chains say, of any two places. *)
LEMMA ChainsApart ==
  ASSUME ChainInv
  PROVE  OneChainPerLogin
<1> SUFFICES ASSUME NEW l \in Logins, NEW x \in Places(l), NEW y \in Places(l)
             PROVE  x = y
  BY DEF OneChainPerLogin
<1>1. ASSUME NEW z \in Places(l)
      PROVE  \/ z = <<"request", l>> /\ l \in authRequests
             \/ z = <<"code", l>> /\ l \in authCodes
             \/ \E r \in Requests : z = <<"handler", r>> /\ Carries(r, l)
             \/ \E t \in refreshTokens : z = <<"row", t>> /\ t[1] = l
  BY <1>1 DEF Places, Carries
<1>2. ChainOf(l)
  BY DEF ChainInv
<1>3. CASE l \in authRequests
  BY <1>1, <1>2, <1>3 DEF ChainOf
<1>4. CASE l \in authCodes
  BY <1>1, <1>2, <1>4 DEF ChainOf
<1>5. CASE \E r \in Requests : Carries(r, l)
  BY <1>1, <1>2, <1>5 DEF ChainOf
<1>. QED
  BY <1>1, <1>2, <1>3, <1>4, <1>5 DEF ChainOf

LEMMA HandleChain ==
  ASSUME TypeOK, ChainInv, NEW r \in Requests, Handle(r)
  PROVE  ChainInv'
<1>1. HandlerType
  BY TypeParts
<1> USE <1>1
    DEF HandlerType, Executed, Return, Goto, ChainInv, ChainOf, Carries, CallbackPCs, IssuePCs,
        dbVars, memoryVars
<1>2. CASE Exchange(r)
  BY <1>2 DEF Exchange
<1>3. CASE UpsertUser(r)
  BY <1>3 DEF UpsertUser
<1>4. CASE PutAirtableToken(r)
  BY <1>4 DEF PutAirtableToken
<1>5. CASE IssueCode(r)
  BY <1>5 DEF IssueCode
<1>6. CASE PutMCPToken(r)
  BY <1>6 DEF PutMCPToken
<1>7. CASE PutMCPRefreshToken(r)
  BY <1>7 DEF PutMCPRefreshToken
<1>8. CASE Reply(r)
  BY <1>8 DEF Reply
<1>9. CASE Fail(r)
  BY <1>9 DEF Fail
<1>. QED
  BY <1>2, <1>3, <1>4, <1>5, <1>6, <1>7, <1>8, <1>9 DEF Handle

LEMMA GrantChain ==
  ASSUME TypeOK, ChainInv, NEW r \in Requests, Grant(r)
  PROVE  ChainInv'
<1>1. HandlerType /\ DbType
  BY TypeParts
<1> USE <1>1
    DEF HandlerType, DbType, Pairs, Begin, Goto, ChainInv, ChainOf, Carries, CallbackPCs, IssuePCs,
        handlerVars, dbVars, memoryVars
<1>2. ASSUME NEW l \in Logins, NEW c \in Clients \cup {NoClient}, NEW verified \in BOOLEAN,
             CodeGrant(r, l, c, verified)
      PROVE  ChainInv'
  BY <1>2 DEF CodeGrant
<1>3. ASSUME NEW l \in Logins, NEW n \in 1..MaxPairs, NEW c \in Clients \cup {NoClient},
             RefreshGrant(r, l, n, c)
      PROVE  ChainInv'
  BY <1>3 DEF RefreshGrant
<1>. QED
  BY <1>2, <1>3 DEF Grant

LEMMA StepChain ==
  ASSUME TypeOK, ChainInv, Step
  PROVE  ChainInv'
<1>1. MemoryType /\ HandlerType
  BY TypeParts
<1> USE <1>1
    DEF MemoryType, HandlerType, ChainInv, ChainOf, Carries, CallbackPCs, IssuePCs, dbVars,
        memoryVars, handlerVars
<1>2. ASSUME NEW c \in Clients, Register(c) PROVE ChainInv'
  BY <1>2 DEF Register
<1>3. ASSUME NEW c \in Clients, NEW l \in Logins, Authorize(c, l) PROVE ChainInv'
  BY <1>3, ClientsAssumption DEF Authorize
<1>4. ASSUME NEW r \in Requests, NEW l \in Logins, Callback(r, l) PROVE ChainInv'
  BY <1>4 DEF Callback, Begin, Goto
<1>5. ASSUME NEW l \in Logins, ExpireRequest(l) PROVE ChainInv'
  BY <1>5 DEF ExpireRequest
<1>6. ASSUME NEW t \in Pairs, ExpireToken(t) PROVE ChainInv'
  BY <1>6 DEF ExpireToken
<1>7. ASSUME PruneExpired PROVE ChainInv'
  BY <1>7 DEF PruneExpired
<1>. QED
  BY <1>2, <1>3, <1>4, <1>5, <1>6, <1>7, HandleChain, GrantChain DEF Step

LEMMA CrashChain ==
  ASSUME ChainInv, Crash
  PROVE  ChainInv'
BY DEF ChainInv, ChainOf, Carries, Crash, CallbackPCs, IssuePCs, dbVars

-----------------------------------------------------------------------------
(* The two halves together *)

ServerInv ==
  /\ ServerTypeOK
  /\ HeldInv
  /\ KnownInv /\ OwnersKnown
  /\ ChainInv
  /\ SessionsInv

LEMMA InitServer == ServerInit => ServerInv
<1>1. ASSUME ServerInit PROVE OwnersKnown
  BY <1>1 DEF ServerInit, Sessions!Init, OwnersKnown
<1>. QED
  BY <1>1, InitType, InitHeld, InitKnown, InitChain, InitSessions
  DEF ServerInit, ServerInv, ServerTypeOK

(* What does not touch one half keeps what is known of it. *)
LEMMA UnchangedOAuth ==
  ASSUME ServerInv, UNCHANGED vars
  PROVE  TypeOK' /\ HeldInv' /\ KnownInv' /\ ChainInv'
<1> USE DEF ServerInv, ServerTypeOK, vars, dbVars, memoryVars, handlerVars, clientVars
<1>1. TypeOK' /\ HeldInv'
  BY DEF TypeOK, HeldInv, HeldTokenWorks
<1>2. KnownInv'
  BY DEF KnownInv, Known, BearerHasAirtableToken
<1>3. ChainInv'
  BY DEF ChainInv, ChainOf, Carries
<1>. QED
  BY <1>1, <1>2, <1>3

LEMMA UnchangedSessions ==
  ASSUME ServerInv, UNCHANGED sessionVars, Known \subseteq Known'
  PROVE  Sessions!TypeOK' /\ SessionsInv' /\ OwnersKnown'
BY DEF ServerInv, ServerTypeOK, sessionVars, Sessions!TypeOK, SessionsInv, Sessions!StreamInv,
       OwnersKnown

LEMMA NextServer == ServerInv /\ [ServerNext]_serverVars => ServerInv'
<1> SUFFICES ASSUME ServerInv, [ServerNext]_serverVars PROVE ServerInv'
  OBVIOUS
<1>1. TypeOK /\ HeldInv /\ KnownInv /\ OwnersKnown /\ ChainInv /\ Sessions!TypeOK /\ SessionsInv
  BY DEF ServerInv, ServerTypeOK
<1>2. CASE Step /\ UNCHANGED sessionVars
  <2>1. Known \subseteq Known'
    BY <1>2, StepGrowsKnown
  <2>. QED
    BY <1>1, <1>2, <2>1, StepType, StepHeld, StepKnown, StepChain, UnchangedSessions
    DEF ServerInv, ServerTypeOK
<1>3. ASSUME NEW u \in Logins, RequireBearer(u), Sessions!Request(u), UNCHANGED vars
      PROVE  ServerInv'
  BY <1>1, <1>3, RequestSessions, RequestOwners, UnchangedOAuth DEF ServerInv, ServerTypeOK
<1>4. CASE Sessions!Background /\ UNCHANGED vars
  BY <1>1, <1>4, BackgroundSessions, BackgroundOwners, UnchangedOAuth DEF ServerInv, ServerTypeOK
<1>5. CASE Crash /\ Sessions!Crash
  <2>1. OwnersKnown'
    BY <1>5 DEF Sessions!Crash, OwnersKnown
  <2>. QED
    BY <1>1, <1>5, <2>1, CrashType, CrashHeld, CrashKnown, CrashChain, CrashSessions
    DEF ServerInv, ServerTypeOK
<1>6. CASE UNCHANGED serverVars
  <2>1. UNCHANGED vars /\ UNCHANGED sessionVars /\ Known' = Known
    BY <1>6 DEF serverVars, vars, dbVars, Known
  <2>. QED
    BY <2>1, UnchangedOAuth, UnchangedSessions DEF ServerInv, ServerTypeOK
<1>. QED
  BY <1>2, <1>3, <1>4, <1>5, <1>6 DEF ServerNext

(* Every reachable state satisfies the inductive invariant. *)
THEOREM ServerInvariant == ServerSpec => []ServerInv
BY InitServer, NextServer, PTL DEF ServerSpec

(* Type correctness: in particular a handler only ever issues pairs of the *)
(* login it works for, and no session or stream grows older than the time  *)
(* after which it is pruned or beats.                                      *)
THEOREM TypeCorrect == ServerSpec => []ServerTypeOK
<1>1. ServerInv => ServerTypeOK
  BY DEF ServerInv
<1>. QED
  BY <1>1, ServerInvariant, PTL

(* A login has one chain of tokens: callbacks that are repeated, codes and *)
(* refresh tokens that are presented twice or at once and failures between *)
(* two statements never give it two (AirtableCallback, the consume*        *)
(* functions, issueMCPToken).                                              *)
THEOREM LoginHasOneChain == ServerSpec => []OneChainPerLogin
<1>1. ServerInv => OneChainPerLogin
  BY ChainsApart DEF ServerInv
<1>. QED
  BY <1>1, ServerInvariant, PTL

(* A refresh token that the client has received and not presented has its  *)
(* row until it expires, across restarts and pruning (issueMCPToken stores *)
(* the row before it replies; PruneExpiredMCPRefreshTokens).               *)
THEOREM HeldTokensWork == ServerSpec => []HeldTokenWorks
<1>1. ServerInv => HeldTokenWorks
  BY DEF ServerInv, HeldInv
<1>. QED
  BY <1>1, ServerInvariant, PTL

(* Whoever passes RequireBearer, and whoever owns a session, is a user     *)
(* with Airtable tokens (the order of the steps of AirtableCallback).      *)
THEOREM BearersHaveAirtableTokens == ServerSpec => []UserHasAirtableToken
<1>1. ServerInv => UserHasAirtableToken
  BY DEF ServerInv, KnownInv, OwnersKnown, Known, UserHasAirtableToken
<1>. QED
  BY <1>1, ServerInvariant, PTL

(* A session with an open stream does not expire (handleGet's heartbeat,   *)
(* pruneExpiredLocked).                                                    *)
THEOREM StreamsKeepSessions == ServerSpec => []StreamKeepsSession
<1>1. ServerInv => StreamKeepsSession
  BY DEF ServerInv, SessionsInv, StreamKeepsSession, Sessions!StreamInv, Sessions!StreamKeepsSession
<1>. QED
  BY <1>1, ServerInvariant, PTL

-----------------------------------------------------------------------------
(* The pairs of a login are issued in order *)

(* Somebody issues pair n of login l, and nothing of another login.        *)
LEMMA IssuedMore ==
  ASSUME NEW tokens, NEW l \in Logins, NEW n \in 1..MaxPairs
  PROVE  /\ IssuedBefore(tokens, l, n) => IssuedBefore(tokens \cup {<<l, n>>}, l, n + 1)
         /\ \A k \in Logins : \A m : k # l /\ IssuedBefore(tokens, k, m)
              => IssuedBefore(tokens \cup {<<l, n>>}, k, m)
BY PairsAssumption DEF IssuedBefore

LEMMA InitNumbers == Init => NumbersInv
BY PairsAssumption DEF Init, NumbersInv, IssuedBefore, HandledAt, CallbackPCs

LEMMA HandleNumbers ==
  ASSUME TypeOK, ChainInv, NumbersInv, NEW r \in Requests, Handle(r)
  PROVE  NumbersInv'
<1>1. HandlerType /\ DbType
  BY TypeParts
<1>2. ASSUME UNCHANGED <<mcpTokens, client, authRequests, refreshTokens>>,
             authCodes' = authCodes \/ (authCodes' = authCodes \cup {login[r]} /\ pc[r] = "code"),
             Return(r) \/ (/\ UNCHANGED <<login, pair>>
                           /\ \/ pc[r] \in CallbackPCs /\ Goto(r, "user")
                              \/ pc[r] \in CallbackPCs /\ Goto(r, "airtable")
                              \/ pc[r] \in CallbackPCs /\ Goto(r, "code"))
      PROVE  NumbersInv'
  BY <1>1, <1>2
  DEF HandlerType, NumbersInv, HandledAt, Return, Goto, CallbackPCs
<1> USE DEF Executed, dbVars, memoryVars, CallbackPCs
<1>3. CASE Exchange(r)
  BY <1>2, <1>3 DEF Exchange
<1>4. CASE UpsertUser(r)
  BY <1>2, <1>4 DEF UpsertUser
<1>5. CASE PutAirtableToken(r)
  BY <1>2, <1>5 DEF PutAirtableToken
<1>6. CASE IssueCode(r)
  BY <1>2, <1>6 DEF IssueCode
<1>7. CASE PutMCPToken(r)
  <2> DEFINE l == login[r]
             n == pair[r]
  <2>1. /\ mcpTokens' = mcpTokens \cup {<<l, n>>} /\ pc[r] = "access"
        /\ UNCHANGED <<client, authRequests, authCodes, refreshTokens>>
        /\ l \in Logins /\ n \in 1..MaxPairs
    BY <1>1, <1>7 DEF PutMCPToken, HandlerType
  <2>2. /\ IssuedBefore(mcpTokens', l, n + 1)
        /\ \A k \in Logins : \A m : k # l /\ IssuedBefore(mcpTokens, k, m)
             => IssuedBefore(mcpTokens', k, m)
    BY <2>1, IssuedMore DEF NumbersInv
  <2>3. /\ client[l] # NoClient /\ l \notin authRequests \cup authCodes
        /\ \A t \in refreshTokens : t[1] # l
        /\ \A s \in Requests : pc[s] \in CallbackPCs \cup IssuePCs /\ login[s] = l => s = r
    BY <2>1 DEF ChainInv, ChainOf, Carries, IssuePCs
  <2>4. \A s \in Requests : s # r => pc'[s] = pc[s] /\ login'[s] = login[s] /\ pair'[s] = pair[s]
    BY <1>1, <1>7 DEF PutMCPToken, Return, Goto, HandlerType
  <2>5. pc'[r] = "idle" \/ (pc'[r] = "refresh" /\ login'[r] = l /\ pair'[r] = n)
    BY <1>1, <1>7 DEF PutMCPToken, Return, Goto, HandlerType
  <2>6. ASSUME NEW k \in Logins,
               (client[k] = NoClient \/ k \in authRequests \cup authCodes \/ HandledAt(CallbackPCs, k))'
        PROVE  IssuedBefore(mcpTokens', k, 1)
    <3>1. client[k] = NoClient \/ k \in authRequests \cup authCodes \/ HandledAt(CallbackPCs, k)
      BY <2>1, <2>4, <2>5, <2>6 DEF HandledAt
    <3>2. k # l
      BY <2>1, <2>3, <3>1 DEF HandledAt
    <3>. QED
      BY <2>2, <3>1, <3>2 DEF NumbersInv
  <2>7. ASSUME NEW s \in Requests
        PROVE  /\ pc'[s] = "access" => IssuedBefore(mcpTokens', login'[s], pair'[s])
               /\ pc'[s] = "refresh" => IssuedBefore(mcpTokens', login'[s], pair'[s] + 1)
    <3>1. CASE s = r
      BY <2>2, <2>5, <3>1
    <3>2. CASE s # r
      <4>1. login[s] \in Logins /\ (pc[s] \in IssuePCs => login[s] # l)
        BY <1>1, <2>3, <3>2 DEF HandlerType
      <4>. QED
        BY <2>2, <2>4, <3>2, <4>1 DEF NumbersInv, IssuePCs
    <3>. QED
      BY <3>1, <3>2
  <2>8. ASSUME NEW t \in refreshTokens'
        PROVE  IssuedBefore(mcpTokens', t[1], t[2] + 1)
    <3>1. t \in refreshTokens /\ t[1] # l /\ t[1] \in Logins
      BY <1>1, <2>1, <2>3 DEF DbType, Pairs
    <3>. QED
      BY <2>2, <3>1 DEF NumbersInv
  <2>. QED
    BY <2>6, <2>7, <2>8 DEF NumbersInv
<1>8. CASE PutMCPRefreshToken(r)
  BY <1>1, <1>8 DEF PutMCPRefreshToken, HandlerType, NumbersInv, HandledAt, Return, Goto
<1>9. CASE Reply(r)
  BY <1>2, <1>9 DEF Reply
<1>10. CASE Fail(r)
  BY <1>2, <1>10 DEF Fail
<1>. QED
  BY <1>3, <1>4, <1>5, <1>6, <1>7, <1>8, <1>9, <1>10 DEF Handle

LEMMA GrantNumbers ==
  ASSUME TypeOK, NumbersInv, NEW r \in Requests, Grant(r)
  PROVE  NumbersInv'
<1>1. HandlerType /\ PairsAssumption
  BY TypeParts, PairsAssumption
<1> USE DEF HandlerType, NumbersInv, HandledAt, CallbackPCs, Begin, Goto, handlerVars, dbVars, memoryVars
<1>2. ASSUME NEW l \in Logins, NEW c \in Clients \cup {NoClient}, NEW verified \in BOOLEAN,
             CodeGrant(r, l, c, verified)
      PROVE  NumbersInv'
  BY <1>1, <1>2 DEF CodeGrant
<1>3. ASSUME NEW l \in Logins, NEW n \in 1..MaxPairs, NEW c \in Clients \cup {NoClient},
             RefreshGrant(r, l, n, c)
      PROVE  NumbersInv'
  <2>1. \A t \in refreshTokens' : t \in refreshTokens
    BY <1>3 DEF RefreshGrant
  <2>2. <<l, n>> \in refreshTokens => IssuedBefore(mcpTokens, l, n + 1)
    OBVIOUS
  <2>. QED
    BY <1>1, <1>3, <2>1, <2>2 DEF RefreshGrant
<1>. QED
  BY <1>2, <1>3 DEF Grant

LEMMA StepNumbers ==
  ASSUME TypeOK, ChainInv, NumbersInv, Step
  PROVE  NumbersInv'
<1>1. MemoryType /\ HandlerType
  BY TypeParts
<1> USE <1>1
    DEF MemoryType, HandlerType, NumbersInv, HandledAt, CallbackPCs, dbVars, memoryVars, handlerVars
<1>2. ASSUME NEW c \in Clients, Register(c) PROVE NumbersInv'
  BY <1>2 DEF Register
<1>3. ASSUME NEW c \in Clients, NEW l \in Logins, Authorize(c, l) PROVE NumbersInv'
  BY <1>3 DEF Authorize
<1>4. ASSUME NEW r \in Requests, NEW l \in Logins, Callback(r, l) PROVE NumbersInv'
  BY <1>4 DEF Callback, Begin, Goto
<1>5. ASSUME NEW l \in Logins, ExpireRequest(l) PROVE NumbersInv'
  BY <1>5 DEF ExpireRequest
<1>6. ASSUME NEW t \in Pairs, ExpireToken(t) PROVE NumbersInv'
  BY <1>6 DEF ExpireToken
<1>7. ASSUME PruneExpired PROVE NumbersInv'
  BY <1>7 DEF PruneExpired
<1>. QED
  BY <1>2, <1>3, <1>4, <1>5, <1>6, <1>7, HandleNumbers, GrantNumbers DEF Step

LEMMA CrashNumbers ==
  ASSUME NumbersInv, Crash
  PROVE  NumbersInv'
BY DEF NumbersInv, HandledAt, CallbackPCs, Crash, dbVars

-----------------------------------------------------------------------------
(* Each login goes the way of TokenChain *)

Row(l) == \E t \in refreshTokens : t[1] = l
Nowhere(l) ==
  /\ l \notin authRequests \cup authCodes
  /\ ~HandledAt(CallbackPCs \cup IssuePCs, l) /\ ~Row(l)

(* A chain is in one place, which is its stage. *)
LEMMA StageIs ==
  ASSUME ChainInv, NEW l \in Logins
  PROVE  /\ client[l] = NoClient => StageOf(l) = "new"
         /\ l \in authRequests \/ HandledAt(CallbackPCs, l) => StageOf(l) = "asked"
         /\ l \in authCodes => StageOf(l) = "coded"
         /\ HandledAt({"access"}, l) => StageOf(l) = "redeemed"
         /\ HandledAt({"refresh"}, l) => StageOf(l) = "issued"
         /\ Row(l) => StageOf(l) = "kept"
         /\ client[l] # NoClient /\ Nowhere(l) => StageOf(l) = "over"
<1>1. ChainOf(l)
  BY DEF ChainInv
<1>. QED
  BY <1>1 DEF ChainOf, Carries, StageOf, HandledAt, Row, Nowhere, CallbackPCs, IssuePCs

LEMMA StageIsNext ==
  ASSUME ChainInv', NEW l \in Logins
  PROVE  /\ client'[l] = NoClient => StageOf(l)' = "new"
         /\ l \in authRequests' \/ HandledAt(CallbackPCs, l)' => StageOf(l)' = "asked"
         /\ l \in authCodes' => StageOf(l)' = "coded"
         /\ HandledAt({"access"}, l)' => StageOf(l)' = "redeemed"
         /\ HandledAt({"refresh"}, l)' => StageOf(l)' = "issued"
         /\ Row(l)' => StageOf(l)' = "kept"
         /\ client'[l] # NoClient /\ Nowhere(l)' => StageOf(l)' = "over"
<1>1. ChainOf(l)'
  BY DEF ChainInv
<1>. QED
  BY <1>1 DEF ChainOf, Carries, StageOf, HandledAt, Row, Nowhere, CallbackPCs, IssuePCs

(* A chain whose place is left alone keeps its stage. *)
LEMMA StageSame ==
  ASSUME NEW l \in Logins,
         client'[l] = client[l], l \in authRequests' <=> l \in authRequests,
         l \in authCodes' <=> l \in authCodes, Row(l)' <=> Row(l),
         HandledAt(CallbackPCs, l)' <=> HandledAt(CallbackPCs, l),
         HandledAt({"access"}, l)' <=> HandledAt({"access"}, l),
         HandledAt({"refresh"}, l)' <=> HandledAt({"refresh"}, l)
  PROVE  StageOf(l)' = StageOf(l)
BY DEF StageOf, Row

LEMMA StageType == \A l \in Logins : StageOf(l) \in Chain!Stages /\ StageOf(l)' \in Chain!Stages
BY DEF StageOf, Chain!Stages

LEMMA MoveImplements ==
  ASSUME NEW l \in Logins, NEW from, NEW to, StageOf(l) = from, StageOf(l)' = to,
         \A k \in Logins : k # l => StageOf(k)' = StageOf(k)
  PROVE  Chain!Move(l, from, to)
BY DEF Chain!Move

LEMMA EndImplements ==
  ASSUME UNCHANGED mcpTokens,
         \A k \in Logins : \/ StageOf(k)' = StageOf(k)
                           \/ StageOf(k) # "new" /\ StageOf(k)' = "over"
  PROVE  Chain!ChainNext
<1>1. [l \in Logins |-> StageOf(l)]' \in [Logins -> Chain!Stages]
  BY StageType
<1>. QED
  BY <1>1 DEF Chain!ChainNext, Chain!End

(* What handler r does concerns the login it works for, or begins to. *)
LEMMA OthersHandled ==
  ASSUME NEW r \in Requests, NEW steps, NEW k,
         \A s \in Requests : s # r => pc'[s] = pc[s] /\ login'[s] = login[s],
         pc[r] \in steps => login[r] # k,
         pc'[r] \in steps => login'[r] # k
  PROVE  HandledAt(steps, k)' <=> HandledAt(steps, k)
BY DEF HandledAt

LEMMA OthersSame ==
  ASSUME NEW r \in Requests, NEW k \in Logins,
         \A s \in Requests : s # r => pc'[s] = pc[s] /\ login'[s] = login[s],
         pc[r] \in CallbackPCs \cup IssuePCs => login[r] # k,
         pc'[r] \in CallbackPCs \cup IssuePCs => login'[r] # k,
         client'[k] = client[k], k \in authRequests' <=> k \in authRequests,
         k \in authCodes' <=> k \in authCodes, Row(k)' <=> Row(k)
  PROVE  StageOf(k)' = StageOf(k)
<1>1. HandledAt(CallbackPCs, k)' <=> HandledAt(CallbackPCs, k)
  BY OthersHandled
<1>2. HandledAt({"access"}, k)' <=> HandledAt({"access"}, k)
  BY OthersHandled DEF IssuePCs
<1>3. HandledAt({"refresh"}, k)' <=> HandledAt({"refresh"}, k)
  BY OthersHandled DEF IssuePCs
<1>. QED
  BY <1>1, <1>2, <1>3, StageSame

LEMMA HandleImplements ==
  ASSUME TypeOK, ChainInv, ChainInv', NumbersInv, NEW r \in Requests, Handle(r)
  PROVE  [Chain!ChainNext]_Chain!chainVars
<1>0. login[r] \in Logins
  BY TypeParts DEF HandlerType
<1> SUFFICES ASSUME NEW l \in Logins, l = login[r]
             PROVE  [Chain!ChainNext]_Chain!chainVars
  BY <1>0
<1>1. /\ HandlerType
      /\ \A s \in Requests : s # r => pc'[s] = pc[s] /\ login'[s] = login[s]
      /\ login'[r] = l \/ pc'[r] = "idle"
      /\ client' = client /\ authRequests' = authRequests
  <2>1. HandlerType
    BY TypeParts
  <2>. QED
    BY <2>1
    DEF HandlerType, Handle, Exchange, UpsertUser, PutAirtableToken, IssueCode, PutMCPToken,
        PutMCPRefreshToken, Reply, Fail, Executed, Return, Goto, memoryVars
<1>2. ASSUME pc[r] \in CallbackPCs \cup IssuePCs
      PROVE  /\ client[l] # NoClient /\ l \notin authRequests \cup authCodes /\ ~Row(l)
             /\ \A s \in Requests : s # r /\ login[s] = l => pc[s] \notin CallbackPCs \cup IssuePCs
  BY <1>1, <1>2 DEF ChainInv, ChainOf, Carries, Row
<1>3. ASSUME pc[r] \in CallbackPCs \cup IssuePCs, UNCHANGED <<authCodes, refreshTokens>>,
             pc'[r] = "idle"
      PROVE  StageOf(l)' = "over" /\ StageOf(l) # "new"
  <2>1. Nowhere(l)'
    BY <1>1, <1>2, <1>3 DEF Nowhere, HandledAt, Row, CallbackPCs, IssuePCs
  <2>2. StageOf(l) # "new"
    BY <1>2, <1>3 DEF StageOf
  <2>. QED
    BY <1>1, <1>2, <1>3, <2>1, <2>2, StageIsNext
<1>4. ASSUME pc[r] \in CallbackPCs \cup IssuePCs, UNCHANGED <<authCodes, refreshTokens>>
      PROVE  \A k \in Logins : k # l => StageOf(k)' = StageOf(k)
  BY <1>1, <1>4, OthersSame DEF Row, CallbackPCs, IssuePCs
<1>5. ASSUME pc[r] \in CallbackPCs, UNCHANGED <<authCodes, refreshTokens, mcpTokens>>,
             pc'[r] \in CallbackPCs \cup {"idle"}, pc'[r] # "idle" => login'[r] = l
      PROVE  [Chain!ChainNext]_Chain!chainVars
  <2>1. CASE pc'[r] = "idle"
    BY <1>3, <1>4, <1>5, <2>1, EndImplements
  <2>2. CASE pc'[r] # "idle"
    <3>1. StageOf(l) = "asked" /\ StageOf(l)' = "asked"
      BY <1>1, <1>5, <2>2, StageIs, StageIsNext DEF HandledAt
    <3>2. \A k \in Logins : StageOf(k)' = StageOf(k)
      BY <1>4, <1>5, <3>1
    <3>. QED
      BY <1>5, <3>2, EndImplements
  <2>. QED
    BY <2>1, <2>2
<1>6. CASE Exchange(r) \/ UpsertUser(r) \/ PutAirtableToken(r)
  <2>1. pc[r] \in CallbackPCs /\ UNCHANGED <<authCodes, refreshTokens, mcpTokens>>
    BY <1>6 DEF Exchange, UpsertUser, PutAirtableToken, CallbackPCs, dbVars, memoryVars
  <2>2. pc'[r] \in CallbackPCs \cup {"idle"}
    BY <1>1, <1>6
    DEF Exchange, UpsertUser, PutAirtableToken, Executed, Return, Goto, HandlerType, CallbackPCs
  <2>. QED
    BY <1>1, <1>5, <2>1, <2>2
<1>7. CASE IssueCode(r)
  <2>1. /\ pc[r] = "code" /\ pc'[r] = "idle" /\ authCodes' = authCodes \cup {l}
        /\ UNCHANGED <<refreshTokens, mcpTokens>>
    BY <1>1, <1>7 DEF IssueCode, Return, Goto, HandlerType, dbVars
  <2>2. StageOf(l) = "asked" /\ StageOf(l)' = "coded"
    BY <1>1, <2>1, StageIs, StageIsNext DEF HandledAt, CallbackPCs
  <2>3. \A k \in Logins : k # l => StageOf(k)' = StageOf(k)
    BY <1>1, <2>1, OthersSame DEF Row, CallbackPCs, IssuePCs
  <2>. QED
    BY <1>1, <2>1, <2>2, <2>3, MoveImplements DEF Chain!ChainNext, Chain!Code
<1>8. CASE PutMCPToken(r)
  <2>1. /\ pc[r] = "access" /\ mcpTokens' = mcpTokens \cup {<<l, pair[r]>>}
        /\ UNCHANGED <<authCodes, refreshTokens>> /\ pair[r] \in 1..MaxPairs
        /\ IssuedBefore(mcpTokens, l, pair[r])
    BY <1>1, <1>8 DEF PutMCPToken, memoryVars, HandlerType, NumbersInv
  <2>2. StageOf(l) = "redeemed"
    BY <1>1, <2>1, StageIs DEF HandledAt
  <2>3. pc'[r] = "idle" \/ (pc'[r] = "refresh" /\ login'[r] = l)
    BY <1>1, <1>8 DEF PutMCPToken, Executed, Return, Goto, HandlerType
  <2>4. StageOf(l)' \in {"issued", "over"}
    <3>1. CASE pc'[r] = "idle"
      BY <1>3, <2>1, <3>1 DEF IssuePCs
    <3>2. CASE pc'[r] = "refresh" /\ login'[r] = l
      BY <1>1, <3>2, StageIsNext DEF HandledAt
    <3>. QED
      BY <2>3, <3>1, <3>2
  <2>5. Chain!Move(l, "redeemed", "issued") \/ Chain!Move(l, "redeemed", "over")
    BY <1>1, <1>4, <2>1, <2>2, <2>4, MoveImplements DEF IssuePCs
  <2>. QED
    BY <1>1, <2>1, <2>5 DEF Chain!ChainNext, Chain!Issue, IssuedBefore
<1>9. CASE PutMCPRefreshToken(r)
  <2>1. /\ pc[r] = "refresh" /\ refreshTokens' = refreshTokens \cup {<<l, pair[r]>>}
        /\ UNCHANGED <<authCodes, mcpTokens>>
    BY <1>1, <1>9 DEF PutMCPRefreshToken, memoryVars
  <2>2. pc'[r] \in {"idle", "reply"}
    BY <1>1, <1>9 DEF PutMCPRefreshToken, Executed, Return, Goto, HandlerType
  <2>3. StageOf(l) = "issued" /\ StageOf(l)' = "kept"
    <3>1. HandledAt({"refresh"}, l)
      BY <2>1 DEF HandledAt
    <3>2. <<l, pair[r]>> \in refreshTokens' /\ <<l, pair[r]>>[1] = l
      BY <2>1
    <3>3. Row(l)'
      BY <3>2 DEF Row
    <3>. QED
      BY <3>1, <3>3, StageIs, StageIsNext
  <2>4. \A k \in Logins : k # l => (Row(k)' <=> Row(k))
    BY <2>1 DEF Row
  <2>5. \A k \in Logins : k # l => StageOf(k)' = StageOf(k)
    BY <1>1, <2>1, <2>2, <2>4, OthersSame DEF CallbackPCs, IssuePCs
  <2>. QED
    BY <1>1, <2>1, <2>3, <2>5, MoveImplements DEF Chain!ChainNext, Chain!Keep
<1>10. CASE Reply(r)
  <2>1. pc[r] = "reply" /\ pc'[r] = "idle" /\ UNCHANGED <<authCodes, refreshTokens, mcpTokens>>
    BY <1>1, <1>10 DEF Reply, Return, Goto, HandlerType, dbVars, memoryVars
  <2>2. \A k \in Logins : StageOf(k)' = StageOf(k)
    BY <1>1, <2>1, OthersSame DEF Row, CallbackPCs, IssuePCs
  <2>. QED
    BY <2>1, <2>2, EndImplements
<1>11. CASE Fail(r)
  <2>1. /\ pc[r] \in CallbackPCs \cup IssuePCs /\ pc'[r] = "idle"
        /\ UNCHANGED <<authCodes, refreshTokens, mcpTokens>>
    BY <1>1, <1>11 DEF Fail, Return, Goto, HandlerType, dbVars, memoryVars
  <2>. QED
    BY <1>3, <1>4, <2>1, EndImplements
<1>. QED
  BY <1>6, <1>7, <1>8, <1>9, <1>10, <1>11 DEF Handle

(* A grant either hands the chain to its handler, or ends it. *)
LEMMA GrantedStage ==
  ASSUME HandlerType, ChainInv, ChainInv', NEW r \in Requests, NEW l \in Logins, NEW n,
         Begin(r, "access", l, n) \/ (pc[r] = "idle" /\ UNCHANGED handlerVars),
         l \in authCodes \/ Row(l), l \notin authCodes', ~Row(l)',
         UNCHANGED <<client, authRequests, mcpTokens>>,
         \A k \in Logins : k # l => (k \in authCodes' <=> k \in authCodes) /\ (Row(k)' <=> Row(k))
  PROVE  Chain!ChainNext
<1>1. /\ \A s \in Requests : s # r => pc'[s] = pc[s] /\ login'[s] = login[s]
      /\ pc[r] = "idle"
      /\ (pc'[r] = "access" /\ login'[r] = l) \/ pc'[r] = "idle"
  BY DEF HandlerType, Begin, Goto, handlerVars
<1>2. \A k \in Logins : k # l => StageOf(k)' = StageOf(k)
  BY <1>1, OthersSame DEF CallbackPCs, IssuePCs
<1>3. StageOf(l) \in {"coded", "kept"}
  BY StageIs
<1>4. /\ client[l] # NoClient /\ l \notin authRequests
      /\ \A s \in Requests : login[s] = l => pc[s] \notin CallbackPCs \cup IssuePCs
  BY DEF ChainInv, ChainOf, Carries, Row
<1>5. CASE pc'[r] = "access" /\ login'[r] = l
  <2>1. HandledAt({"access"}, l)'
    BY <1>5 DEF HandledAt
  <2>2. StageOf(l)' = "redeemed"
    BY <2>1, StageIsNext
  <2>3. Chain!Move(l, "coded", "redeemed") \/ Chain!Move(l, "kept", "redeemed")
    BY <1>2, <1>3, <2>2, MoveImplements
  <2>. QED
    BY <2>3 DEF Chain!ChainNext, Chain!Redeem
<1>6. CASE pc'[r] = "idle"
  <2>1. Nowhere(l)'
    BY <1>1, <1>4, <1>6 DEF Nowhere, HandledAt, CallbackPCs, IssuePCs
  <2>2. StageOf(l)' = "over"
    BY <1>4, <2>1, StageIsNext
  <2>. QED
    BY <1>2, <1>3, <2>2, EndImplements
<1>. QED
  BY <1>1, <1>5, <1>6

LEMMA GrantImplements ==
  ASSUME TypeOK, ChainInv, ChainInv', NEW r \in Requests, Grant(r)
  PROVE  [Chain!ChainNext]_Chain!chainVars
<1>1. HandlerType /\ DbType
  BY TypeParts
<1>2. ASSUME NEW l \in Logins, NEW c \in Clients \cup {NoClient}, NEW verified \in BOOLEAN,
             CodeGrant(r, l, c, verified)
      PROVE  [Chain!ChainNext]_Chain!chainVars
  <2>1. /\ Begin(r, "access", l, 1) \/ (pc[r] = "idle" /\ UNCHANGED handlerVars)
        /\ l \in authCodes /\ authCodes' = authCodes \ {l}
        /\ UNCHANGED <<client, authRequests, mcpTokens, refreshTokens>>
    BY <1>2 DEF CodeGrant, dbVars
  <2>2. ~Row(l)
    BY <2>1 DEF ChainInv, ChainOf, Row
  <2>3. \A k \in Logins : Row(k)' <=> Row(k)
    BY <2>1 DEF Row
  <2>. QED
    BY <1>1, <2>1, <2>2, <2>3, GrantedStage
<1>3. ASSUME NEW l \in Logins, NEW n \in 1..MaxPairs, NEW c \in Clients \cup {NoClient},
             RefreshGrant(r, l, n, c)
      PROVE  [Chain!ChainNext]_Chain!chainVars
  <2>1. UNCHANGED <<client, authRequests, authCodes, mcpTokens>>
    BY <1>3 DEF RefreshGrant, memoryVars
  <2>2. CASE /\ <<l, n>> \in refreshTokens \ expired
             /\ refreshTokens' = refreshTokens \ {<<l, n>>}
             /\ \/ c \in {client[l], NoClient} /\ Begin(r, "access", l, n + 1)
                \/ pc[r] = "idle" /\ UNCHANGED handlerVars
    <3>1. Row(l) /\ ~Row(l)' /\ l \notin authCodes
      BY <2>2 DEF ChainInv, ChainOf, Row
    <3>2. \A k \in Logins : k # l => (Row(k)' <=> Row(k))
      BY <2>2 DEF Row
    <3>3. \E m : Begin(r, "access", l, m) \/ (pc[r] = "idle" /\ UNCHANGED handlerVars)
      BY <2>2
    <3>. QED
      BY <1>1, <2>1, <3>1, <3>2, <3>3, GrantedStage
  <2>3. CASE UNCHANGED <<refreshTokens, handlerVars>>
    <3>1. \A k \in Logins : StageOf(k)' = StageOf(k)
      BY <2>1, <2>3, StageSame DEF Row, HandledAt, handlerVars
    <3>. QED
      BY <2>1, <3>1, EndImplements
  <2>. QED
    BY <1>3, <2>2, <2>3 DEF RefreshGrant
<1>. QED
  BY <1>2, <1>3 DEF Grant

LEMMA StepImplements ==
  ASSUME TypeOK, ChainInv, ChainInv', NumbersInv, Step
  PROVE  [Chain!ChainNext]_Chain!chainVars
<1>1. MemoryType /\ HandlerType
  BY TypeParts
<1>2. ASSUME UNCHANGED <<client, authRequests, authCodes, mcpTokens, refreshTokens, pc, login>>
      PROVE  [Chain!ChainNext]_Chain!chainVars
  <2>1. \A k \in Logins : StageOf(k)' = StageOf(k)
    BY <1>2, StageSame DEF Row, HandledAt
  <2>. QED
    BY <1>2, <2>1, EndImplements
<1>3. ASSUME NEW c \in Clients, Register(c) PROVE [Chain!ChainNext]_Chain!chainVars
  BY <1>2, <1>3 DEF Register, memoryVars, handlerVars
<1>4. ASSUME NEW c \in Clients, NEW l \in Logins, Authorize(c, l)
      PROVE  [Chain!ChainNext]_Chain!chainVars
  <2>1. /\ client[l] = NoClient /\ client' = [client EXCEPT ![l] = c]
        /\ authRequests' = authRequests \cup {l}
        /\ UNCHANGED <<authCodes, mcpTokens, refreshTokens, pc, login>>
    BY <1>4 DEF Authorize, dbVars, handlerVars
  <2>2. StageOf(l) = "new" /\ StageOf(l)' = "asked"
    BY <2>1, StageIs, StageIsNext
  <2>3. \A k \in Logins : k # l => StageOf(k)' = StageOf(k)
    BY <1>1, <2>1, StageSame DEF Row, HandledAt, MemoryType
  <2>. QED
    BY <2>1, <2>2, <2>3, MoveImplements DEF Chain!ChainNext, Chain!Ask
<1>5. ASSUME NEW r \in Requests, NEW l \in Logins, Callback(r, l)
      PROVE  [Chain!ChainNext]_Chain!chainVars
  <2>1. /\ l \in authRequests /\ authRequests' = authRequests \ {l}
        /\ pc[r] = "idle" /\ pc'[r] = "exchange" /\ login'[r] = l
        /\ \A s \in Requests : s # r => pc'[s] = pc[s] /\ login'[s] = login[s]
        /\ UNCHANGED <<client, authCodes, mcpTokens, refreshTokens>>
    BY <1>1, <1>5 DEF Callback, Begin, Goto, HandlerType, dbVars
  <2>2. HandledAt(CallbackPCs, l)'
    BY <2>1 DEF HandledAt, CallbackPCs
  <2>3. StageOf(l)' = StageOf(l)
    BY <2>1, <2>2, StageIs, StageIsNext
  <2>4. \A k \in Logins : k # l => StageOf(k)' = StageOf(k)
    BY <2>1, OthersSame DEF Row, CallbackPCs, IssuePCs
  <2>. QED
    BY <2>1, <2>3, <2>4, EndImplements
<1>6. ASSUME NEW l \in Logins, ExpireRequest(l) PROVE [Chain!ChainNext]_Chain!chainVars
  <2>1. /\ l \in authRequests \cup authCodes
        /\ authRequests' = authRequests \ {l} /\ authCodes' = authCodes \ {l}
        /\ UNCHANGED <<client, mcpTokens, refreshTokens, pc, login>>
    BY <1>6 DEF ExpireRequest, dbVars, handlerVars
  <2>2. Nowhere(l)' /\ client[l] # NoClient
    BY <2>1
    DEF ChainInv, ChainOf, Carries, Nowhere, Row, HandledAt, CallbackPCs, IssuePCs
  <2>3. StageOf(l)' = "over" /\ StageOf(l) # "new"
    BY <2>1, <2>2, StageIs, StageIsNext
  <2>4. \A k \in Logins : k # l => StageOf(k)' = StageOf(k)
    BY <2>1, StageSame DEF Row, HandledAt
  <2>. QED
    BY <2>1, <2>3, <2>4, EndImplements
<1>7. ASSUME NEW t \in Pairs, ExpireToken(t) PROVE [Chain!ChainNext]_Chain!chainVars
  BY <1>2, <1>7 DEF ExpireToken, dbVars, memoryVars, handlerVars
<1>8. ASSUME PruneExpired PROVE [Chain!ChainNext]_Chain!chainVars
  <2>1. /\ refreshTokens' = refreshTokens \ expired
        /\ UNCHANGED <<client, authRequests, authCodes, mcpTokens, pc, login>>
    BY <1>8 DEF PruneExpired, memoryVars, handlerVars
  <2>2. ASSUME NEW k \in Logins, Row(k), ~Row(k)'
        PROVE  StageOf(k)' = "over" /\ StageOf(k) = "kept"
    <3>1. Nowhere(k)' /\ client[k] # NoClient
      BY <2>1, <2>2
      DEF ChainInv, ChainOf, Carries, Nowhere, Row, HandledAt, CallbackPCs, IssuePCs
    <3>. QED
      BY <2>1, <2>2, <3>1, StageIs, StageIsNext
  <2>3. ASSUME NEW k \in Logins, Row(k)' <=> Row(k)
        PROVE  StageOf(k)' = StageOf(k)
    BY <2>1, <2>3, StageSame DEF HandledAt
  <2>4. \A k \in Logins : Row(k)' => Row(k)
    BY <2>1 DEF Row
  <2>. QED
    BY <2>1, <2>2, <2>3, <2>4, EndImplements
<1>. QED
  BY <1>3, <1>4, <1>5, <1>6, <1>7, <1>8, HandleImplements, GrantImplements DEF Step

(* A restart ends what was only in memory. *)
LEMMA CrashImplements ==
  ASSUME ChainInv, ChainInv', Crash
  PROVE  [Chain!ChainNext]_Chain!chainVars
<1>1. /\ authRequests' = {} /\ authCodes' = {} /\ \A r \in Requests : pc'[r] = "idle"
      /\ UNCHANGED <<client, mcpTokens, refreshTokens>>
  BY DEF Crash, dbVars
<1>2. ASSUME NEW k \in Logins
      PROVE  \/ StageOf(k)' = StageOf(k)
             \/ StageOf(k) # "new" /\ StageOf(k)' = "over"
  <2>1. CASE client[k] = NoClient
    BY <1>1, <2>1, StageIs, StageIsNext
  <2>2. CASE Row(k)
    <3>1. Row(k)'
      BY <1>1, <2>2 DEF Row
    <3>. QED
      BY <2>2, <3>1, StageIs, StageIsNext
  <2>3. CASE client[k] # NoClient /\ ~Row(k)
    <3>1. Nowhere(k)' /\ client'[k] # NoClient
      BY <1>1, <2>3 DEF Nowhere, Row, HandledAt, CallbackPCs, IssuePCs
    <3>2. StageOf(k) # "new"
      BY <2>3 DEF StageOf
    <3>. QED
      BY <3>1, <3>2, StageIsNext
  <2>. QED
    BY <2>1, <2>2, <2>3
<1>. QED
  BY <1>1, <1>2, EndImplements

LEMMA NextNumbers == ServerInv /\ NumbersInv /\ [ServerNext]_serverVars => NumbersInv'
<1> SUFFICES ASSUME ServerInv, NumbersInv, [ServerNext]_serverVars PROVE NumbersInv'
  OBVIOUS
<1>1. TypeOK /\ ChainInv
  BY DEF ServerInv, ServerTypeOK
<1>2. ASSUME UNCHANGED vars PROVE NumbersInv'
  BY <1>2 DEF vars, dbVars, memoryVars, handlerVars, NumbersInv, HandledAt
<1>. QED
  BY <1>1, <1>2, StepNumbers, CrashNumbers DEF ServerNext, serverVars

LEMMA NextImplements ==
  ServerInv /\ ServerInv' /\ NumbersInv /\ [ServerNext]_serverVars
    => [Chain!ChainNext]_Chain!chainVars
<1> SUFFICES ASSUME ServerInv, ServerInv', NumbersInv, [ServerNext]_serverVars
             PROVE  [Chain!ChainNext]_Chain!chainVars
  OBVIOUS
<1>1. TypeOK /\ ChainInv /\ ChainInv'
  BY DEF ServerInv, ServerTypeOK
<1>2. ASSUME UNCHANGED vars PROVE [Chain!ChainNext]_Chain!chainVars
  <2>1. \A k \in Logins : StageOf(k)' = StageOf(k)
    BY <1>2, StageSame DEF Row, HandledAt, vars, dbVars, memoryVars, handlerVars
  <2>. QED
    BY <1>2, <2>1, EndImplements DEF vars, dbVars
<1>. QED
  BY <1>1, <1>2, StepImplements, CrashImplements DEF ServerNext, serverVars

(* How many pairs of a login have been issued follows from its stage. *)
THEOREM NumbersCorrect == ServerSpec => []NumbersInv
<1>1. ServerInit => NumbersInv
  BY InitNumbers DEF ServerInit
<1>. QED
  BY <1>1, ServerInvariant, NextNumbers, PTL DEF ServerSpec

(* The server implements TokenChain for every login: a code and each       *)
(* refresh token is redeemed once, pairs are issued in order and none      *)
(* twice, and a chain that has ended never goes on (the consume*           *)
(* functions, issueMCPToken).                                              *)
THEOREM ServerImplementsTokenChain == ServerSpec => ImplementsTokenChain
<1>1. ServerInit => Chain!ChainInit
  BY DEF ServerInit, Init, StageOf, Chain!ChainInit
<1>. QED
  BY <1>1, NextImplements, ServerInvariant, NumbersCorrect, PTL
  DEF ServerSpec, ImplementsTokenChain, Chain!ChainSpec
=============================================================================
