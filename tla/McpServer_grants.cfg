\* Two logins by two client ids, two handlers, one session with a stream.
CONSTANTS
  c1 = c1
  c2 = c2
  l1 = l1
  l2 = l2
  r1 = r1
  r2 = r2
  s1 = s1
  g1 = g1
  Clients = {c1, c2}
  Logins = {l1, l2}
  Requests = {r1, r2}
  SessionIds = {s1}
  Streams = {g1}
  NoClient = NoClient
  NoSession = NoSession
  NoUser = NoUser
  MaxPairs = 3
  Heartbeat = 1
  IdleTTL = 2
SPECIFICATION ServerSpec
INVARIANTS ServerTypeOK OneChainPerLogin HeldTokenWorks UserHasAirtableToken StreamKeepsSession
PROPERTIES ImplementsTokenChain
SYMMETRY Alike
