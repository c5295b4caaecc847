SPECIFICATION Spec
CONSTANTS
  None = None
  Conns <- MCConns
  Lines <- MCLines
  Clients <- MCClients
  Wants <- MCWants
  Chars <- MCChars
  Width <- MCWidth
  Envelope = 150
  MaxLosses = 3
INVARIANT ForwardedOnce
