SPECIFICATION FairSpec
CONSTANTS
  None = None
  Conns <- MCConns
  Lines <- MCLines
  Clients <- MCClients
  Wants <- MCWants
  Chars <- MCChars
  Width <- MCWidth
  Envelope = 150
  MaxLosses = 3
INVARIANT TypeOK
INVARIANT StreamFaithful
INVARIANT PlaceLeft
INVARIANT NeverDeaf
INVARIANT IdleRetaken
PROPERTY ListenerReturns
