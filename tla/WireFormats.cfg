SPECIFICATION Spec
CONSTANTS
  TPS = 10
  SecBits = 3
  FracBits = 4
  Gap = 6
  Width32 = 256
  NameLen = 4
  MaxPackets = 3
  MaxTLVs = 2
  Exchanges <- MCExchanges
  Words <- MCWords
  History <- MCHistory
  MaxAdds = 5
  MaxMonth = 3
CHECK_DEADLOCK FALSE
INVARIANTS DecodedIsSent NothingStale OffsetBound WordsKept LeapsShown
