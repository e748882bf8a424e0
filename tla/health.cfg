\* A prompt peer, one whose pings are late, displaced by data or refused and
\* whose pongs may take any time, and the least timeout that keeps the first
\* when closing takes time.
SPECIFICATION FairSpec
CONSTANTS
  Sessions = {s1, s2}
  Answering = {s1, s2}
  Prompt = {s1}
  PingPong = 1
  PongTimeout = 4
  Rtt = 0
  MaxBusy = 1
INVARIANTS
  TypeOK
  SilenceIsBounded
  PromptPeerKept
PROPERTIES
  AskedBeforeExpired
  OverIsClosed
