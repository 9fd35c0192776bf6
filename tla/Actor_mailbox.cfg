\* Two tellers, one process thread, a mailbox of two messages.
CONSTANTS
  t1 = t1
  t2 = t2
  p = p
  Tellers <- TwoTellers
  Proc = p
  MailboxSize = 2
  TellOps = 2
  SizeWidth = 3
  BlocksPerChunk = 2
  MaxChunks = 2

SPECIFICATION Spec
PROPERTY EveryTellHandled
