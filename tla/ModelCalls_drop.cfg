\* A text the validator's tokenizer cannot read.
SPECIFICATION CallSpec
CONSTANTS
  MaxFindings = 1
  MaxItems = 1
  MaxRounds = 1
  MaxListItems = 2
  NumFindings = 2
  Texts = {good1, good2, bad, untokenizable}
  Rejected = {bad}
  Crashing = {untokenizable}
  NoText = NoText
  NoIndex = NoIndex
  NotADict = NotADict
  Replies <- MCReplies
INVARIANTS
  BadTextIsOnlyDropped
CHECK_DEADLOCK FALSE
