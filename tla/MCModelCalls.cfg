\* Reports of up to two findings, replies of up to two items, every exchange;
\* two proposals per report, whose texts and cards add up on the page; the
\* loop alone over lists of up to three.
SPECIFICATION CallSpec
CONSTANTS
  MaxFindings = 2
  MaxItems = 2
  MaxRounds = 2
  MaxListItems = 3
  NumFindings = 2
  Texts = {good1, good2, bad, untokenizable}
  Rejected = {bad}
  Crashing = {untokenizable}
  NoText = NoText
  NoIndex = NoIndex
  NotADict = NotADict
  Replies <- MCReplies
INVARIANTS
  CallTypeOK
  FirstAcceptableWins
  ReportKeepsTier0Findings
  DegradedHasReason
  CopiedFixesAreValidated
  NothingUsableIsLost
  NoteTellsWhatHappened
CHECK_DEADLOCK FALSE
