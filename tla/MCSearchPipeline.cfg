SPECIFICATION Spec
CONSTANTS
  a = a
  b = b
  c = c
  d = d
  Words <- MCWords
  WordLength <- MCWordLength
  BoostWeight = 5
  SpanWeight <- MCSpanWeight
  HighDocFreq = 2
  NoMoreDocs = 1000
  KeyOrder <- MCKeyOrder
  Radix = 2
  TfScale = 1
  PageSize = 4
  ContinuationHeader = 1
  LeafDirectory = 3
  LeafBytes = 14
  LeafEntrySize = 2
  HeadTermKeyMax = 6
  TermLength <- MCTermLength
  U16 = 65536
  DocIds <- MCDocIds
  Contents <- MCContents
  TextTasks <- MCTextTasks
  VectorTasks <- MCVectorTasks
  DocScore <- MCDocScore
INVARIANTS TypeOK VisitsAreTheMatches AnswerIsTheBest NoPanic DefaultFindsWhatIsAsked
