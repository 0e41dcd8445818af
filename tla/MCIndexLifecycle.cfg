\* Six documents, three crashes at any point, commands with up to four files in
\* batches of two.
SPECIFICATION Spec
CONSTANTS
  MaxDocs = 6
  MaxCrashes = 3
  MaxFiles = 4
  BatchSize = 2
INVARIANTS TypeOK IdsStayPositional IdsUnique
PROPERTIES IndexKeepsDocuments BatchesMerge SaveTakesPending
