\* Three documents, no crash, no batch command.
SPECIFICATION Spec
CONSTANTS
  MaxDocs = 3
  MaxCrashes = 0
  MaxFiles = 0
  BatchSize = 1
INVARIANT
  PublishedDeltaMerges
