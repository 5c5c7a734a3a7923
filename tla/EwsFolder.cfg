SPECIFICATION FairFolderSpec
CONSTANTS
  MaxItem = 5
  Folder = {f1, f2}
  Batch = 2
  MaxRemove = 1
INVARIANTS
  ListsEveryMessage
  FetchAllOrNothing
PROPERTY
  ListEnds
