SPECIFICATION Spec
CONSTANTS
  Database <- gKextDatabase
  Essentials <- gEssentialKexts
  SystemInfos <- MCSystemInfos
  MaxCount <- MCMaxCount
  KextCapacity = 10
  NULL = NULL
INVARIANTS
  TypeOK
  FitsInList
  NoDuplicates
  ListServesMachine
PROPERTIES
  ImplementsPromise
