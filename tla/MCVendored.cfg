SPECIFICATION Spec
CONSTANTS
  Threads = {t1, t2}
  Values = {e1, e2}
  Size = 2
  NoValue = NoValue
  Nobody = Nobody
  Callers = {c1, c2, c3, c4}
  Contents = {v1}
  N = 3
  Nothing = Nothing
  MaxCuts = 2
  OCFiles = {f1, f2, f3}
  Keys = {1, 2, 3}
  Releases = {"ventura", "sonoma"}
  Chunks = 2
  Servers <- MCServers
INVARIANTS
  OwnValueKept
  EveryThreadFindsASlot
  OneWholeCopy
  VaultListsWhatIsThere
  SuccessMeansVerified
  SelfcheckMeansVerifiable
PROPERTIES
  ImplementsQueue
