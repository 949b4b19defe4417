SPECIFICATION FairSpec
CONSTANTS
  batch = batch
  notify = notify
  send = send
  watch = watch
  watch2 = watch2
  watch3 = watch3
  outer = outer
  outer2 = outer2
  ask = ask
  ask2 = ask2
  near = near
  SystemConfigs <- MCConfigs
  Types = {"shard", "single", "other"}
  Ids <- MCIds
  Hash <- MCHash
  Slots = 3
  Nil = Nil
  Ops = {batch, notify, send, watch, watch2, watch3, outer, outer2, ask, ask2, near}
  Kind <- MCKind
  At <- MCAt
  Targets <- MCTargets
  WatchType <- MCWatchType
  MaxCalls = 2
  MaxBreaks = 1
INVARIANTS TypeOK OneHome Accounted ErrorsReported RightAnswer NeverBlocks
PROPERTIES RequestsEnd Settles
CHECK_DEADLOCK FALSE
