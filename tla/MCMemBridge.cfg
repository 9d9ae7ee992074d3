SPECIFICATION FairSpec
CONSTANTS
  a1 = a1
  a2 = a2
  Addr = {a1, a2}
  Data = {0, 1}
  NoData = 0
  NTags = 2
  None = None
INVARIANTS BridgeMatchesCore QuiescentSnapshot
PROPERTIES ChannelSpec TransferCompletes SnapshotGranted
