SPECIFICATION FairSpec
CONSTANTS
    Clients = {c1, c2}
    Channels = {k1, k2}
    None = None
    Capacity = 2
    MaxMissed = 3
    MaxToken = 2
INVARIANTS OnlyTheBindingDials OfflineMeansRedial NoHastyDrop
PROPERTIES DeadChannelIsDropped
