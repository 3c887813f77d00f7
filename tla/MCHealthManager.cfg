SPECIFICATION FairSpec
CONSTANTS
    Server = {s1}
    Conf = {c1, c2}
    Lists <- MCLists
    FailThreshold = 2
    PassThreshold = 2
    MaxMade = 2
    MaxEvents = 2
INVARIANTS OneLoopPerServer QuietAfterStop StatusFollowsRuns
PROPERTIES StopReturns StatusConverges
