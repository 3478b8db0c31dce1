CONSTANTS
  NumReplyContexts = 2
  MaxCalls = 7
  MayRefuse = {"ADVERTISE"}
  MaxOnWay = 1
SPECIFICATION FairSpec
INVARIANTS TypeOK CallEndsOnce ContextsAreOpenCalls RunsAdvertised
PROPERTIES DeadAfterProbes DeadLinkFound CallsEnd
