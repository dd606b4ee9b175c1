SPECIFICATION FairSpec
CONSTANTS
  CPUs = {c1}
  PerfSize = 1
  ChannelSize = 1
  Workers = {w1, w2}
  Kinds = {"event", "malformed"}
  MaxSamples = 3
  Commands = {"process-bandwidth", "run", "version"}
  Servers = {"web"}
  MaxFailures = 1
INVARIANTS
  TypeOK
  SamplesConserved
  OrderKept
  CountersAgree
  StartedOnce
CHECK_DEADLOCK FALSE
PROPERTIES
  FailuresEndTheProgram
  SignalsEndTheProgram
  SamplesAreHandled
