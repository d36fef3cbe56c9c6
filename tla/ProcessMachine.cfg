SPECIFICATION Spec
CONSTANTS
  Processes <- Bodies
  Queues = {"q", "packets", "resource"}
  Packets <- PacketNames
  Data = {1, 2}
  RawLimits <- SmallLimits
  MaxProgramCounters = 4
  MaxLiveSlots = 3
  MaxFairnessWork = 60
  Templates = {"recv", "send", "take", "give", "call", "twice", "nest", "wait", "until", "retry", "guard", "loop", "long", "pause"}
  MaxStatements = 4
INVARIANT MachineFollowsProcess
CHECK_DEADLOCK FALSE
