SPECIFICATION Spec
CONSTANTS
  Processes <- Bodies
  Queues = {"q", "packets", "resource"}
  Packets <- PacketNames
  Data = {1, 2}
  RawLimits <- SmallLimits
  MaxProgramCounters = 4
  MaxLiveSlots = 3
  MaxFairnessWork = 60
  Templates = {"recv", "send", "wait"}
  MaxStatements = 4
INVARIANT LiveValuesHaveSlots
CHECK_DEADLOCK FALSE
