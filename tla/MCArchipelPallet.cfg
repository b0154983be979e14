SPECIFICATION MCSpec
CONSTANTS
  a1 = a1
  a2 = a2
  a3 = a3
  Account = {a1, a2, a3}
  Group = {0, 1}
  NodeStatus = {0, 1}
  DefaultAccount = DefaultAccount
  DefaultGroup = 0
  DefaultStatus = 0
  MaxU32 = 1
  MaxBlock = 3
  MaxExtrinsics = 2
SYMMETRY MCSymmetry
INVARIANTS
  TypeOK
  LeadedIffLeader
  RegistryIsBijection
  ZeroMeansNeverSeen
  EventsTellLeader
  EventsTellHeartbeats
PROPERTIES
  LivenessIsMonotone
  ImplementsRegister
