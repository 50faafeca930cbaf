CONSTANTS
  Attempts = {a1, a2}
  Tokens = {t1, t2}
  Labels = {l1, l2}
  Endpoints = {e1, e2}
  Served = {"wireguard-native", "vless"}
  Seeded = {"wireguard-native", "vless"}
  WireGuard = {"wireguard-native", "wireguard-adblock"}
  Twin <- AdBlock
  Cut = Cut
  None = None
  Garbage = Garbage
SPECIFICATION MCSpec
CHECK_DEADLOCK FALSE
INVARIANTS IdentityIsWhole OneMachineOneIdentity ExportsHold LedgerRemembers StreamIsWhole
PROPERTIES PruneSparesWhatCounts
SYMMETRY Symmetry
