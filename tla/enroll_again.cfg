CONSTANTS
  Attempts = {a1, a2}
  Tokens = {t1, t2}
  Labels = {l1, l2}
  Endpoints = {e1, e2}
  Served = {"wireguard-native", "vless"}
  Seeded = {"wireguard-native", "wireguard-adblock"}
  WireGuard = {"wireguard-native", "wireguard-adblock"}
  Twin <- AdBlock
  Cut = Cut
  None = None
SPECIFICATION Spec
CHECK_DEADLOCK FALSE
PROPERTIES EnrollAgainWorks
SYMMETRY Symmetry
