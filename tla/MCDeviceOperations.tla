------------------------ MODULE MCDeviceOperations -------------------------
(* Two devices sharing one history and its keys, two racing callers.        *)
EXTENDS DeviceOperations, TLC

CONSTANTS d1, d2, c1, c2, k1, k2, k3

MCDevices == {d1, d2}
MCCallers == {c1, c2}
MCKeys == {k1, k2, k3}
MCRequests ==
  [dev : {d1}, kind : {"read", "command", "input"}] \cup [dev : {d2}, kind : {"connect"}]

Symmetry == Permutations(MCCallers) \cup Permutations(MCKeys)
=============================================================================
