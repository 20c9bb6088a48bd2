-------------------------- MODULE MCDeviceWorker ---------------------------
(* One device, callers that use a fresh key for every call.                 *)
EXTENDS DeviceWorker

CONSTANTS d, c1, b1, b2, k1, k2, k3

MCDevices == {d}
MCCallers == {c1}
MCKeys == {k1, k2, k3}
MCBauds == {b1, b2}

MCRequests ==
  [dev : {d}, kind : {"connect", "command", "input", "monitor"}, baud : {b1}]
    \cup [dev : {d}, kind : {"read"}, baud : {b1}]

(* The liveness run: two baud rates, and an operation that leaves no port.   *)
LiveRequests ==
  [dev : {d}, kind : {"connect", "command", "input", "erase"}, baud : {b1}]
    \cup [dev : {d}, kind : {"connect", "monitor"}, baud : {b2}]
=============================================================================
