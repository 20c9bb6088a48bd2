----------------------------- MODULE MCEventLog -----------------------------
(* One client that goes from handler to handler, a ring of two events.      *)
EXTENDS EventLog

CONSTANT r1

MCReaders == {r1}
MCSizes == {1, 2}
=============================================================================
