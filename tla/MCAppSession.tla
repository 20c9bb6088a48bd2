---------------------------- MODULE MCAppSession ----------------------------
(* Two sessions, one reset or one lost port, queues of one.                *)
EXTENDS AppSession

CONSTANTS Sessions, Outputs, Inputs, CutsMade, Faults

MCBounds ==
  [e \in Events |->
     CASE e = "session" -> Sessions [] e = "output" -> Outputs [] e = "input" -> Inputs
       [] e = "cut" -> CutsMade [] e = "fault" -> Faults]
=============================================================================
