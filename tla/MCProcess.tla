----------------------------- MODULE MCProcess -----------------------------
(* The daemon's life, and the counters its handlers keep.  They share no      *)
(* state that either tells apart, so scene says which of them a behaviour is  *)
(* about and the other stays where it started.                                *)
EXTENDS MCLifecycle, Statistics

VARIABLE scene

InitProcess ==
  /\ scene \in {"life", "counters"}
  /\ Init /\ (scene = "counters" => cfg = Good)
  /\ CountersInit

NextProcess ==
  /\ UNCHANGED scene
  /\ \/ scene = "life" /\ Next /\ UNCHANGED statVars
     \/ scene = "counters" /\ CountersNext /\ UNCHANGED vars

LifeStep(A) == scene = "life" /\ A
processVars == <<scene, vars, statVars>>
SpecProcess ==
  /\ InitProcess /\ [][NextProcess]_processVars
  /\ WF_processVars(LifeStep(MainStep) /\ UNCHANGED <<scene, statVars>>)
  /\ WF_processVars(LifeStep(LoopStep) /\ UNCHANGED <<scene, statVars>>)
  /\ WF_processVars(LifeStep(FiveSeconds) /\ UNCHANGED <<scene, statVars>>)
=============================================================================
