--------------------------- MODULE MCCorrectionGate ---------------------------
(***************************************************************************)
(* The worlds in which TLC explores the gate.                                 *)
(***************************************************************************)
EXTENDS CorrectionGateProperties

Limited(edges, acts) ==
  [act \in Acts |-> IF act = "edge" THEN edges ELSE IF act = "any" \/ act \in acts THEN 1 ELSE 0]

(* Words and Spaces before a slow UI thread, with every privacy answer. *)
Typing ==
  [letters |-> Letters, answers |-> BOOLEAN, shortfalls |-> {}, edgesDuringSubmit |-> FALSE,
   slowWorker |-> FALSE, slowUi |-> TRUE, limits |-> Limited(3, {})]

(* Drains and recoveries of which SendInput takes a part while the worker stalls. *)
Recovery ==
  [letters |-> {}, answers |-> {TRUE}, shortfalls |-> {"drain", "recovery"}, edgesDuringSubmit |-> FALSE,
   slowWorker |-> TRUE, slowUi |-> FALSE, limits |-> Limited(2, {"hotkey", "tray"})]

TypingWorlds == {Typing, Recovery}

(* One disturbance at any moment. *)
DisturbedWorlds ==
  {[Typing EXCEPT !.answers = {TRUE}, !.shortfalls = {"recovery"}, !.limits = Limited(2, Acts)]}

(* A worker that may stall or panic. *)
LivenessWorlds ==
  {[Recovery EXCEPT !.shortfalls = {}, !.limits = Limited(2, {"panic"})]}

(* Keys typed while a drain is sent, which falls short. *)
StaleWorlds ==
  {[Recovery EXCEPT !.shortfalls = {"drain"}, !.edgesDuringSubmit = TRUE, !.slowWorker = FALSE,
      !.limits = [Limited(3, {}) EXCEPT !["any"] = 0]]}
===============================================================================
