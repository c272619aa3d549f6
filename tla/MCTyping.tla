------------------------------- MODULE MCTyping -------------------------------
(***************************************************************************)
(* The typing session of the worker, the edges a gate holds back, and the pure parts the worker decides   *)
(* with; each explored alone while the others rest in an initial state of theirs.                         *)
(***************************************************************************)
EXTENDS TypingSession

CONSTANTS Failed, Overflow, Keys, SpaceKey, MaxEdges

VARIABLES
  part,   \* the part explored
  phase, app, edges, pending, pressed, typed,
  subject

heldVars == <<phase, app, edges, pending, pressed, typed>>
mcvars == <<part, tvars, heldVars, subject>>

HeldEdges == INSTANCE MCHeldKeys WITH held <- edges, Space <- SpaceKey
Tables == INSTANCE MCTables
ASSUME PartsAssumption == Tables!TablesAssumption

(* What may happen rarely: each scenario has its own of these. *)
Rare == {"all", "1", ".", "backspace", "moves", "hotkey", "switches", "epochs", "missed", "refreshes"}
Allowing(all, once, twice) ==
  [w \in Rare |-> CASE w = "all" -> all [] w \in once -> 1 [] w \in twice -> 2 [] OTHER -> 0]
MCScenarios ==
  {Allowing(3, {"1", "switches"}, {"backspace", "hotkey"}),
   Allowing(2, {"switches", "hotkey", "backspace", "refreshes"}, {"moves"}),
   Allowing(2, {"epochs", "missed", "hotkey", "backspace", "refreshes", "."}, {})}
(* A key that moves the focus inside a window, and a check while the user is in another window. *)
MovesAndChecks == {Allowing(4, {"moves", "refreshes"}, {"switches"})}

(* Each window of a program of its own, and all of them windows of one program. *)
OwnPrograms == [w \in Windows |-> w]
OneProgram == [w \in Windows |-> "program"]

Init ==
  /\ part \in {"typing", "held", "tables"}
  /\ TInit /\ HeldEdges!Init
  /\ part # "typing" =>
       /\ focus = CHOOSE w \in Windows : TRUE
       /\ secret = {} /\ budget = CHOOSE s \in Scenarios : TRUE
  /\ IF part = "tables" THEN Tables!Subjects ELSE subject = None

Next ==
  /\ UNCHANGED <<part, subject>>
  /\ IF part = "typing" THEN TNext ELSE UNCHANGED tvars
  /\ IF part = "held" THEN HeldEdges!Next ELSE UNCHANGED heldVars

Spec == Init /\ [][Next]_mcvars

-------------------------------------------------------------------------------
(* A conversion or its undo erases no more than the word it was made of, and an automatic conversion never  *)
(* takes a fragment of a word whose beginning the worker knew (execute_pending_conversion_inner,            *)
(* execute_undo_inner, handle_boundary).                                                                    *)
EditsOnlyTheWord == ErasesOnlyTheWord /\ ConvertsWholeWords

(* Whatever a gate holds, replays, returns or retains: no key stays pressed that the user released, none is *)
(* released that they hold, each key-up belongs to a key-down the application has, a drain never goes past  *)
(* the end of a word, and repeats are told from new presses (take_held_replay_prefix,                       *)
(* split_delivered_key_releases, build_balanced_replay_inputs, cancel_superseded).                          *)
HeldKeysStayPaired ==
  /\ [](HeldEdges!BreakLatchesNothing /\ HeldEdges!ReturnedReleaseHasItsDown)
  /\ [](HeldEdges!RepeatsMarked /\ HeldEdges!NewPressNotReleased)
  /\ HeldEdges!DrainStopsAtSpace

(* A configuration that loads can be saved and is then the one that was loaded; saving over another         *)
(* writer's changes loses neither side's (from_text, to_text, merge).                                       *)
ConfigurationKept == part = "tables" => Tables!LoadedCanBeSaved /\ Tables!MergeKeepsBothSides

(* The detector turns no word the user or the typed language has, has no rival for the word it turns to,    *)
(* and the scores and models it rests on are sound (detect_mapped_candidates, ScoringModel, LayoutModel).   *)
DecisionsAreSound == part = "tables" => Tables!DecisionsAreSound

(* Which language a layout stands for does not depend on the order or the presence of packs, word lists     *)
(* keep their bounds, and each text of the interface is found, formats, and is in the user's script         *)
(* (InputPackRegistry, compile_words, LocaleRegistry).                                                      *)
PacksAndTextsAreFound == part = "tables" => Tables!LanguagesFollowLayouts /\ Tables!TextsAreFound
===============================================================================
