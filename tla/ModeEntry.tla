----------------------------- MODULE ModeEntry -----------------------------
(***************************************************************************)
(* How the animartrix program enters a mode (animartrix_detail.hpp).       *)
(* runAnimartrix() names the global MODE for the comparison, for the       *)
(* geometry, for the bus preset, for lastMode and for the frame it draws,  *)
(* while the BLE task may store to it at any time.  Between the geometry   *)
(* and the preset lie the polar tables, computed pixel by pixel: MODE is   *)
(* loaded again after them, and again for the frame.                       *)
(*                                                                         *)
(* A mode's drawing is abstracted to the set-up it relies on: the polar    *)
(* tables about its centre, a drawing state no other effect has written    *)
(* to, and its bus preset.                                                 *)
(***************************************************************************)
EXTENDS Naturals

CONSTANTS
  Mode,          \* the values of MODE
  LowCentre,     \* the modes drawn about a point below the matrix, {10}
  NoMode,        \* the -1 of lastMode
  Rereads        \* may the build load MODE again where the source names it
                 \* again with no call in between?

ASSUME ModeAssumption ==
  /\ LowCentre \subseteq Mode /\ NoMode \notin Mode
  /\ Rereads \in BOOLEAN

VARIABLES
  mode,          \* MODE
  pc,            \* where runAnimartrix() is; "away" while another program runs
  seen,          \* MODE as it was loaded last
  lastMode,
  bottomCenter,
  tables,        \* the centre the polar tables are about: TRUE is bottomCenter
  leftover,      \* the modes that drew since the drawing state was reset
  preset,        \* the mode applyModeAudioPreset() was last called with
  \* History
  disturbed,     \* was MODE changed while it was being looked at, since the
                 \* drawing state was reset?
  drawn,         \* the mode of the last frame
  asked          \* was MODE changed or the program entered since the last preset?

vars == <<mode, pc, seen, lastMode, bottomCenter, tables, leftover, preset,
          disturbed, drawn, asked>>

Init ==
  /\ mode \in Mode
  /\ pc = "away"
  /\ seen = NoMode /\ lastMode = NoMode
  /\ bottomCenter = FALSE /\ tables = FALSE
  /\ leftover = {} /\ preset = NoMode
  /\ disturbed = FALSE /\ drawn = NoMode /\ asked = FALSE

-----------------------------------------------------------------------------
(* NimBLE host task: a mode button, a preset, or a program button (mode 0).*)

\* Mutant: the offset of the mode buttons is not subtracted.
SelectModeOffset(m) ==
  /\ mode' = m + 20
  /\ asked' = TRUE
  /\ UNCHANGED <<pc, seen, lastMode, bottomCenter, tables, leftover, preset, disturbed, drawn>>

SelectMode(m) ==
  /\ mode' = m
  /\ disturbed' = (disturbed \/ (pc \notin {"away", "compare"} /\ m # mode))
  /\ asked' = (asked \/ m # mode)
  /\ UNCHANGED <<pc, seen, lastMode, bottomCenter, tables, leftover, preset, drawn>>

-----------------------------------------------------------------------------
(* Arduino task.                                                           *)

Goto(from, to) == pc = from /\ pc' = to

\* initAnimartrix(): the new object computes its tables about whichever
\* centre is set.
InitAnimartrix ==
  /\ Goto("away", "compare")
  /\ tables' = bottomCenter
  /\ lastMode' = NoMode
  /\ leftover' = {} /\ disturbed' = FALSE /\ asked' = TRUE
  /\ UNCHANGED <<mode, seen, bottomCenter, preset, drawn>>

\* Another program was selected, which sets MODE to 0; a preset may set it
\* again before the program changes.
Leave ==
  /\ Goto("compare", "away")
  /\ UNCHANGED <<mode, seen, lastMode, bottomCenter, tables, leftover, preset,
                 disturbed, drawn, asked>>

\* Mutant: the preset is applied outside the block that enters a mode.
SameModeWithPreset ==
  /\ mode = lastMode
  /\ Goto("compare", "preset")
  /\ seen' = mode
  /\ UNCHANGED <<mode, lastMode, bottomCenter, tables, leftover, preset,
                 disturbed, drawn, asked>>

\* MODE != lastMode
SameMode ==
  /\ mode = lastMode
  /\ Goto("compare", "render")
  /\ seen' = mode
  /\ UNCHANGED <<mode, lastMode, bottomCenter, tables, leftover, preset,
                 disturbed, drawn, asked>>

OtherMode ==
  /\ mode # lastMode
  /\ Goto("compare", "geometry")
  /\ seen' = mode
  /\ disturbed' = FALSE
  /\ UNCHANGED <<mode, lastMode, bottomCenter, tables, leftover, preset, drawn, asked>>

\* What MODE is when the source names it again with no call in between.
Again == IF Rereads THEN {mode, seen} ELSE {seen}

\* Mutant: the centre is never set back.
GeometrySticky ==
  /\ Goto("geometry", "init")
  /\ \E m \in Again : bottomCenter' = (bottomCenter \/ m \in LowCentre)
  /\ UNCHANGED <<mode, seen, lastMode, tables, leftover, preset, disturbed, drawn, asked>>

Geometry ==
  /\ Goto("geometry", "init")
  /\ \E m \in Again : bottomCenter' = IF m \in LowCentre THEN TRUE ELSE FALSE
  /\ UNCHANGED <<mode, seen, lastMode, tables, leftover, preset, disturbed, drawn, asked>>

\* ANIMartRIX::init()
InitTables ==
  /\ Goto("init", "preset")
  /\ tables' = bottomCenter
  /\ leftover' = {}
  /\ UNCHANGED <<mode, seen, lastMode, bottomCenter, preset, disturbed, drawn, asked>>

ApplyModeAudioPreset ==
  /\ Goto("preset", "last")
  /\ seen' = mode
  /\ preset' = mode
  /\ asked' = FALSE
  /\ UNCHANGED <<mode, lastMode, bottomCenter, tables, leftover, disturbed, drawn>>

SetLastMode ==
  /\ Goto("last", "render")
  /\ lastMode' \in Again
  /\ UNCHANGED <<mode, seen, bottomCenter, tables, leftover, preset, disturbed, drawn, asked>>

\* Mutant: the switch of render() lacks a case.
RenderWithoutCase ==
  /\ Goto("render", "compare")
  /\ drawn' = IF mode \in LowCentre THEN NoMode ELSE mode
  /\ leftover' = leftover \cup {mode}
  /\ UNCHANGED <<mode, seen, lastMode, bottomCenter, tables, preset, disturbed, asked>>

\* animFx->render(MODE): setTime(fl::millis()) comes before it.
Render ==
  /\ Goto("render", "compare")
  /\ drawn' = mode
  /\ leftover' = leftover \cup {mode}
  /\ UNCHANGED <<mode, seen, lastMode, bottomCenter, tables, preset, disturbed, asked>>

EnterMode == OtherMode \/ Geometry \/ InitTables \/ ApplyModeAudioPreset \/ SetLastMode
RunAnimartrix == SameMode \/ EnterMode \/ Render
Host == \E m \in Mode : SelectMode(m)

Next == Host \/ InitAnimartrix \/ Leave \/ RunAnimartrix

\* loop() runs on: the program is entered when it is selected, and its frames
\* follow one another.
Spec == Init /\ [][Next]_vars /\ WF_vars(InitAnimartrix) /\ WF_vars(RunAnimartrix)

-----------------------------------------------------------------------------
TypeOK ==
  /\ mode \in Mode
  /\ pc \in {"away", "compare", "geometry", "init", "preset", "last", "render"}
  /\ seen \in Mode \cup {NoMode} /\ lastMode \in Mode \cup {NoMode}
  /\ bottomCenter \in BOOLEAN /\ tables \in BOOLEAN
  /\ leftover \subseteq Mode /\ preset \in Mode \cup {NoMode}
  /\ disturbed \in BOOLEAN /\ drawn \in Mode \cup {NoMode} /\ asked \in BOOLEAN

(***************************************************************************)
(* A frame is set up for the mode it draws: its own polar centre, nothing  *)
(* another effect left in the drawing state, its own bus preset.  The one  *)
(* exception is a MODE changed while runAnimartrix() was looking at it     *)
(* (animartrix_detail.hpp:1897-1915): a mode selected during the           *)
(* milliseconds of init() is marked as entered and keeps the centre of the *)
(* mode it replaced until the next mode, and one selected just before the  *)
(* frame is drawn with the set-up of the last.                             *)
(***************************************************************************)
SetUpForItsMode ==
  pc = "render" /\ ~disturbed =>
    /\ mode = lastMode
    /\ tables <=> mode \in LowCentre
    /\ leftover \subseteq {mode}
    /\ preset = mode

(***************************************************************************)
(* A mode's preset overwrites the buses only after MODE was changed or the *)
(* program entered, and once for it: what the user adjusts afterwards      *)
(* stays, frame after frame, when the running mode is selected again, and  *)
(* however selections fall into the entry of a mode (1897-1904,            *)
(* BLE_UI_SYSTEM.md 4.4).                                                  *)
(***************************************************************************)
PresetOncePerRequest == [][ApplyModeAudioPreset => asked]_vars

(***************************************************************************)
(* The mode that stays selected while animartrix stays on show is drawn in *)
(* the end, and about its own centre unless MODE was disturbed.            *)
(***************************************************************************)
SelectedModeIsDrawn ==
  \A m \in Mode :
    <>[](mode = m /\ pc # "away")
      => <>[](drawn = m /\ (disturbed \/ (tables <=> m \in LowCentre)))
=============================================================================
