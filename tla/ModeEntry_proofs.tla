-------------------------- MODULE ModeEntry_proofs --------------------------
(***************************************************************************)
(* The set-up of a frame and the frugality of the presets, for any modes,  *)
(* any low centres and any build.                                          *)
(***************************************************************************)
EXTENDS ModeEntry, TLAPS

\* What the steps of entering a mode have done so far, unless disturbed.
Underway ==
  /\ pc \in {"geometry", "init", "preset"} => seen = mode
  /\ pc \in {"init", "preset", "last"} => (bottomCenter <=> mode \in LowCentre)
  /\ pc \in {"preset", "last"} => tables = bottomCenter /\ leftover = {}
  /\ pc = "last" => seen = mode /\ preset = mode

\* What lastMode vouches for between frames.
Entered ==
  lastMode # NoMode =>
    /\ tables <=> lastMode \in LowCentre
    /\ leftover \subseteq {lastMode}
    /\ preset = lastMode

SetUpInv ==
  ~disturbed =>
    /\ Underway
    /\ pc \in {"compare", "render"} => Entered
    /\ pc = "render" => mode = lastMode

\* A mode that was not entered was asked for.
AskedInv ==
  /\ pc \in {"geometry", "init", "preset"} => asked
  /\ pc = "last" /\ seen # mode => asked
  /\ pc \in {"compare", "render"} /\ mode # lastMode => asked

IInv == TypeOK /\ SetUpInv /\ AskedInv

USE DEF Goto

(* Types.                                                                  *)
LEMMA TypeStep == TypeOK /\ [Next]_vars => TypeOK'
<1> SUFFICES ASSUME TypeOK, [Next]_vars PROVE TypeOK'
    OBVIOUS
<1> USE ModeAssumption DEF TypeOK
<1>1. ASSUME NEW m \in Mode, SelectMode(m) PROVE TypeOK'
  <2>1. disturbed' \in BOOLEAN
    BY <1>1, Zenon DEF SelectMode
  <2> QED
    BY <2>1, <1>1 DEF SelectMode
<1>2. CASE InitAnimartrix \/ Leave
  BY <1>2 DEF InitAnimartrix, Leave
<1>3. CASE SameMode \/ OtherMode
  BY <1>3 DEF SameMode, OtherMode
<1>4. CASE Geometry
  BY <1>4 DEF Geometry
<1>5. CASE InitTables \/ ApplyModeAudioPreset
  BY <1>5 DEF InitTables, ApplyModeAudioPreset
<1>6. CASE SetLastMode
  BY <1>6 DEF SetLastMode, Again
<1>7. CASE Render \/ UNCHANGED vars
  BY <1>7 DEF Render, vars
<1> QED
  BY <1>1, <1>2, <1>3, <1>4, <1>5, <1>6, <1>7 DEF Next, Host, RunAnimartrix, EnterMode

LEMMA InitIInv == Init => IInv
  BY ModeAssumption DEF Init, IInv, TypeOK, SetUpInv, Underway, Entered, AskedInv

(* The set-up follows the steps of an entry; a store to MODE in the middle *)
(* of them makes it disturbed.                                             *)
LEMMA SetUpStep == IInv /\ [Next]_vars => SetUpInv'
<1> SUFFICES ASSUME IInv, [Next]_vars PROVE SetUpInv'
    OBVIOUS
<1> USE ModeAssumption DEF IInv, TypeOK, SetUpInv, Underway, Entered
<1>1. ASSUME NEW m \in Mode, SelectMode(m) PROVE SetUpInv'
  BY <1>1 DEF SelectMode
<1>2. CASE InitAnimartrix
  BY <1>2 DEF InitAnimartrix
<1>3. CASE Leave
  BY <1>3 DEF Leave
<1>4. CASE SameMode
  BY <1>4 DEF SameMode
<1>5. CASE OtherMode
  BY <1>5 DEF OtherMode
<1>6. CASE Geometry
  BY <1>6 DEF Geometry, Again
<1>7. CASE InitTables
  BY <1>7 DEF InitTables
<1>8. CASE ApplyModeAudioPreset
  BY <1>8 DEF ApplyModeAudioPreset
<1>9. CASE SetLastMode
  BY <1>9 DEF SetLastMode, Again
<1>10. CASE Render
  BY <1>10 DEF Render
<1>11. CASE UNCHANGED vars
  BY <1>11 DEF vars
<1> QED
  BY <1>1, <1>2, <1>3, <1>4, <1>5, <1>6, <1>7, <1>8, <1>9, <1>10, <1>11
     DEF Next, Host, RunAnimartrix, EnterMode

(* Whoever makes MODE differ from lastMode has asked for a preset.         *)
LEMMA AskedStep == IInv /\ [Next]_vars => AskedInv'
<1> SUFFICES ASSUME IInv, [Next]_vars PROVE AskedInv'
    OBVIOUS
<1> USE DEF IInv, TypeOK, AskedInv
<1>1. ASSUME NEW m \in Mode, SelectMode(m) PROVE AskedInv'
  BY <1>1 DEF SelectMode
<1>2. CASE InitAnimartrix \/ Leave
  BY <1>2 DEF InitAnimartrix, Leave
<1>3. CASE SameMode \/ OtherMode
  BY <1>3 DEF SameMode, OtherMode
<1>4. CASE Geometry \/ InitTables \/ ApplyModeAudioPreset
  BY <1>4 DEF Geometry, InitTables, ApplyModeAudioPreset
<1>5. CASE SetLastMode
  BY <1>5 DEF SetLastMode, Again
<1>6. CASE Render \/ UNCHANGED vars
  BY <1>6 DEF Render, vars
<1> QED
  BY <1>1, <1>2, <1>3, <1>4, <1>5, <1>6 DEF Next, Host, RunAnimartrix, EnterMode

(* The steps of runAnimartrix keep the invariant together.                 *)
LEMMA Invariance == Spec => []IInv
<1>1. IInv /\ [Next]_vars => IInv'
  BY TypeStep, SetUpStep, AskedStep DEF IInv
<1> QED
  BY <1>1, InitIInv, PTL DEF Spec

(* Every variable of the entry keeps its type (animartrix_detail.hpp).     *)
THEOREM TypeCorrect == Spec => []TypeOK
<1>1. IInv => TypeOK
  BY DEF IInv
<1> QED
  BY <1>1, Invariance, PTL

(* A frame is drawn with the set-up of its own mode, unless MODE was       *)
(* changed under runAnimartrix() (1897-1915).                              *)
THEOREM SetUpCorrect == Spec => []SetUpForItsMode
<1>1. IInv => SetUpForItsMode
  BY ModeAssumption DEF IInv, TypeOK, SetUpInv, Entered, SetUpForItsMode
<1> QED
  BY <1>1, Invariance, PTL

(* A bus preset is applied only for a change of MODE or an entry of the    *)
(* program that it has not answered yet (1902).                            *)
THEOREM PresetCorrect == Spec => PresetOncePerRequest
<1>1. IInv /\ [Next]_vars => [ApplyModeAudioPreset => asked]_vars
  BY DEF IInv, AskedInv, ApplyModeAudioPreset
<1> QED
  BY <1>1, Invariance, PTL DEF Spec, PresetOncePerRequest
=============================================================================
