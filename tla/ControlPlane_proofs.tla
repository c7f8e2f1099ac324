------------------------- MODULE ControlPlane_proofs -------------------------
(***************************************************************************)
(* Proofs about ControlPlane, for every set of programs, modes, parameter  *)
(* valuations, mappings and preset slots.                                  *)
(***************************************************************************)
EXTENDS ControlPlane, TLAPS

USE DEF NoSlot

(***************************************************************************)
(* What loop() holds in its locals is a real program while it is in use:   *)
(* TypeOK alone is not inductive, initX() would set the flag of 0xFF.      *)
(***************************************************************************)
TypeInv ==
  /\ TypeOK
  /\ pc \in {"latch", "switch", "init", "run"} => cur \in Program

(***************************************************************************)
(* Sessions.  Every set flag is this frame's, a stray's or the noted       *)
(* program's; and a flag of the noted program that is neither this frame's *)
(* nor a stray's stands for a state nobody but strays drew over.           *)
(***************************************************************************)
SessionInv ==
  /\ pc = "latch" => instance = {}
  /\ pc = "run" => cur \in instance
  /\ initSince \subseteq {cur}
  /\ pc \notin {"init", "run"} => initSince = {}
  /\ instance \subseteq initSince \cup strays \cup {lastProgram}
  /\ lastProgram \in instance \ (initSince \cup strays)
       => lastRun = lastProgram \/ lastRun \in strays

(***************************************************************************)
(* Mappings, for every build.  Between two switches defaultMapping is the  *)
(* one of the last case taken, and a frame without the override carries    *)
(* the one of the frame before.                                            *)
(***************************************************************************)
MappingInv ==
  /\ pc \in {"init", "run"} /\ cur \in DOMAIN DefaultMapping
       => defaultMapping = DefaultMapping[cur]
  /\ pc \notin {"init", "run"} /\ lastRun \in DOMAIN DefaultMapping
       => defaultMapping = DefaultMapping[lastRun]
  /\ pc = "override" => overridden
  /\ pc \in {"detect", "latch", "switch", "init", "run"} /\ ~overridden
       /\ lastRun \in DOMAIN DefaultMapping
       => cMapping = DefaultMapping[lastRun]

(***************************************************************************)
(* Presets.  A file and what was on show when it was written name the same *)
(* visualizer: a file without a modeNum is one of a program that has no    *)
(* modes, whose name is the same whatever MODE is.                         *)
(***************************************************************************)
Shows(f, m) == <<Visualizer(f.programNum, m), f.parameters>>

FileInv ==
  /\ DOMAIN savedAs = Slot
  /\ \A s \in Slot : preset[s] # NoPreset =>
       IF preset[s].modeNum = NoMode
       THEN \A m \in Mode : savedAs[s] = Shows(preset[s], m)
       ELSE savedAs[s] = Shows(preset[s], preset[s].modeNum)

\* A global that has the value, or that the stores still to make set to it.
Settles(stores, dest, now, val) ==
  /\ now = val \/ \E i \in 1 .. Len(stores) : stores[i][1] = dest
  /\ \A i \in 1 .. Len(stores) : stores[i][1] = dest => stores[i][2] = val

(***************************************************************************)
(* While a load is the last thing the host task changed, every global is   *)
(* what its file says, or is about to be.                                  *)
(***************************************************************************)
LoadInv ==
  loaded # NoSlot =>
    /\ preset[loaded] # NoPreset
    /\ Settles(todo, "PROGRAM", program, preset[loaded].programNum)
    /\ preset[loaded].modeNum # NoMode => Settles(todo, "MODE", mode, preset[loaded].modeNum)
    /\ Settles(todo, "params", params, preset[loaded].parameters)

-----------------------------------------------------------------------------
LEMMA MappingTypes ==
  /\ \A p \in DOMAIN DefaultMapping : DefaultMapping[p] \in Mapping
  /\ \A v \in Param : OverrideMapping[v] \in Mapping
  /\ 0 \in Mapping
  BY DEF Mapping

LEMMA StoreTypes ==
  /\ \A p \in Program : <<"PROGRAM", p>> \in Store
  /\ \A m \in Mode : <<"MODE", m>> \in Store
  /\ \A on \in BOOLEAN : <<"displayOn", on>> \in Store
  /\ \A on \in BOOLEAN : <<"mappingOverride", on>> \in Store
  /\ \A v \in Param : <<"params", v>> \in Store
  BY DEF Store

LEMMA ShortSequences ==
  ASSUME NEW S, NEW a \in S, NEW b \in S, NEW c \in S
  PROVE  /\ <<a>> \in Seq(S)
         /\ <<a, b>> \in Seq(S)
         /\ <<a, b, c>> \in Seq(S)
  OBVIOUS

LEMMA TypeInit == Init => TypeInv
<1> SUFFICES ASSUME Init PROVE TypeInv
  OBVIOUS
<1>1. todo \in Seq(Store) /\ preset \in [Slot -> PresetFile \cup {NoPreset}]
  BY DEF Init
<1> QED
  BY <1>1, ProgramAssumption, ModeAssumption, ParamAssumption, MappingTypes
     DEF Init, TypeInv, TypeOK

LEMMA CallbackType ==
  ASSUME TypeInv, NEW stores \in Seq(Store), NEW slot \in Slot \cup {0},
         Callback(stores, slot)
  PROVE  TypeInv'
  BY DEF TypeInv, TypeOK, Callback, shared, loop

LEMMA HostType == TypeInv /\ Host => TypeInv'
<1> SUFFICES ASSUME TypeInv, Host PROVE TypeInv'
  OBVIOUS
<1>1. CASE HostStore
  <2>1. Head(todo) \in Store /\ Tail(todo) \in Seq(Store)
    BY <1>1 DEF HostStore, TypeInv, TypeOK
  <2> QED
    BY <1>1, <2>1 DEF HostStore, TypeInv, TypeOK, Store, loop, history
<1>2. ASSUME NEW p \in Program, SelectProgram(p) PROVE TypeInv'
  BY <1>2, CallbackType, StoreTypes, ShortSequences, ModeAssumption DEF SelectProgram
<1>3. ASSUME NEW m \in Mode, SelectMode(m) PROVE TypeInv'
  BY <1>3, CallbackType, StoreTypes, ShortSequences DEF SelectMode
<1>4. ASSUME NEW on \in BOOLEAN, SwitchDisplay(on) PROVE TypeInv'
  BY <1>4, CallbackType, StoreTypes, ShortSequences DEF SwitchDisplay, TypeInv, TypeOK
<1>5. ASSUME NEW on \in BOOLEAN, SetOverride(on) PROVE TypeInv'
  BY <1>5, CallbackType, StoreTypes, ShortSequences DEF SetOverride, TypeInv, TypeOK
<1>6. ASSUME NEW v \in Param, SetParam(v) PROVE TypeInv'
  BY <1>6, CallbackType, StoreTypes, ShortSequences DEF SetParam
<1>7. ASSUME NEW s \in Slot, SavePreset(s) PROVE TypeInv'
  <2>1. preset' \in [Slot -> PresetFile \cup {NoPreset}]
    BY <1>7 DEF SavePreset, TypeInv, TypeOK, PresetFile
  <2> QED
    BY <1>7, <2>1 DEF SavePreset, TypeInv, TypeOK, shared, loop
<1>8. ASSUME NEW s \in Slot, LoadPreset(s) PROVE TypeInv'
  <2>1. preset[s] \in PresetFile
    BY <1>8 DEF LoadPreset, TypeInv, TypeOK
  <2>2. LoadStores(preset[s]) \in Seq(Store)
    BY <2>1, StoreTypes, ShortSequences DEF LoadStores, PresetFile
  <2> QED
    BY <1>8, <2>2, CallbackType DEF LoadPreset
<1> QED
  BY <1>1, <1>2, <1>3, <1>4, <1>5, <1>6, <1>7, <1>8 DEF Host, HostCallback

LEMMA LoopType == TypeInv /\ Loop => TypeInv'
<1> SUFFICES ASSUME TypeInv, Loop PROVE TypeInv'
  OBVIOUS
<1> USE DEF TypeInv, TypeOK, Goto, shared, host, history
<1>1. CASE FrameDark
  BY <1>1 DEF FrameDark
<1>2. CASE FrameLit
  BY <1>2 DEF FrameLit
<1>3. CASE ChooseMapping
  BY <1>3, MappingTypes DEF ChooseMapping
<1>4. CASE TakeOverride
  BY <1>4, MappingTypes DEF TakeOverride
<1>5. CASE Detect
  BY <1>5 DEF Detect
<1>6. CASE Latch
  BY <1>6 DEF Latch, Again
<1>7. CASE Switch
  <2>1. cur' \in Program
    BY <1>7 DEF Switch, Again
  <2>2. defaultMapping' \in Mapping
    BY <1>7, MappingTypes DEF Switch
  <2>3. pc' \in {"init", "run"}
    BY <1>7 DEF Switch
  <2> QED
    BY <1>7, <2>1, <2>2, <2>3 DEF Switch
<1>8. CASE InitProgram
  BY <1>8 DEF InitProgram
<1>9. CASE RunProgram
  BY <1>9 DEF RunProgram
<1>10. CASE Show
  BY <1>10 DEF Show
<1> QED
  BY <1>1, <1>2, <1>3, <1>4, <1>5, <1>6, <1>7, <1>8, <1>9, <1>10 DEF Loop

(***************************************************************************)
(* Every reachable state of the control plane is well typed.               *)
(***************************************************************************)
THEOREM TypeCorrect == Spec => []TypeOK
<1>1. TypeInv /\ UNCHANGED vars => TypeInv'
  BY DEF TypeInv, TypeOK, vars, shared, host, loop, history
<1>2. TypeInv /\ [Next]_vars => TypeInv'
  BY <1>1, HostType, LoopType DEF Next
<1>3. TypeInv => TypeOK
  BY DEF TypeInv
<1> QED
  BY TypeInit, <1>2, <1>3, PTL DEF Spec

-----------------------------------------------------------------------------
(* The host task never writes what the two invariants of loop() speak of.  *)
LEMMA HostFrame ==
  Host => UNCHANGED <<pc, cur, lastProgram, instance, defaultMapping, cMapping,
                      lastRun, initSince, strays, overridden>>
  BY DEF Host, HostCallback, HostStore, SelectProgram, SelectMode, SwitchDisplay,
         SetOverride, SetParam, SavePreset, LoadPreset, Callback, loop, history

LEMMA SessionStep ==
  ASSUME TypeOK, SessionInv, Loop
  PROVE  SessionInv'
<1> USE DEF SessionInv, Goto
<1>1. CASE FrameDark
  BY <1>1 DEF FrameDark, history
<1>2. CASE FrameLit
  BY <1>2 DEF FrameLit, history
<1>3. CASE ChooseMapping
  BY <1>3 DEF ChooseMapping
<1>4. CASE TakeOverride
  BY <1>4 DEF TakeOverride, history
<1>5. CASE Detect
  BY <1>5 DEF Detect
<1>6. CASE Latch
  BY <1>6 DEF Latch, history
<1>7. CASE Switch
  BY <1>7 DEF Switch, history
<1>8. CASE InitProgram
  BY <1>8 DEF InitProgram
<1>9. CASE RunProgram
  BY <1>9 DEF RunProgram
<1>10. CASE Show
  BY <1>10 DEF Show, history
<1> QED
  BY <1>1, <1>2, <1>3, <1>4, <1>5, <1>6, <1>7, <1>8, <1>9, <1>10 DEF Loop

(***************************************************************************)
(* In every build, the state of an earlier session is drawn on only around *)
(* a stray frame, whatever the host task stores between the loads of a     *)
(* frame.                                                                  *)
(***************************************************************************)
THEOREM ReentryCorrect == Spec => []ReentryInits
<1>1. Init => SessionInv
  BY DEF Init, SessionInv
<1>2. SessionInv /\ UNCHANGED vars => SessionInv'
  BY DEF SessionInv, vars, loop, history
<1>3. SessionInv /\ Host => SessionInv'
  BY HostFrame DEF SessionInv
<1>4. TypeOK /\ SessionInv /\ [Next]_vars => SessionInv'
  BY <1>2, <1>3, SessionStep DEF Next
<1>5. SessionInv => ReentryInits
  BY DEF SessionInv, ReentryInits
<1> QED
  BY <1>1, <1>4, <1>5, TypeCorrect, PTL DEF Spec

LEMMA MappingStep ==
  ASSUME TypeOK, MappingInv, Loop
  PROVE  MappingInv'
<1> USE DEF MappingInv, Goto
<1>1. CASE FrameDark
  BY <1>1 DEF FrameDark, history
<1>2. CASE FrameLit
  BY <1>2 DEF FrameLit, history
<1>3. CASE ChooseMapping
  BY <1>3 DEF ChooseMapping
<1>4. CASE TakeOverride
  BY <1>4 DEF TakeOverride, history
<1>5. CASE Detect
  BY <1>5 DEF Detect
<1>6. CASE Latch
  BY <1>6 DEF Latch, history
<1>7. CASE Switch
  BY <1>7 DEF Switch, history
<1>8. CASE InitProgram
  BY <1>8 DEF InitProgram
<1>9. CASE RunProgram
  BY <1>9 DEF RunProgram
<1>10. CASE Show
  BY <1>10 DEF Show, history
<1> QED
  BY <1>1, <1>2, <1>3, <1>4, <1>5, <1>6, <1>7, <1>8, <1>9, <1>10 DEF Loop

(***************************************************************************)
(* In every build, the mapping lags a program change by one frame at most. *)
(***************************************************************************)
THEOREM MappingCorrect == Spec => []MappingSettles
<1>1. Init => MappingInv
  BY ProgramAssumption, MappingAssumption DEF Init, MappingInv
<1>2. MappingInv /\ UNCHANGED vars => MappingInv'
  BY DEF MappingInv, vars, loop, history
<1>3. MappingInv /\ Host => MappingInv'
  BY HostFrame DEF MappingInv
<1>4. TypeOK /\ MappingInv /\ [Next]_vars => MappingInv'
  BY <1>2, <1>3, MappingStep DEF Next
<1>5. MappingInv => MappingSettles
  BY DEF MappingInv, MappingSettles
<1> QED
  BY <1>1, <1>4, <1>5, TypeCorrect, PTL DEF Spec

-----------------------------------------------------------------------------
(* One store brings a global closer to where it settles.                   *)
LEMMA StoreSettles ==
  ASSUME NEW stores \in Seq(Store), stores # <<>>,
         NEW dest, NEW now, NEW val, Settles(stores, dest, now, val)
  PROVE  Settles(Tail(stores), dest,
                 IF Head(stores)[1] = dest THEN Head(stores)[2] ELSE now, val)
<1> DEFINE rest == Tail(stores)
<1>1. Len(stores) \in Nat /\ Len(stores) >= 1 /\ Head(stores) = stores[1]
  OBVIOUS
<1>2. Len(rest) = Len(stores) - 1
  BY <1>1
<1>3. \A i \in 1 .. Len(rest) : rest[i] = stores[i + 1] /\ i + 1 \in 1 .. Len(stores)
  BY <1>1, <1>2
<1>4. \A j \in 1 .. Len(stores) : j = 1 \/ (j - 1 \in 1 .. Len(rest) /\ rest[j - 1] = stores[j])
  BY <1>1, <1>2
<1> HIDE DEF rest
<1>5. \A i \in 1 .. Len(rest) : rest[i][1] = dest => rest[i][2] = val
  BY <1>3 DEF Settles
<1>6. (IF Head(stores)[1] = dest THEN Head(stores)[2] ELSE now) = val
      \/ \E i \in 1 .. Len(rest) : rest[i][1] = dest
  <2>1. CASE Head(stores)[1] = dest
    BY <1>1, <2>1 DEF Settles
  <2>2. CASE Head(stores)[1] # dest
    BY <1>1, <1>4, <2>2 DEF Settles
  <2> QED
    BY <2>1, <2>2
<1> QED
  BY <1>5, <1>6 DEF Settles, rest

LEMMA FileType ==
  ASSUME TypeOK, NEW s \in Slot, preset[s] # NoPreset
  PROVE  /\ preset[s].programNum \in Program
         /\ preset[s].modeNum \in Mode \cup {NoMode}
         /\ preset[s].parameters \in Param
  BY DEF TypeOK, PresetFile

(* A save makes the file it writes consistent and leaves the others alone. *)
LEMMA FileStep ==
  ASSUME TypeOK, FileInv, Host
  PROVE  FileInv'
<1>1. CASE UNCHANGED <<preset, savedAs>>
  BY <1>1 DEF FileInv
<1>2. ASSUME NEW s \in Slot, SavePreset(s) PROVE FileInv'
  <2>1. DOMAIN savedAs' = Slot /\ DOMAIN preset = Slot
    BY <1>2 DEF SavePreset, FileInv, TypeOK
  <2>2. savedAs'[s] = <<Visualizer(program, mode), params>>
    BY <1>2 DEF SavePreset, FileInv
  <2>3. /\ preset'[s].programNum = program
        /\ preset'[s].modeNum = IF ModeCount[program] > 0 THEN mode ELSE NoMode
        /\ preset'[s].parameters = params
    BY <1>2, <2>1 DEF SavePreset
  <2>4. \A t \in Slot : t # s => preset'[t] = preset[t] /\ savedAs'[t] = savedAs[t]
    BY <1>2, <2>1 DEF SavePreset, FileInv
  <2>5. program \in Program /\ mode \in Mode /\ ModeCount[program] \in Nat
    BY ModeAssumption DEF TypeOK
  <2>6. IF preset'[s].modeNum = NoMode
        THEN \A m \in Mode : savedAs'[s] = Shows(preset'[s], m)
        ELSE savedAs'[s] = Shows(preset'[s], preset'[s].modeNum)
    <3>1. CASE ModeCount[program] > 0
      BY <2>2, <2>3, <2>5, <3>1, PresetAssumption DEF Shows
    <3>2. CASE ~(ModeCount[program] > 0)
      <4>1. \A m \in Mode : Visualizer(program, m) = <<program>>
        BY <2>5, <3>2, ModeAssumption DEF Visualizer
      <4> QED
        BY <2>2, <2>3, <2>5, <3>2, <4>1 DEF Shows
    <3> QED
      BY <3>1, <3>2
  <2> QED
    BY <2>1, <2>4, <2>6 DEF FileInv
<1> QED
  BY <1>1, <1>2 DEF Host, HostCallback, HostStore, SelectProgram, SelectMode, SwitchDisplay,
     SetOverride, SetParam, LoadPreset, Callback, history

LEMMA LoadStep ==
  ASSUME TypeOK, LoadInv, Host
  PROVE  LoadInv'
<1>1. CASE HostStore
  <2>1. loaded' = loaded /\ preset' = preset /\ todo # <<>> /\ todo' = Tail(todo)
        /\ todo \in Seq(Store)
    BY <1>1 DEF HostStore, history, TypeOK
  <2>2. ASSUME Settles(todo, "PROGRAM", program, preset[loaded].programNum)
        PROVE  Settles(todo, "PROGRAM", program, preset[loaded].programNum)'
    <3>1. program' = IF Head(todo)[1] = "PROGRAM" THEN Head(todo)[2] ELSE program
      BY <1>1 DEF HostStore
    <3> QED
      BY <2>1, <2>2, <3>1, StoreSettles
  <2>3. ASSUME Settles(todo, "MODE", mode, preset[loaded].modeNum)
        PROVE  Settles(todo, "MODE", mode, preset[loaded].modeNum)'
    <3>1. mode' = IF Head(todo)[1] = "MODE" THEN Head(todo)[2] ELSE mode
      BY <1>1 DEF HostStore
    <3> QED
      BY <2>1, <2>3, <3>1, StoreSettles
  <2>4. ASSUME Settles(todo, "params", params, preset[loaded].parameters)
        PROVE  Settles(todo, "params", params, preset[loaded].parameters)'
    <3>1. params' = IF Head(todo)[1] = "params" THEN Head(todo)[2] ELSE params
      BY <1>1 DEF HostStore
    <3> QED
      BY <2>1, <2>4, <3>1, StoreSettles
  <2> QED
    BY <2>1, <2>2, <2>3, <2>4 DEF LoadInv
<1>2. ASSUME NEW p \in Program, SelectProgram(p) PROVE LoadInv'
  BY <1>2 DEF SelectProgram, Callback, LoadInv
<1>3. ASSUME NEW m \in Mode, SelectMode(m) PROVE LoadInv'
  BY <1>3 DEF SelectMode, Callback, LoadInv
<1>4. ASSUME NEW on \in BOOLEAN, SwitchDisplay(on) PROVE LoadInv'
  BY <1>4 DEF SwitchDisplay, Callback, LoadInv, Settles, shared
<1>5. ASSUME NEW on \in BOOLEAN, SetOverride(on) PROVE LoadInv'
  BY <1>5 DEF SetOverride, Callback, LoadInv, Settles, shared
<1>6. ASSUME NEW v \in Param, SetParam(v) PROVE LoadInv'
  BY <1>6 DEF SetParam, Callback, LoadInv
<1>7. ASSUME NEW s \in Slot, SavePreset(s) PROVE LoadInv'
  <2>1. loaded' # NoSlot => loaded' = loaded /\ preset'[loaded] = preset[loaded]
    BY <1>7 DEF SavePreset, TypeOK
  <2>2. UNCHANGED <<program, mode, params, todo>>
    BY <1>7 DEF SavePreset, shared
  <2> QED
    BY <2>1, <2>2 DEF LoadInv, Settles
<1>8. ASSUME NEW s \in Slot, LoadPreset(s) PROVE LoadInv'
  <2>1. loaded' = s /\ preset' = preset /\ preset[s] # NoPreset
        /\ todo' = LoadStores(preset[s])
    BY <1>8 DEF LoadPreset, Callback
  <2>2. CASE preset[s].modeNum = NoMode
    BY <2>1, <2>2 DEF LoadStores, LoadInv, Settles
  <2>3. CASE preset[s].modeNum # NoMode
    BY <2>1, <2>3 DEF LoadStores, LoadInv, Settles
  <2> QED
    BY <2>2, <2>3
<1> QED
  BY <1>1, <1>2, <1>3, <1>4, <1>5, <1>6, <1>7, <1>8 DEF Host, HostCallback

LEMMA LoopKeepsPresets ==
  Loop => UNCHANGED <<program, mode, params, todo, preset, savedAs, loaded>>
  BY DEF Loop, FrameDark, FrameLit, ChooseMapping, TakeOverride, Detect, Latch, Switch, InitProgram, RunProgram,
         Show, shared, host, history

(***************************************************************************)
(* Whatever the user did in between, and however loop() interleaves with   *)
(* the stores of the callback, a finished load shows what was on show when *)
(* the preset was saved.                                                   *)
(***************************************************************************)
THEOREM PresetCorrect == Spec => []PresetRestores
<1>1. Init => FileInv /\ LoadInv
  BY DEF Init, FileInv, LoadInv
<1>2. FileInv /\ LoadInv /\ UNCHANGED vars => FileInv' /\ LoadInv'
  BY DEF FileInv, LoadInv, Settles, vars, shared, host, history
<1>3. FileInv /\ LoadInv /\ Loop => FileInv' /\ LoadInv'
  BY LoopKeepsPresets DEF FileInv, LoadInv, Settles
<1>4. TypeOK /\ FileInv /\ LoadInv /\ [Next]_vars => FileInv' /\ LoadInv'
  BY <1>2, <1>3, FileStep, LoadStep DEF Next
<1>5. TypeOK /\ FileInv /\ LoadInv => PresetRestores
  <2> SUFFICES ASSUME TypeOK, FileInv, LoadInv, todo = <<>>, loaded # NoSlot
               PROVE  <<Visualizer(program, mode), params>> = savedAs[loaded]
    BY DEF PresetRestores
  <2>1. loaded \in Slot /\ preset[loaded] # NoPreset /\ mode \in Mode
    BY DEF TypeOK, LoadInv
  <2>2. program = preset[loaded].programNum /\ params = preset[loaded].parameters
        /\ (preset[loaded].modeNum # NoMode => mode = preset[loaded].modeNum)
    BY DEF LoadInv, Settles
  <2> QED
    BY <2>1, <2>2 DEF FileInv, Shows
<1> QED
  BY <1>1, <1>4, <1>5, TypeCorrect, PTL DEF Spec
=============================================================================
