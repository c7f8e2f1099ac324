---------------------------- MODULE UiSync_proofs ----------------------------
(***************************************************************************)
(* The page and the device agree when the air is quiet: for any programs,  *)
(* modes, parameters, registries, preset slots and number of user actions. *)
(***************************************************************************)
EXTENDS UiSync, SequenceTheorems, FiniteSetTheorems, TLAPS

(***************************************************************************)
(* What is in the air.  A receipt is the write it answers; only a state    *)
(* message carries a valuation of some of the parameters.                  *)
(***************************************************************************)
Selection == [type: {"program"}, val: Program] \cup [type: {"mode"}, val: Mode]
NumberMsg == [type: {"number"}, id: Param, val: Value]
Partial   == UNION {[S -> Value] : S \in SUBSET Param}
StateMsg  == [type: {"state"}, program: Program, mode: Mode, value: Partial]
Write     == Selection \cup NumberMsg \cup [type: {"save", "load"}, val: Slot]
             \cup [type: {"sync"}]
Report    == Selection \cup NumberMsg \cup StateMsg

\* The sliders a page can have rendered.
Panel == UNION {[S -> Slider] : S \in SUBSET Param}

\* Valuations the device can hold, and the files it can have written.
Stepped    == {f \in [Param -> Value] : \A p \in Param : OnStep(p, f[p])}
PresetFile == [program: Program, mode: SUBSET Mode, value: Stepped]

(***************************************************************************)
(* TypeOK is not inductive: it says nothing of the messages, the files and *)
(* the timer that the other variables are assigned from.                   *)
(***************************************************************************)
TypeInv ==
  /\ program \in Program /\ mode \in Mode /\ value \in Stepped
  /\ preset \in [Slot -> PresetFile \cup {NoPreset}]
  /\ connected \in BOOLEAN /\ pendingSync \in BOOLEAN
  /\ up \in Seq(Write) /\ down \in Seq(Report)
  /\ connected \/ (shown = <<>> /\ up = <<>> /\ down = <<>> /\ ~pendingSync)
  /\ uiProgram \in Program \cup {NoProgram} /\ uiMode \in Mode /\ listed \in 0 .. 20
  /\ shown \in Panel
  /\ timer \in {t \in [id: Param, val: Value] : OnStep(t.id, t.val)} \cup {NoTimer}

(***************************************************************************)
(* One of the messages of S is in the channel; the last one of S in it is  *)
(* one of G.                                                               *)
(***************************************************************************)
Has(ms, S)     == \E i \in 1 .. Len(ms) : ms[i] \in S
LastIs(ms, S, G) ==
  \A i \in 1 .. Len(ms) : ms[i] \in S =>
    ms[i] \in G \/ \E j \in i + 1 .. Len(ms) : ms[j] \in S

\* What sets the page's program (and its mode list), its mode, and a slider.
NamesProgram == {m \in Report : m.type \in {"program", "state"}}
NamesMode    == {m \in Report : m.type \in {"program", "mode", "state"}}
SetsSlider(p) == {m \in Report : m.type = "state" \/ (m.type = "number" /\ m.id = p)}
Writes(type)  == {m \in Write : m.type = type}
WritesTo(p)   == {m \in Write : m.type = "number" /\ m.id = p}

\* The ones among them that agree with the device.
TrueProgram ==
  {m \in Report : /\ m.type = "program" => m.val = program
                  /\ m.type = "state" => m.program = program}
TrueMode ==
  {m \in Report : /\ m.type = "program" => mode = 0
                  /\ m.type = "mode" => m.val = mode
                  /\ m.type = "state" => m.mode = mode}
TrueValue(p) ==
  {m \in Report : /\ m.type = "number" => Stored(p, m.val) = value[p]
                  /\ m.type = "state" /\ p \in DOMAIN m.value => m.value[p] = value[p]}

(***************************************************************************)
(* The page will agree.  While nothing was lost since the last state       *)
(* message, the last report that names the program has the device's, and   *)
(* when none is under way the page shows it, or a write is under way that  *)
(* will be answered.  The same for the mode, and for each slider; a        *)
(* dragged one is sent, or will be redrawn.                                *)
(***************************************************************************)
ProgramInv ==
  ~lost /\ ~byPreset =>
    /\ LastIs(down, NamesProgram, TrueProgram)
    /\ ~Has(down, NamesProgram) =>
         /\ listed = Modes(program)
         /\ uiProgram = program \/ Has(up, Writes("program"))

ModeInv ==
  ~lost /\ ~byPreset =>
    /\ LastIs(down, NamesMode, TrueMode)
    /\ ~Has(down, NamesMode) => uiMode = mode \/ Has(up, Writes("mode"))

SliderInv ==
  ~lost => \A p \in Param :
    /\ LastIs(down, SetsSlider(p), TrueValue(p))
    /\ ~Has(down, SetsSlider(p)) /\ p \in DOMAIN shown
         /\ shown[p].by \in {"typed", "device"}
       => Stored(p, shown[p].val) = value[p] \/ Has(up, WritesTo(p))

DragInv ==
  ~lost => \A p \in DOMAIN shown : shown[p].by = "drag" =>
    \/ timer # NoTimer /\ timer.id = p
    \/ Has(up, WritesTo(p))
    \/ Has(down, SetsSlider(p))

-----------------------------------------------------------------------------
(* Channels.                                                               *)

LEMMA RemoveAtType ==
  ASSUME NEW S, NEW s \in Seq(S), NEW i \in DOMAIN s
  PROVE  RemoveAt(s, i) \in Seq(S)
<1>1. i \in 1 .. Len(s) /\ Len(s) \in Nat
  BY LenProperties
<1>2. SubSeq(s, 1, i - 1) \in Seq(S)
  <2>1. \A j \in 1 .. i - 1 : s[j] \in S
    BY <1>1, ElementOfSeq
  <2> QED
    BY <1>1, <2>1, SubSeqProperties
<1>3. SubSeq(s, i + 1, Len(s)) \in Seq(S)
  <2>1. \A j \in i + 1 .. Len(s) : s[j] \in S
    BY <1>1, ElementOfSeq
  <2> QED
    BY <1>1, <2>1, SubSeqProperties
<1> QED
  BY <1>2, <1>3, ConcatProperties DEF RemoveAt

\* Sending adds to what is in a channel.
LEMMA HasAppend ==
  ASSUME NEW M, NEW ms \in Seq(M), NEW m \in M, NEW S, Has(ms, S) \/ m \in S
  PROVE  Has(Append(ms, m), S)
<1>1. /\ Len(ms) \in Nat /\ Len(Append(ms, m)) = Len(ms) + 1
      /\ \A i \in 1 .. Len(ms) : Append(ms, m)[i] = ms[i]
      /\ Append(ms, m)[Len(ms) + 1] = m
  BY AppendProperties, LenProperties
<1> QED
  BY <1>1 DEF Has

\* Handling takes the oldest message, and if it was the last of S, it was of G.
LEMMA TakeHead ==
  ASSUME NEW M, NEW ms \in Seq(M), ms # <<>>, NEW S
  PROVE  /\ Has(ms, S) => Head(ms) \in S \/ Has(Tail(ms), S)
         /\ \A G : LastIs(ms, S, G) => LastIs(Tail(ms), S, G)
         /\ \A G : LastIs(ms, S, G) /\ Head(ms) \in S /\ ~Has(Tail(ms), S) => Head(ms) \in G
<1>1. /\ Len(ms) \in Nat \ {0} /\ Len(Tail(ms)) = Len(ms) - 1 /\ Head(ms) = ms[1]
      /\ \A i \in 1 .. Len(ms) - 1 : Tail(ms)[i] = ms[i + 1]
  BY HeadTailProperties, EmptySeq
<1>2. \A j \in 2 .. Len(ms) : j - 1 \in 1 .. Len(ms) - 1 /\ Tail(ms)[j - 1] = ms[j]
  BY <1>1
<1>3. ASSUME NEW j \in 2 .. Len(ms), ms[j] \in S PROVE Has(Tail(ms), S)
  BY <1>1, <1>2, <1>3 DEF Has
<1>4. Has(ms, S) => Head(ms) \in S \/ Has(Tail(ms), S)
  <2> SUFFICES ASSUME NEW i \in 1 .. Len(ms), ms[i] \in S
               PROVE  Head(ms) \in S \/ Has(Tail(ms), S)
    BY DEF Has
  <2>1. i = 1 \/ i \in 2 .. Len(ms)
    BY <1>1
  <2> QED
    BY <1>1, <1>3, <2>1
<1>5. ASSUME NEW G, LastIs(ms, S, G) PROVE LastIs(Tail(ms), S, G)
  <2> SUFFICES ASSUME NEW i \in 1 .. Len(ms) - 1, Tail(ms)[i] \in S, Tail(ms)[i] \notin G
               PROVE  \E j \in i + 1 .. Len(ms) - 1 : Tail(ms)[j] \in S
    BY <1>1 DEF LastIs
  <2>1. i + 1 \in 1 .. Len(ms) /\ ms[i + 1] \in S /\ ms[i + 1] \notin G
    BY <1>1
  <2>2. PICK j \in i + 2 .. Len(ms) : ms[j] \in S
    BY <1>5, <2>1 DEF LastIs
  <2>3. j \in 2 .. Len(ms) /\ j - 1 \in i + 1 .. Len(ms) - 1
    BY <1>1, <2>2
  <2> QED
    BY <1>2, <2>2, <2>3
<1>6. ASSUME NEW G, LastIs(ms, S, G), Head(ms) \in S, ~Has(Tail(ms), S) PROVE Head(ms) \in G
  <2>1. 1 \in 1 .. Len(ms)
    BY <1>1
  <2> QED
    BY <1>1, <1>3, <1>6, <2>1 DEF LastIs
<1> QED
  BY <1>4, <1>5, <1>6

\* New messages decide what is last when one of them is of S.
LEMMA PutBehind ==
  ASSUME NEW M, NEW old \in Seq(M), NEW new \in Seq(M), NEW S
  PROVE  /\ Has(old \o new, S) <=> Has(old, S) \/ Has(new, S)
         /\ \A G : LastIs(new, S, G) /\ (Has(new, S) \/ LastIs(old, S, G))
              => LastIs(old \o new, S, G)
<1> DEFINE all == old \o new
<1>1. /\ Len(old) \in Nat /\ Len(new) \in Nat /\ Len(all) = Len(old) + Len(new)
      /\ \A i \in 1 .. Len(all) : all[i] = IF i <= Len(old) THEN old[i] ELSE new[i - Len(old)]
  BY ConcatProperties, LenProperties
<1> HIDE DEF all
<1>2. \A i \in 1 .. Len(old) : i \in 1 .. Len(all) /\ all[i] = old[i]
  BY <1>1
<1>3. \A i \in 1 .. Len(new) : i + Len(old) \in Len(old) + 1 .. Len(all) /\ all[i + Len(old)] = new[i]
  BY <1>1
<1>4. \A i \in 1 .. Len(all) : i > Len(old) => i - Len(old) \in 1 .. Len(new) /\ all[i] = new[i - Len(old)]
  BY <1>1
<1>5. Has(all, S) <=> Has(old, S) \/ Has(new, S)
  BY <1>1, <1>2, <1>3, <1>4 DEF Has
<1>6. ASSUME NEW G, LastIs(new, S, G), Has(new, S) \/ LastIs(old, S, G)
      PROVE  LastIs(all, S, G)
  <2> SUFFICES ASSUME NEW i \in 1 .. Len(all), all[i] \in S, all[i] \notin G
               PROVE  \E j \in i + 1 .. Len(all) : all[j] \in S
    BY DEF LastIs
  <2>1. CASE i > Len(old)
    <3>1. PICK j \in i - Len(old) + 1 .. Len(new) : new[j] \in S
      BY <1>4, <1>6, <2>1 DEF LastIs
    <3>2. j \in 1 .. Len(new) /\ j + Len(old) \in i + 1 .. Len(all)
      BY <1>1, <2>1, <3>1
    <3> QED
      BY <1>3, <3>1, <3>2
  <2>2. CASE i <= Len(old) /\ Has(new, S)
    <3>1. PICK j \in 1 .. Len(new) : new[j] \in S
      BY <2>2 DEF Has
    <3>2. j + Len(old) \in i + 1 .. Len(all)
      BY <1>1, <2>2
    <3> QED
      BY <1>3, <3>1, <3>2
  <2>3. CASE i <= Len(old) /\ LastIs(old, S, G)
    <3>1. i \in 1 .. Len(old) /\ old[i] = all[i]
      BY <1>2, <2>3
    <3>2. PICK j \in i + 1 .. Len(old) : old[j] \in S
      BY <2>3, <3>1 DEF LastIs
    <3>3. j \in 1 .. Len(old) /\ j \in i + 1 .. Len(all)
      BY <1>1, <3>1, <3>2
    <3> QED
      BY <1>2, <3>2, <3>3
  <2> QED
    BY <1>1, <1>6, <2>1, <2>2, <2>3
<1> QED
  BY <1>5, <1>6 DEF all

LEMMA OneMessage ==
  ASSUME NEW M, NEW m \in M, NEW S
  PROVE  /\ <<m>> \in Seq(M)
         /\ Has(<<m>>, S) <=> m \in S
         /\ \A G : m \in S /\ m \in G => LastIs(<<m>>, S, G)
         /\ \A G : m \notin S => LastIs(<<m>>, S, G)
  BY DEF Has, LastIs

-----------------------------------------------------------------------------
(* Types.                                                                  *)

LEMMA ModeTypes ==
  /\ 0 \in Mode
  /\ \A p : Modes(p) \in 0 .. 20
<1>1. 0 \in Mode
  BY DEF Mode
<1>2. UiModeCount \in [Program -> 0 .. 20]
  BY SyncAssumption
<1> QED
  BY <1>1, <1>2 DEF Modes

LEMMA PanelType ==
  /\ \A S \in SUBSET Param : [S -> Slider] \subseteq Panel
  /\ \A f \in Panel : DOMAIN f \subseteq Param /\ f \in [DOMAIN f -> Slider]
  BY DEF Panel

\* Conversion gives a value a slider of that parameter can hold.
LEMMA StoredType ==
  ASSUME NEW p \in Param, NEW v \in Value
  PROVE  Stored(p, v) \in Value /\ OnStep(p, Stored(p, v))
<1>1. v \in Int /\ v - (v % 2) \in Value
  BY SyncAssumption
<1>2. (v - (v % 2)) % 2 = 0
  BY <1>1
<1> QED
  BY <1>1, <1>2 DEF Stored, OnStep

\* Drawn again, every slider of the visualizer is at the page's default.
LEMMA RenderType ==
  ASSUME NEW p, NEW m
  PROVE  /\ Render(p, m) \in Panel
         /\ \A q \in DOMAIN Render(p, m) : Render(p, m)[q].by = "default"
<1> DEFINE S == ParamsOf(UiParams, Visualizer(UiModeCount, p, m))
<1>1. S \in SUBSET Param
  BY SyncAssumption DEF ParamsOf
<1>2. \A q \in S : [val |-> UiDefault[q], by |-> "default"] \in Slider
  BY <1>1, SyncAssumption DEF Slider
<1> HIDE DEF S
<1>3. [q \in S |-> [val |-> UiDefault[q], by |-> "default"]] \in [S -> Slider]
  BY <1>2
<1> QED
  BY <1>1, <1>3, PanelType DEF Render, S

LEMMA SetType ==
  ASSUME shown \in Panel, NEW q, NEW v \in Value, NEW by \in {"typed", "device"}
  PROVE  /\ Set(q, v, by) \in Panel
         /\ DOMAIN Set(q, v, by) = DOMAIN shown
         /\ \A r \in DOMAIN shown :
              Set(q, v, by)[r] = IF r = q THEN [val |-> v, by |-> by] ELSE shown[r]
<1>1. [val |-> v, by |-> by] \in Slider
  BY DEF Slider
<1>2. DOMAIN shown \subseteq Param /\ shown \in [DOMAIN shown -> Slider]
  BY PanelType
<1>3. Set(q, v, by) \in [DOMAIN shown -> Slider]
  BY <1>1, <1>2 DEF Set
<1> QED
  BY <1>2, <1>3, PanelType DEF Set

LEMMA TypeInit == Init => TypeInv
<1> SUFFICES ASSUME Init PROVE TypeInv
  OBVIOUS
<1>1. BootValue \in Stepped
  <2>1. \A p \in Param : BootValue[p] \in Int
    BY SyncAssumption
  <2>2. \A p \in IntegerParam : BootValue[p] % 2 = 0 /\ p \in Param
    BY SyncAssumption
  <2>3. \A p \in Param : OnStep(p, BootValue[p])
    BY <2>1, <2>2 DEF OnStep, Stored
  <2> QED
    BY <2>3, SyncAssumption DEF Stepped
<1>2. <<>> \in Seq(Write) /\ <<>> \in Seq(Report)
  BY EmptySeq
<1>3. <<>> \in Panel
  <2>1. <<>> \in [{} -> Slider]
    OBVIOUS
  <2> QED
    BY <2>1, PanelType
<1>4. /\ BootProgram \in Program /\ BootMode \in Mode
      /\ 0 \in Mode /\ 0 \in 0 .. 20
  BY ModeTypes, SyncAssumption
<1> QED
  BY <1>1, <1>2, <1>3, <1>4 DEF Init, TypeInv

\* What the page sends is a write.
LEMMA WriteTypes ==
  /\ \A p \in Param, v \in Value : Number(p, v) \in NumberMsg
  /\ \A p \in Program : [type |-> "program", val |-> p] \in Selection
  /\ \A m \in Mode : [type |-> "mode", val |-> m] \in Selection
  /\ \A s \in Slot, type \in {"save", "load"} : [type |-> type, val |-> s] \in Write
  /\ [type |-> "sync"] \in Write
  /\ NumberMsg \subseteq Write /\ Selection \subseteq Write
  /\ NumberMsg \subseteq Report /\ Selection \subseteq Report /\ StateMsg \subseteq Report
  BY DEF Number, NumberMsg, Selection, StateMsg, Write, Report

LEMMA SendType ==
  ASSUME TypeInv, NEW m \in Write, Send(m)
  PROVE  up' \in Seq(Write)
  BY AppendProperties DEF TypeInv, Send

LEMMA SlidersType ==
  ASSUME TypeInv, NEW p \in Param, NEW v \in Value, Type(p, v) \/ Drag(p, v)
  PROVE  TypeInv'
<1>1. connected /\ connected' /\ p \in DOMAIN shown
  BY DEF Type, Drag, UserActs
<1>2. shown \in Panel /\ DOMAIN shown \subseteq Param /\ shown \in [DOMAIN shown -> Slider]
  BY PanelType DEF TypeInv
<1>3. CASE Type(p, v)
  <2>1. up' \in Seq(Write)
    BY <1>3, SendType, WriteTypes DEF Type
  <2>2. shown' \in Panel
    BY <1>2, <1>3, SetType DEF Type
  <2> QED
    BY <1>1, <1>3, <2>1, <2>2 DEF Type, TypeInv, device
<1>4. CASE Drag(p, v)
  <2>1. \A q \in DOMAIN shown : Cut(q) \in Slider
    BY <1>2 DEF Cut, Slider
  <2>2. [val |-> v, by |-> "drag"] \in Slider
    BY DEF Slider
  <2>3. shown' \in [DOMAIN shown -> Slider]
    BY <1>4, <2>1, <2>2 DEF Drag
  <2>4. shown' \in Panel
    BY <1>2, <2>3, PanelType
  <2>5. timer' \in {t \in [id: Param, val: Value] : OnStep(t.id, t.val)}
    BY <1>4 DEF Drag
  <2> QED
    BY <1>1, <1>4, <2>4, <2>5 DEF Drag, TypeInv, device
<1> QED
  BY <1>3, <1>4

LEMMA UserType ==
  ASSUME TypeInv, User
  PROVE  TypeInv'
<1>1. ASSUME NEW p \in Param, NEW v \in Value, Type(p, v) \/ Drag(p, v) PROVE TypeInv'
  BY <1>1, SlidersType
<1>2. ASSUME NEW p \in Program, SelectProgram(p) PROVE TypeInv'
  <2>1. up' \in Seq(Write)
    BY <1>2, SendType, WriteTypes DEF SelectProgram
  <2>2. shown' \in Panel
    BY <1>2, RenderType DEF SelectProgram
  <2> QED
    BY <1>2, <2>1, <2>2 DEF SelectProgram, UserActs, TypeInv, device
<1>3. ASSUME NEW m \in Mode, SelectMode(m) PROVE TypeInv'
  <2>1. up' \in Seq(Write)
    BY <1>3, SendType, WriteTypes DEF SelectMode
  <2>2. shown' \in Panel
    BY <1>3, RenderType DEF SelectMode
  <2> QED
    BY <1>3, <2>1, <2>2 DEF SelectMode, UserActs, TypeInv, device
<1>4. ASSUME NEW s \in Slot, NEW type \in {"save", "load"}, PressPreset(type, s) PROVE TypeInv'
  <2>1. up' \in Seq(Write)
    BY <1>4, SendType, WriteTypes DEF PressPreset
  <2> QED
    BY <1>4, <2>1 DEF PressPreset, UserActs, TypeInv, device, page
<1>5. CASE PressSync
  <2>1. up' \in Seq(Write)
    BY <1>5, SendType, WriteTypes DEF PressSync
  <2> QED
    BY <1>5, <2>1 DEF PressSync, UserActs, TypeInv, device, page
<1> QED
  BY <1>1, <1>2, <1>3, <1>4, <1>5 DEF User

LEMMA LinkType ==
  ASSUME TypeInv, Connect \/ SyncInitialState \/ DebounceFires \/ Disconnect
                  \/ LoseWrite \/ LoseNotification
  PROVE  TypeInv'
<1>1. CASE Connect
  BY <1>1 DEF Connect, TypeInv, device, page
<1>2. CASE SyncInitialState
  <2>1. up' \in Seq(Write)
    BY <1>2, SendType, WriteTypes DEF SyncInitialState
  <2> QED
    BY <1>2, <2>1 DEF SyncInitialState, TypeInv, device, page
<1>3. CASE DebounceFires
  <2>1. Number(timer.id, timer.val) \in Write
    BY <1>3, WriteTypes DEF DebounceFires, TypeInv
  <2>2. up' \in Seq(Write) /\ (connected \/ up' = up)
    BY <1>3, <2>1, AppendProperties DEF DebounceFires, TypeInv
  <2> QED
    BY <1>3, <2>2 DEF DebounceFires, TypeInv, device, page
<1>4. CASE Disconnect
  <2>1. <<>> \in Seq(Write) /\ <<>> \in Seq(Report) /\ <<>> \in Panel
    <3>1. <<>> \in [{} -> Slider]
      OBVIOUS
    <3> QED
      BY <3>1, EmptySeq, PanelType
  <2> QED
    BY <1>4, <2>1 DEF Disconnect, TypeInv, device
<1>5. CASE LoseWrite
  <2>1. up' \in Seq(Write) /\ up # <<>>
    BY <1>5, RemoveAtType, LenProperties, EmptySeq DEF LoseWrite, TypeInv
  <2> QED
    BY <1>5, <2>1 DEF LoseWrite, TypeInv, device, page
<1>6. CASE LoseNotification
  <2>1. down' \in Seq(Report) /\ down # <<>>
    BY <1>6, RemoveAtType, LenProperties, EmptySeq DEF LoseNotification, TypeInv
  <2> QED
    BY <1>6, <2>1 DEF LoseNotification, TypeInv, device, page
<1> QED
  BY <1>1, <1>2, <1>3, <1>4, <1>5, <1>6

\* A load is answered by the new value of every parameter it changes, and of
\* no other.
LEMMA ReceiptsOfNew ==
  ASSUME NEW old \in Stepped, NEW new \in Stepped, NEW ms \in Receipts(old, new)
  PROVE  /\ ms \in Seq(NumberMsg)
         /\ \A k \in 1 .. Len(ms) : ms[k].val = new[ms[k].id]
         /\ \A p \in Param : old[p] # new[p] => \E k \in 1 .. Len(ms) : ms[k].id = p
<1> DEFINE changed == Changed(old, new)
<1>1. PICK order \in [1 .. Cardinality(changed) -> changed] :
        /\ Range(order) = changed
        /\ ms = [k \in DOMAIN order |-> Number(ParamTable[order[k]], new[ParamTable[order[k]]])]
  BY DEF Receipts, InTableOrder
<1>2. /\ ParamTable \in Seq(Param) /\ Len(ParamTable) \in Nat
      /\ DOMAIN ParamTable = 1 .. Len(ParamTable)
      /\ \A i \in DOMAIN ParamTable : ParamTable[i] \in Param
  BY SyncAssumption, LenProperties, ElementOfSeq
<1>3. changed \subseteq 1 .. Len(ParamTable)
  BY <1>2 DEF Changed
<1>4. Cardinality(changed) \in Nat
  <2>1. IsFiniteSet(1 .. Len(ParamTable))
    BY <1>2, FS_Interval
  <2>2. IsFiniteSet(changed)
    BY <1>3, <2>1, FS_Subset
  <2> QED
    BY <2>2, FS_CardinalityType
<1>5. \A p \in Param : old[p] # new[p] => \E i \in changed : ParamTable[i] = p
  BY <1>2, SyncAssumption DEF Changed, Range
<1> HIDE DEF changed
<1>6. \A k \in 1 .. Cardinality(changed) :
        /\ ParamTable[order[k]] \in Param
        /\ Number(ParamTable[order[k]], new[ParamTable[order[k]]]) \in NumberMsg
  BY <1>1, <1>2, <1>3, WriteTypes DEF Stepped
<1>7. ms \in [1 .. Cardinality(changed) -> NumberMsg]
  BY <1>1, <1>6
<1>8. ms \in Seq(NumberMsg) /\ Len(ms) = Cardinality(changed)
  BY <1>4, <1>7
<1>9. \A k \in 1 .. Len(ms) : ms[k].id = ParamTable[order[k]] /\ ms[k].val = new[ParamTable[order[k]]]
  BY <1>1, <1>8 DEF Number
<1>10. ASSUME NEW p \in Param, old[p] # new[p] PROVE \E k \in 1 .. Len(ms) : ms[k].id = p
  <2>1. PICK i \in changed : ParamTable[i] = p
    BY <1>5, <1>10
  <2>2. PICK k \in DOMAIN order : order[k] = i
    BY <1>1, <2>1 DEF Range
  <2> QED
    BY <1>8, <1>9, <2>1, <2>2
<1> QED
  BY <1>8, <1>9, <1>10

\* The write the device handles, and the report the page does.
LEMMA HandleType ==
  ASSUME TypeInv, NEW type, Handle(type)
  PROVE  /\ connected /\ up # <<>> /\ up \in Seq(Write)
         /\ Head(up) \in Write /\ Head(up).type = type
         /\ up' = Tail(up) /\ up' \in Seq(Write)
  BY HeadTailProperties DEF Handle, TypeInv

LEMMA ReceiveType ==
  ASSUME TypeInv, NEW type, Receive(type)
  PROVE  /\ connected /\ down # <<>> /\ down \in Seq(Report)
         /\ Head(down) \in Report /\ Head(down).type = type
         /\ down' = Tail(down) /\ down' \in Seq(Report)
  BY HeadTailProperties DEF Receive, TypeInv

LEMMA NotifyType ==
  ASSUME TypeInv, NEW m \in Report, Notify(<<m>>)
  PROVE  down' \in Seq(Report)
  BY OneMessage, ConcatProperties DEF TypeInv, Notify

\* The state message of the current visualizer.
LEMMA StateType ==
  ASSUME TypeInv
  PROVE  [type |-> "state", program |-> program, mode |-> mode,
          value |-> [q \in ParamsOf(DeviceParams, Visualizer(ModeCount, program, mode)) |-> value[q]]]
           \in StateMsg
<1> DEFINE S == ParamsOf(DeviceParams, Visualizer(ModeCount, program, mode))
<1>1. S \in SUBSET Param
  BY SyncAssumption DEF ParamsOf
<1>2. [q \in S |-> value[q]] \in [S -> Value]
  BY <1>1 DEF TypeInv, Stepped
<1> HIDE DEF S
<1>3. [q \in S |-> value[q]] \in Partial
  BY <1>1, <1>2 DEF Partial
<1> QED
  BY <1>3 DEF StateMsg, TypeInv, S

LEMMA DeviceType ==
  ASSUME TypeInv, Device
  PROVE  TypeInv'
<1>1. CASE HandleProgram
  <2>1. Handle("program")
    BY <1>1 DEF HandleProgram
  <2>2. Head(up) \in Report /\ Head(up).val \in Program
    BY <2>1, HandleType DEF Write, Report, Selection, NumberMsg
  <2>3. down' \in Seq(Report)
    BY <1>1, <2>2, NotifyType DEF HandleProgram
  <2> QED
    BY <1>1, <2>1, <2>2, <2>3, HandleType, ModeTypes DEF HandleProgram, TypeInv, page
<1>2. CASE HandleMode
  <2>1. Handle("mode")
    BY <1>2 DEF HandleMode
  <2>2. Head(up) \in Report /\ Head(up).val \in Mode
    BY <2>1, HandleType DEF Write, Report, Selection, NumberMsg
  <2>3. down' \in Seq(Report)
    BY <1>2, <2>2, NotifyType DEF HandleMode
  <2> QED
    BY <1>2, <2>1, <2>2, <2>3, HandleType DEF HandleMode, TypeInv, page
<1>3. CASE HandleNumber
  <2>1. Handle("number")
    BY <1>3 DEF HandleNumber
  <2>2. Head(up) \in Report /\ Head(up).id \in Param /\ Head(up).val \in Value
    BY <2>1, HandleType DEF Write, Report, Selection, NumberMsg
  <2>3. down' \in Seq(Report)
    BY <1>3, <2>2, NotifyType DEF HandleNumber
  <2>4. value' \in Stepped
    BY <1>3, <2>2, StoredType DEF HandleNumber, TypeInv, Stepped
  <2> QED
    BY <1>3, <2>1, <2>3, <2>4, HandleType DEF HandleNumber, TypeInv, page
<1>4. CASE HandleSave
  <2>1. Handle("save")
    BY <1>4 DEF HandleSave
  <2>2. Head(up).val \in Slot
    BY <2>1, HandleType DEF Write, Selection, NumberMsg
  <2>3. [program |-> program,
         mode    |-> IF ModeCount[program] > 0 THEN {mode} ELSE {},
         value   |-> value] \in PresetFile
    BY DEF TypeInv, PresetFile
  <2>4. preset' \in [Slot -> PresetFile \cup {NoPreset}]
    BY <1>4, <2>2, <2>3 DEF HandleSave, TypeInv
  <2> QED
    BY <1>4, <2>1, <2>4, HandleType DEF HandleSave, TypeInv, page
<1>5. CASE HandleLoad
  <2>1. Handle("load")
    BY <1>5 DEF HandleLoad
  <2>2. Head(up).val \in Slot
    BY <2>1, HandleType DEF Write, Selection, NumberMsg
  <2> DEFINE f == preset[Head(up).val]
  <2>3. f \in PresetFile \cup {NoPreset}
    BY <2>2 DEF TypeInv
  <2>4. UNCHANGED <<preset, connected, pendingSync, page, timer>>
    BY <1>5 DEF HandleLoad
  <2>5. CASE f = NoPreset
    <3>1. UNCHANGED <<program, mode, value, down>>
      BY <1>5, <2>5 DEF HandleLoad
    <3> QED
      BY <2>1, <2>4, <3>1, HandleType DEF TypeInv, page
  <2>6. CASE f # NoPreset
    <3>1. f.program \in Program /\ f.mode \subseteq Mode /\ f.value \in Stepped
      BY <2>3, <2>6 DEF PresetFile
    <3>2. program' = f.program /\ mode' \in (IF f.mode = {} THEN {mode} ELSE f.mode)
          /\ value' = f.value
      BY <1>5, <2>6 DEF HandleLoad
    <3>3. PICK ms \in Receipts(value, f.value) : down' = down \o ms
      BY <1>5, <2>6 DEF HandleLoad, Notify
    <3>4. ms \in Seq(Report)
      BY <3>1, <3>3, ReceiptsOfNew, WriteTypes, SeqMonotonic DEF TypeInv
    <3>5. down' \in Seq(Report)
      BY <3>3, <3>4, ConcatProperties DEF TypeInv
    <3> HIDE DEF f
    <3> QED
      BY <2>1, <2>4, <3>1, <3>2, <3>5, HandleType DEF TypeInv, page
  <2> QED
    BY <2>5, <2>6
<1>6. CASE HandleSync
  <2>1. Handle("sync")
    BY <1>6 DEF HandleSync
  <2>2. down' \in Seq(Report)
    BY <1>6, StateType, WriteTypes, NotifyType DEF HandleSync
  <2> QED
    BY <1>6, <2>1, <2>2, HandleType DEF HandleSync, TypeInv, page, device
<1> QED
  BY <1>1, <1>2, <1>3, <1>4, <1>5, <1>6 DEF Device

LEMMA PageType ==
  ASSUME TypeInv, Page
  PROVE  TypeInv'
<1>1. CASE ShowProgram
  <2>1. Receive("program")
    BY <1>1 DEF ShowProgram
  <2>2. Head(down).val \in Program
    BY <2>1, ReceiveType DEF Report, Selection, NumberMsg, StateMsg
  <2>3. shown' \in Panel
    BY <1>1, RenderType DEF ShowProgram
  <2> QED
    BY <1>1, <2>1, <2>2, <2>3, ReceiveType, ModeTypes DEF ShowProgram, TypeInv, device
<1>2. CASE ShowMode
  <2>1. Receive("mode")
    BY <1>2 DEF ShowMode
  <2>2. Head(down).val \in Mode
    BY <2>1, ReceiveType DEF Report, Selection, NumberMsg, StateMsg
  <2>3. shown' \in Panel
    BY <1>2, RenderType DEF ShowMode
  <2> QED
    BY <1>2, <2>1, <2>2, <2>3, ReceiveType DEF ShowMode, TypeInv, device
<1>3. CASE ShowNumber
  <2>1. Receive("number")
    BY <1>3 DEF ShowNumber
  <2>2. Head(down).val \in Value
    BY <2>1, ReceiveType DEF Report, Selection, NumberMsg, StateMsg
  <2>3. shown' \in Panel
    BY <1>3, <2>2, SetType DEF ShowNumber, TypeInv
  <2> QED
    BY <1>3, <2>1, <2>3, ReceiveType DEF ShowNumber, TypeInv, device
<1>4. CASE ShowState
  <2>1. Receive("state")
    BY <1>4 DEF ShowState
  <2>2. /\ Head(down).program \in Program /\ Head(down).mode \in Mode
        /\ Head(down).value \in Partial
    BY <2>1, ReceiveType DEF Report, Selection, NumberMsg, StateMsg
  <2>3. shown' \in Panel
    <3> DEFINE drawn == Render(uiProgram', uiMode')
               got == Head(down).value
    <3>1. shown' = [q \in DOMAIN drawn |-> IF q \in DOMAIN got
                                            THEN [val |-> got[q], by |-> "device"]
                                            ELSE drawn[q]]
      BY <1>4 DEF ShowState
    <3>2. drawn \in [DOMAIN drawn -> Slider] /\ DOMAIN drawn \in SUBSET Param
      BY RenderType, PanelType
    <3>3. \A q \in DOMAIN got : got[q] \in Value
      BY <2>2 DEF Partial
    <3> HIDE DEF drawn, got
    <3>4. \A q \in DOMAIN got : [val |-> got[q], by |-> "device"] \in Slider
      BY <3>3 DEF Slider
    <3>5. shown' \in [DOMAIN drawn -> Slider]
      BY <3>1, <3>2, <3>4
    <3> QED
      BY <3>2, <3>5, PanelType
  <2> QED
    BY <1>4, <2>1, <2>2, <2>3, ReceiveType, ModeTypes DEF ShowState, TypeInv, device
<1> QED
  BY <1>1, <1>2, <1>3, <1>4 DEF Page

LEMMA TypeStep == TypeInv /\ [Next]_vars => TypeInv'
<1>1. TypeInv /\ UNCHANGED vars => TypeInv'
  BY DEF TypeInv, vars, device, page
<1> QED
  BY <1>1, UserType, LinkType, DeviceType, PageType DEF Next

(***************************************************************************)
(* Every reachable state is well typed: what the device stores is always a *)
(* value of the parameter's own type, whatever the page sent and whatever  *)
(* a preset holds, and a closed connection leaves nothing in the air.      *)
(***************************************************************************)
THEOREM TypeCorrect == Spec => []TypeOK
<1>1. TypeInv => TypeOK
  <2> SUFFICES ASSUME TypeInv PROVE TypeOK
    OBVIOUS
  <2>1. value \in [Param -> Value] /\ \A p \in Param : OnStep(p, value[p])
    BY DEF TypeInv, Stepped
  <2>2. DOMAIN shown \subseteq Param /\ \A p \in DOMAIN shown : shown[p] \in Slider
    BY PanelType DEF TypeInv
  <2>3. timer = NoTimer \/ OnStep(timer.id, timer.val)
    BY DEF TypeInv
  <2> QED
    BY <2>1, <2>2, <2>3 DEF TypeInv, TypeOK
<1> QED
  BY TypeInit, TypeStep, <1>1, PTL DEF Spec

-----------------------------------------------------------------------------
(* What each kind of step does to the channels.                            *)

\* The page's own events only add writes.
LEMMA OwnEvents ==
  ASSUME TypeInv, User \/ Connect \/ SyncInitialState \/ DebounceFires
  PROVE  /\ UNCHANGED <<device, down, lost, byPreset>>
         /\ \A S : Has(up, S) => Has(up', S)
<1>1. UNCHANGED <<device, down, lost, byPreset>>
  BY DEF User, Type, Drag, SelectProgram, SelectMode, PressPreset, PressSync, Connect,
         SyncInitialState, DebounceFires
<1>2. up' = up \/ \E m \in Write : up' = Append(up, m)
  <2>1. ASSUME NEW p \in Param, NEW v \in Value, Type(p, v) \/ Drag(p, v)
        PROVE  up' = up \/ \E m \in Write : up' = Append(up, m)
    BY <2>1, WriteTypes DEF Type, Drag, Send
  <2>2. ASSUME NEW p \in Program, SelectProgram(p)
        PROVE  \E m \in Write : up' = Append(up, m)
    BY <2>2, WriteTypes DEF SelectProgram, Send
  <2>3. ASSUME NEW m \in Mode, SelectMode(m)
        PROVE  \E w \in Write : up' = Append(up, w)
    BY <2>3, WriteTypes DEF SelectMode, Send
  <2>4. ASSUME NEW s \in Slot, NEW type \in {"save", "load"}, PressPreset(type, s)
        PROVE  \E m \in Write : up' = Append(up, m)
    BY <2>4, WriteTypes DEF PressPreset, Send
  <2>5. CASE PressSync \/ SyncInitialState
    BY <2>5, WriteTypes DEF PressSync, SyncInitialState, Send
  <2>6. CASE Connect
    BY <2>6 DEF Connect
  <2>7. CASE DebounceFires
    <3>1. Number(timer.id, timer.val) \in Write
      BY <2>7, WriteTypes DEF DebounceFires, TypeInv
    <3> QED
      BY <2>7, <3>1 DEF DebounceFires
  <2> QED
    BY <2>1, <2>2, <2>3, <2>4, <2>5, <2>6, <2>7 DEF User
<1>3. ASSUME NEW S, Has(up, S) PROVE Has(up', S)
  <2>1. ASSUME NEW m \in Write, up' = Append(up, m) PROVE Has(up', S)
    BY <1>3, <2>1, HasAppend DEF TypeInv
  <2> QED
    BY <1>2, <1>3, <2>1
<1> QED
  BY <1>1, <1>3

LEMMA Handled ==
  ASSUME TypeInv, NEW type, Handle(type)
  PROVE  \A S : Has(up, S) /\ Head(up) \notin S => Has(up', S)
  BY HandleType, TakeHead

LEMMA Received ==
  ASSUME TypeInv, NEW type, Receive(type)
  PROVE  /\ \A S : Has(down, S) /\ Head(down) \notin S => Has(down', S)
         /\ \A S, G : LastIs(down, S, G) => LastIs(down', S, G)
         /\ \A S, G : LastIs(down, S, G) /\ Head(down) \in S /\ ~Has(down', S)
              => Head(down) \in G
<1>1. down \in Seq(Report) /\ down # <<>> /\ down' = Tail(down)
  BY ReceiveType
<1> QED
  BY <1>1, TakeHead

LEMMA Notified ==
  ASSUME TypeInv, NEW m \in Report, Notify(<<m>>)
  PROVE  /\ \A S : Has(down', S) <=> Has(down, S) \/ m \in S
         /\ \A S, G : m \in S /\ m \in G => LastIs(down', S, G)
         /\ \A S, G : m \notin S /\ LastIs(down, S, G) => LastIs(down', S, G)
<1>1. <<m>> \in Seq(Report) /\ down \in Seq(Report) /\ down' = down \o <<m>>
  BY OneMessage DEF TypeInv, Notify
<1>2. ASSUME NEW S
      PROVE  /\ Has(<<m>>, S) <=> m \in S
             /\ \A G : m \in S /\ m \in G => LastIs(<<m>>, S, G)
             /\ \A G : m \notin S => LastIs(<<m>>, S, G)
  BY OneMessage
<1>3. ASSUME NEW S
      PROVE  /\ Has(down', S) <=> Has(down, S) \/ m \in S
             /\ \A G : m \in S /\ m \in G => LastIs(down', S, G)
             /\ \A G : m \notin S /\ LastIs(down, S, G) => LastIs(down', S, G)
  BY <1>1, <1>2, PutBehind
<1> QED
  BY <1>3

\* A write is answered by itself.
LEMMA Answered ==
  ASSUME TypeInv, NEW type \in {"program", "mode", "number"}, Handle(type)
  PROVE  Head(up) \in Report /\ Head(up).type = type
  BY HandleType DEF Write, Report, Selection, NumberMsg

LEMMA Losses ==
  Disconnect \/ LoseWrite \/ LoseNotification => lost'
  BY DEF Disconnect, LoseWrite, LoseNotification

-----------------------------------------------------------------------------
(* The program and its modes.                                              *)

LEMMA ProgramByPage ==
  ASSUME TypeInv, ProgramInv, User \/ Connect \/ SyncInitialState \/ DebounceFires
  PROVE  ProgramInv'
<1>1. /\ UNCHANGED <<program, down, lost, byPreset>>
      /\ \A S : Has(up, S) => Has(up', S)
  BY OwnEvents DEF device
<1>2. TrueProgram' = TrueProgram
  BY <1>1 DEF TrueProgram
<1>3. UNCHANGED listed
  BY DEF User, Type, Drag, SelectProgram, SelectMode, PressPreset, PressSync, Connect,
         SyncInitialState, DebounceFires, page
<1>4. uiProgram' = uiProgram \/ Has(up', Writes("program"))
  <2>1. ASSUME NEW p \in Program, SelectProgram(p) PROVE Has(up', Writes("program"))
    <3>1. [type |-> "program", val |-> p] \in Write
      BY WriteTypes
    <3>2. [type |-> "program", val |-> p] \in Writes("program")
      BY <3>1 DEF Writes
    <3> QED
      BY <2>1, <3>1, <3>2, HasAppend DEF SelectProgram, Send, TypeInv
  <2> QED
    BY <2>1 DEF User, Type, Drag, SelectMode, PressPreset, PressSync, Connect,
         SyncInitialState, DebounceFires, page
<1> QED
  BY <1>1, <1>2, <1>3, <1>4 DEF ProgramInv

LEMMA ProgramByDevice ==
  ASSUME TypeInv, ProgramInv, Device
  PROVE  ProgramInv'
<1>p. UNCHANGED <<uiProgram, listed>>
  BY DEF Device, HandleProgram, HandleMode, HandleNumber, HandleSave, HandleLoad, HandleSync, page
<1>1. CASE HandleProgram
  <2> DEFINE m == Head(up)
  <2>1. Handle("program") /\ program' = m.val /\ Notify(<<m>>)
    BY <1>1 DEF HandleProgram
  <2>2. m \in Report /\ m.type = "program"
    BY <2>1, Answered
  <2>3. m \in NamesProgram /\ m \in TrueProgram'
    BY <2>1, <2>2 DEF NamesProgram, TrueProgram
  <2> HIDE DEF m
  <2> QED
    BY <2>1, <2>2, <2>3, Notified DEF ProgramInv
<1>2. CASE HandleMode \/ HandleNumber
  <2>1. PICK type \in {"mode", "number"} : Handle(type)
    BY <1>2 DEF HandleMode, HandleNumber
  <2>2. UNCHANGED <<program, lost, byPreset>> /\ Notify(<<Head(up)>>)
    BY <1>2 DEF HandleMode, HandleNumber
  <2>3. Head(up) \in Report /\ Head(up) \notin NamesProgram /\ Head(up) \notin Writes("program")
    BY <2>1, Answered DEF NamesProgram, Writes
  <2>4. TrueProgram' = TrueProgram
    BY <2>2 DEF TrueProgram
  <2> QED
    BY <1>p, <2>1, <2>2, <2>3, <2>4, Handled, Notified DEF ProgramInv
<1>3. CASE HandleSave
  <2>1. Handle("save") /\ UNCHANGED <<program, lost, byPreset, down>>
    BY <1>3 DEF HandleSave
  <2>2. Head(up) \notin Writes("program")
    BY <2>1, HandleType DEF Writes
  <2>3. TrueProgram' = TrueProgram
    BY <2>1 DEF TrueProgram
  <2> QED
    BY <1>p, <2>1, <2>2, <2>3, Handled DEF ProgramInv
<1>4. CASE HandleLoad
  <2>1. Handle("load") /\ lost' = lost
    BY <1>4 DEF HandleLoad
  <2>2. byPreset' \/ UNCHANGED <<program, down, byPreset>>
    BY <1>4 DEF HandleLoad
  <2>3. Head(up) \notin Writes("program")
    BY <2>1, HandleType DEF Writes
  <2>4. byPreset' \/ TrueProgram' = TrueProgram
    BY <2>2 DEF TrueProgram
  <2> QED
    BY <1>p, <2>1, <2>2, <2>3, <2>4, Handled DEF ProgramInv
<1>5. CASE HandleSync
  <2> DEFINE m == [type |-> "state", program |-> program, mode |-> mode,
           value |-> [q \in ParamsOf(DeviceParams, Visualizer(ModeCount, program, mode)) |-> value[q]]]
  <2>1. m \in Report /\ Notify(<<m>>) /\ program' = program
    BY <1>5, StateType, WriteTypes DEF HandleSync, device
  <2>2. m.type = "state" /\ m.program = program
    OBVIOUS
  <2> HIDE DEF m
  <2>3. m \in NamesProgram /\ m \in TrueProgram'
    BY <2>1, <2>2 DEF NamesProgram, TrueProgram
  <2> QED
    BY <2>1, <2>3, Notified DEF ProgramInv
<1> QED
  BY <1>1, <1>2, <1>3, <1>4, <1>5 DEF Device

LEMMA ProgramByReport ==
  ASSUME TypeInv, ProgramInv, Page
  PROVE  ProgramInv'
<1>1. UNCHANGED <<program, up, lost, byPreset>>
  BY DEF Page, ShowProgram, ShowMode, ShowNumber, ShowState, device
<1>2. TrueProgram' = TrueProgram
  BY <1>1 DEF TrueProgram
<1>3. CASE ShowProgram \/ ShowState
  <2>1. PICK type \in {"program", "state"} : Receive(type)
    BY <1>3 DEF ShowProgram, ShowState
  <2>2. Head(down) \in NamesProgram
    BY <2>1, ReceiveType DEF NamesProgram
  <2>3. Head(down) \in TrueProgram => uiProgram' = program /\ listed' = Modes(program)
    BY <1>3, <2>1, ReceiveType DEF TrueProgram, ShowProgram, ShowState, Receive
  <2> QED
    BY <1>1, <1>2, <2>1, <2>2, <2>3, Received DEF ProgramInv
<1>4. CASE ShowMode \/ ShowNumber
  <2>1. PICK type \in {"mode", "number"} : Receive(type)
    BY <1>4 DEF ShowMode, ShowNumber
  <2>2. Head(down) \notin NamesProgram
    BY <2>1, ReceiveType DEF NamesProgram
  <2>3. UNCHANGED <<uiProgram, listed>>
    BY <1>4 DEF ShowMode, ShowNumber
  <2> QED
    BY <1>1, <1>2, <2>1, <2>2, <2>3, Received DEF ProgramInv
<1> QED
  BY <1>3, <1>4 DEF Page

LEMMA ModeByPage ==
  ASSUME TypeInv, ModeInv, User \/ Connect \/ SyncInitialState \/ DebounceFires
  PROVE  ModeInv'
<1>1. /\ UNCHANGED <<mode, down, lost, byPreset>>
      /\ \A S : Has(up, S) => Has(up', S)
  BY OwnEvents DEF device
<1>2. TrueMode' = TrueMode
  BY <1>1 DEF TrueMode
<1>3. uiMode' = uiMode \/ Has(up', Writes("mode"))
  <2>1. ASSUME NEW m \in Mode, SelectMode(m) PROVE Has(up', Writes("mode"))
    <3>1. [type |-> "mode", val |-> m] \in Write
      BY WriteTypes
    <3>2. [type |-> "mode", val |-> m] \in Writes("mode")
      BY <3>1 DEF Writes
    <3> QED
      BY <2>1, <3>1, <3>2, HasAppend DEF SelectMode, Send, TypeInv
  <2> QED
    BY <2>1 DEF User, Type, Drag, SelectProgram, PressPreset, PressSync, Connect,
         SyncInitialState, DebounceFires, page
<1> QED
  BY <1>1, <1>2, <1>3 DEF ModeInv

LEMMA ModeByDevice ==
  ASSUME TypeInv, ModeInv, Device
  PROVE  ModeInv'
<1>p. UNCHANGED uiMode
  BY DEF Device, HandleProgram, HandleMode, HandleNumber, HandleSave, HandleLoad, HandleSync, page
<1>1. CASE HandleProgram \/ HandleMode
  <2> DEFINE m == Head(up)
  <2>1. PICK type \in {"program", "mode"} :
          /\ Handle(type) /\ Notify(<<m>>)
          /\ mode' = IF type = "program" THEN 0 ELSE m.val
    BY <1>1 DEF HandleProgram, HandleMode
  <2>2. m \in Report /\ m.type = type
    BY <2>1, Answered
  <2>3. m \in NamesMode /\ m \in TrueMode'
    BY <2>1, <2>2 DEF NamesMode, TrueMode
  <2> HIDE DEF m
  <2> QED
    BY <2>1, <2>2, <2>3, Notified DEF ModeInv
<1>2. CASE HandleNumber
  <2>1. Handle("number") /\ UNCHANGED <<mode, lost, byPreset>> /\ Notify(<<Head(up)>>)
    BY <1>2 DEF HandleNumber
  <2>2. Head(up) \in Report /\ Head(up) \notin NamesMode /\ Head(up) \notin Writes("mode")
    BY <2>1, Answered DEF NamesMode, Writes
  <2>3. TrueMode' = TrueMode
    BY <2>1 DEF TrueMode
  <2> QED
    BY <1>p, <2>1, <2>2, <2>3, Handled, Notified DEF ModeInv
<1>3. CASE HandleSave
  <2>1. Handle("save") /\ UNCHANGED <<mode, lost, byPreset, down>>
    BY <1>3 DEF HandleSave
  <2>2. Head(up) \notin Writes("mode")
    BY <2>1, HandleType DEF Writes
  <2>3. TrueMode' = TrueMode
    BY <2>1 DEF TrueMode
  <2> QED
    BY <1>p, <2>1, <2>2, <2>3, Handled DEF ModeInv
<1>4. CASE HandleLoad
  <2>1. Handle("load") /\ lost' = lost
    BY <1>4 DEF HandleLoad
  <2>2. byPreset' \/ UNCHANGED <<mode, down, byPreset>>
    BY <1>4 DEF HandleLoad
  <2>3. Head(up) \notin Writes("mode")
    BY <2>1, HandleType DEF Writes
  <2>4. byPreset' \/ TrueMode' = TrueMode
    BY <2>2 DEF TrueMode
  <2> QED
    BY <1>p, <2>1, <2>2, <2>3, <2>4, Handled DEF ModeInv
<1>5. CASE HandleSync
  <2> DEFINE m == [type |-> "state", program |-> program, mode |-> mode,
           value |-> [q \in ParamsOf(DeviceParams, Visualizer(ModeCount, program, mode)) |-> value[q]]]
  <2>1. m \in Report /\ Notify(<<m>>) /\ mode' = mode
    BY <1>5, StateType, WriteTypes DEF HandleSync, device
  <2>2. m.type = "state" /\ m.mode = mode
    OBVIOUS
  <2> HIDE DEF m
  <2>3. m \in NamesMode /\ m \in TrueMode'
    BY <2>1, <2>2 DEF NamesMode, TrueMode
  <2> QED
    BY <2>1, <2>3, Notified DEF ModeInv
<1> QED
  BY <1>1, <1>2, <1>3, <1>4, <1>5 DEF Device

LEMMA ModeByReport ==
  ASSUME TypeInv, ModeInv, Page
  PROVE  ModeInv'
<1>1. UNCHANGED <<mode, up, lost, byPreset>>
  BY DEF Page, ShowProgram, ShowMode, ShowNumber, ShowState, device
<1>2. TrueMode' = TrueMode
  BY <1>1 DEF TrueMode
<1>3. CASE ShowProgram \/ ShowMode \/ ShowState
  <2>1. PICK type \in {"program", "mode", "state"} : Receive(type)
    BY <1>3 DEF ShowProgram, ShowMode, ShowState
  <2>2. Head(down) \in NamesMode
    BY <2>1, ReceiveType DEF NamesMode
  <2>3. Head(down) \in TrueMode => uiMode' = mode
    BY <1>3, <2>1, ReceiveType DEF TrueMode, ShowProgram, ShowMode, ShowState, Receive
  <2> QED
    BY <1>1, <1>2, <2>1, <2>2, <2>3, Received DEF ModeInv
<1>4. CASE ShowNumber
  <2>1. Receive("number") /\ UNCHANGED uiMode
    BY <1>4 DEF ShowNumber
  <2>2. Head(down) \notin NamesMode
    BY <2>1, ReceiveType DEF NamesMode
  <2> QED
    BY <1>1, <1>2, <2>1, <2>2, Received DEF ModeInv
<1> QED
  BY <1>3, <1>4 DEF Page

(***************************************************************************)
(* However fast the user selects, and whatever was lost before the last    *)
(* state message, when the air is quiet the page shows the program and the *)
(* mode the device draws and lists that program's modes, until a preset    *)
(* chooses others.                                                         *)
(***************************************************************************)
THEOREM SelectionCorrect == Spec => []SelectionAgrees
<1>1. Init => ProgramInv /\ ModeInv
  BY DEF Init, ProgramInv, ModeInv
<1>2. ProgramInv /\ ModeInv /\ UNCHANGED vars => ProgramInv' /\ ModeInv'
  BY DEF ProgramInv, ModeInv, TrueProgram, TrueMode, vars, device, page
<1>3. Disconnect \/ LoseWrite \/ LoseNotification => ProgramInv' /\ ModeInv'
  BY Losses DEF ProgramInv, ModeInv
<1>4. TypeInv /\ ProgramInv /\ ModeInv /\ [Next]_vars => ProgramInv' /\ ModeInv'
  BY <1>2, <1>3, ProgramByPage, ProgramByDevice, ProgramByReport,
     ModeByPage, ModeByDevice, ModeByReport DEF Next
<1>5. ProgramInv /\ ModeInv => SelectionAgrees
  <2>1. Quiet => \A S : ~Has(up, S) /\ ~Has(down, S)
    BY DEF Quiet, Has
  <2> QED
    BY <2>1 DEF SelectionAgrees, ProgramInv, ModeInv, Quiet
<1> QED
  BY TypeInit, TypeStep, <1>1, <1>4, <1>5, PTL DEF Spec

-----------------------------------------------------------------------------
(* The sliders.                                                            *)

\* A slider that still claims to show the device's value is one that did
\* before, or its write is on its way; a slider that still waits to be sent
\* is one that did before, or its timer or its write is on its way.
Kept(q) ==
  /\ shown'[q].by \in {"typed", "device"} =>
       (q \in DOMAIN shown /\ shown'[q] = shown[q]) \/ Has(up', WritesTo(q))
  /\ shown'[q].by = "drag" =>
       \/ timer' # NoTimer /\ timer'.id = q
       \/ Has(up', WritesTo(q))
       \/ q \in DOMAIN shown /\ shown[q].by = "drag" /\ (timer = NoTimer \/ timer.id # q)

LEMMA OwnSliders ==
  ASSUME TypeInv, User \/ Connect \/ SyncInitialState \/ DebounceFires,
         NEW q \in DOMAIN shown'
  PROVE  Kept(q)
<1>t. /\ DOMAIN shown \subseteq Param /\ shown \in [DOMAIN shown -> Slider]
      /\ up \in Seq(Write)
  BY PanelType DEF TypeInv
<1>n. \A p \in Param, v \in Value : Number(p, v) \in Write /\ Number(p, v) \in WritesTo(p)
  BY WriteTypes DEF WritesTo, Number
<1>1. ASSUME NEW p \in Param, NEW v \in Value, Type(p, v) PROVE Kept(q)
  <2>1. /\ DOMAIN shown' = DOMAIN shown
        /\ \A r \in DOMAIN shown :
             shown'[r] = IF r = p THEN [val |-> v, by |-> "typed"] ELSE shown[r]
    BY <1>1, SetType DEF Type, TypeInv
  <2>2. Has(up', WritesTo(p)) /\ timer' = timer
    BY <1>1, <1>t, <1>n, HasAppend DEF Type, Send
  <2> QED
    BY <2>1, <2>2 DEF Kept
<1>2. ASSUME NEW p \in Param, NEW v \in Value, Drag(p, v) PROVE Kept(q)
  <2>1. /\ DOMAIN shown' = DOMAIN shown
        /\ shown'[q] = IF q = p THEN [val |-> v, by |-> "drag"] ELSE Cut(q)
        /\ timer' = [id |-> p, val |-> v]
    BY <1>2 DEF Drag
  <2>2. timer' # NoTimer /\ timer'.id = p
    BY <2>1, SyncAssumption
  <2>3. CASE q = p
    BY <2>1, <2>2, <2>3 DEF Kept
  <2>4. CASE q # p /\ timer # NoTimer /\ timer.id = q /\ shown[q].by = "drag"
    <3>1. shown'[q].by = "cut"
      BY <1>t, <2>1, <2>4 DEF Cut, Slider
    <3> QED
      BY <3>1 DEF Kept
  <2>5. CASE q # p /\ ~(timer # NoTimer /\ timer.id = q /\ shown[q].by = "drag")
    <3>1. shown'[q] = shown[q]
      BY <2>1, <2>5 DEF Cut
    <3> QED
      BY <2>1, <2>5, <3>1 DEF Kept
  <2> QED
    BY <2>3, <2>4, <2>5
<1>3. CASE (\E p \in Program : SelectProgram(p)) \/ (\E m \in Mode : SelectMode(m))
  <2>1. shown'[q].by = "default"
    BY <1>3, RenderType DEF SelectProgram, SelectMode
  <2> QED
    BY <2>1 DEF Kept
<1>4. CASE \/ \E s \in Slot, type \in {"save", "load"} : PressPreset(type, s)
           \/ PressSync \/ Connect \/ SyncInitialState
  <2>1. UNCHANGED <<shown, timer>>
    BY <1>4 DEF PressPreset, PressSync, Connect, SyncInitialState, page
  <2> QED
    BY <2>1 DEF Kept
<1>5. CASE DebounceFires
  <2>1. shown' = shown /\ timer # NoTimer
    BY <1>5 DEF DebounceFires, page
  <2>2. CASE timer.id # q
    BY <2>1, <2>2 DEF Kept
  <2>3. CASE timer.id = q
    <3>1. connected
      BY <2>1 DEF TypeInv
    <3>2. Has(up', WritesTo(q))
      BY <1>5, <1>t, <1>n, <2>1, <2>3, <3>1, HasAppend DEF DebounceFires, TypeInv
    <3> QED
      BY <2>1, <3>2 DEF Kept
  <2> QED
    BY <2>2, <2>3
<1> QED
  BY <1>1, <1>2, <1>3, <1>4, <1>5 DEF User

LEMMA SlidersByPage ==
  ASSUME TypeInv, SliderInv, DragInv, User \/ Connect \/ SyncInitialState \/ DebounceFires
  PROVE  SliderInv' /\ DragInv'
<1>1. /\ UNCHANGED <<value, down, lost>>
      /\ \A S : Has(up, S) => Has(up', S)
  BY OwnEvents DEF device
<1>2. \A p \in Param : TrueValue(p)' = TrueValue(p)
  BY <1>1 DEF TrueValue
<1>3. \A q \in DOMAIN shown' : Kept(q)
  BY OwnSliders
<1>4. SliderInv'
  BY <1>1, <1>2, <1>3 DEF SliderInv, Kept
<1>5. DragInv'
  BY <1>1, <1>3 DEF DragInv, Kept
<1> QED
  BY <1>4, <1>5

\* A number moves its own slider and no other.
LEMMA NumberSets ==
  ASSUME NEW m \in Report, m.type = "number", NEW p \in Param
  PROVE  /\ m \in SetsSlider(p) <=> m.id = p
         /\ m \in Write => (m \in WritesTo(p) <=> m.id = p)
  BY DEF SetsSlider, WritesTo

LEMMA SlidersByDevice ==
  ASSUME TypeInv, SliderInv, DragInv, Device
  PROVE  SliderInv' /\ DragInv'
<1>p. UNCHANGED <<shown, timer>>
  BY DEF Device, HandleProgram, HandleMode, HandleNumber, HandleSave, HandleLoad, HandleSync, page
<1>t. DOMAIN shown \subseteq Param /\ \A p \in Param : Stored(p, value[p]) = value[p]
  BY PanelType DEF TypeInv, Stepped, OnStep
<1>1. CASE HandleProgram \/ HandleMode
  <2>1. PICK type \in {"program", "mode"} : Handle(type)
    BY <1>1 DEF HandleProgram, HandleMode
  <2>2. UNCHANGED <<value, lost>> /\ Notify(<<Head(up)>>)
    BY <1>1 DEF HandleProgram, HandleMode
  <2>3. /\ Head(up) \in Report
        /\ \A p \in Param : Head(up) \notin SetsSlider(p) /\ Head(up) \notin WritesTo(p)
    BY <2>1, Answered DEF SetsSlider, WritesTo
  <2>4. \A p \in Param : TrueValue(p)' = TrueValue(p)
    BY <2>2 DEF TrueValue
  <2>5. SliderInv'
    BY <1>p, <2>1, <2>2, <2>3, <2>4, Handled, Notified DEF SliderInv
  <2>6. DragInv'
    BY <1>p, <1>t, <2>1, <2>2, <2>3, Handled, Notified DEF DragInv
  <2> QED
    BY <2>5, <2>6
<1>2. CASE HandleNumber
  <2> DEFINE m == Head(up)
  <2>1. Handle("number") /\ lost' = lost /\ Notify(<<m>>)
        /\ value' = [value EXCEPT ![m.id] = Stored(m.id, m.val)]
    BY <1>2 DEF HandleNumber
  <2>2. m \in Report /\ m.type = "number" /\ m \in Write
    BY <2>1, Answered, HandleType
  <2>3. \A p \in Param : value'[p] = IF p = m.id THEN Stored(p, m.val) ELSE value[p]
    BY <2>1 DEF TypeInv, Stepped
  <2>4. \A p \in Param : p = m.id => m \in TrueValue(p)'
    BY <2>2, <2>3 DEF TrueValue
  <2>5. \A p \in Param : p # m.id => TrueValue(p)' = TrueValue(p)
    BY <2>3 DEF TrueValue
  <2>6. \A p \in Param : (m \in SetsSlider(p) <=> m.id = p) /\ (m \in WritesTo(p) <=> m.id = p)
    BY <2>2, NumberSets
  <2>7. /\ \A S : Has(up, S) /\ m \notin S => Has(up', S)
        /\ \A S : Has(down', S) <=> Has(down, S) \/ m \in S
        /\ \A S, G : m \in S /\ m \in G => LastIs(down', S, G)
        /\ \A S, G : m \notin S /\ LastIs(down, S, G) => LastIs(down', S, G)
    BY <2>1, <2>2, Handled, Notified
  <2> HIDE DEF m
  <2>8. SliderInv'
    BY <1>p, <2>1, <2>3, <2>4, <2>5, <2>6, <2>7 DEF SliderInv
  <2>9. DragInv'
    BY <1>p, <1>t, <2>1, <2>6, <2>7 DEF DragInv
  <2> QED
    BY <2>8, <2>9
<1>3. CASE HandleSave
  <2>1. Handle("save") /\ UNCHANGED <<value, lost, down>>
    BY <1>3 DEF HandleSave
  <2>2. \A p \in Param : Head(up) \notin WritesTo(p) /\ TrueValue(p)' = TrueValue(p)
    BY <2>1, HandleType DEF WritesTo, TrueValue
  <2>3. SliderInv'
    BY <1>p, <2>1, <2>2, Handled DEF SliderInv
  <2>4. DragInv'
    BY <1>p, <1>t, <2>1, <2>2, Handled DEF DragInv
  <2> QED
    BY <2>3, <2>4
<1>4. CASE HandleLoad
  <2>1. Handle("load") /\ lost' = lost
    BY <1>4 DEF HandleLoad
  <2>2. Head(up).val \in Slot /\ \A p \in Param : Head(up) \notin WritesTo(p)
    BY <2>1, HandleType DEF Write, Selection, NumberMsg, WritesTo
  <2> DEFINE f == preset[Head(up).val]
  <2>3. CASE f = NoPreset
    <3>1. UNCHANGED <<value, down>>
      BY <1>4, <2>3 DEF HandleLoad
    <3>2. \A p \in Param : TrueValue(p)' = TrueValue(p)
      BY <3>1 DEF TrueValue
    <3>3. SliderInv'
      BY <1>p, <2>1, <2>2, <3>1, <3>2, Handled DEF SliderInv
    <3>4. DragInv'
      BY <1>p, <1>t, <2>1, <2>2, <3>1, Handled DEF DragInv
    <3> QED
      BY <3>3, <3>4
  <2>4. CASE f # NoPreset
    <3>1. value' = f.value /\ f.value \in Stepped /\ value \in Stepped
      BY <1>4, <2>2, <2>4 DEF HandleLoad, TypeInv, PresetFile
    <3>2. PICK ms \in Receipts(value, f.value) : down' = down \o ms
      BY <1>4, <2>4 DEF HandleLoad, Notify
    <3> HIDE DEF f
    <3>3. /\ ms \in Seq(NumberMsg)
          /\ \A k \in 1 .. Len(ms) : ms[k].val = value'[ms[k].id]
          /\ \A p \in Param : value[p] # value'[p] => \E k \in 1 .. Len(ms) : ms[k].id = p
      BY <3>1, <3>2, ReceiptsOfNew
    <3>4. \A k \in 1 .. Len(ms) : ms[k] \in Report /\ ms[k].type = "number"
      <4>1. \A k \in 1 .. Len(ms) : ms[k] \in NumberMsg
        BY <3>3, ElementOfSeq
      <4>2. \A m \in NumberMsg : m \in Report /\ m.type = "number"
        BY DEF NumberMsg, Report
      <4> QED
        BY <4>1, <4>2
    <3>5. ASSUME NEW p \in Param
          PROVE  /\ LastIs(ms, SetsSlider(p), TrueValue(p)')
                 /\ value[p] # value'[p] => Has(ms, SetsSlider(p))
      <4>1. \A k \in 1 .. Len(ms) : ms[k] \in SetsSlider(p) <=> ms[k].id = p
        BY <3>4, NumberSets
      <4>2. Stored(p, value'[p]) = value'[p]
        BY <3>1 DEF Stepped, OnStep
      <4>3. \A k \in 1 .. Len(ms) : ms[k].id = p => ms[k] \in TrueValue(p)'
        BY <3>3, <3>4, <4>2 DEF TrueValue
      <4> QED
        BY <3>3, <4>1, <4>3 DEF LastIs, Has
    <3>6. ms \in Seq(Report) /\ down \in Seq(Report)
      BY <3>3, WriteTypes, SeqMonotonic DEF TypeInv
    <3>7. \A p \in Param : value[p] = value'[p] => TrueValue(p)' = TrueValue(p)
      BY DEF TrueValue
    <3>8. ASSUME NEW p \in Param, LastIs(down, SetsSlider(p), TrueValue(p))
          PROVE  LastIs(down', SetsSlider(p), TrueValue(p)')
      BY <3>2, <3>5, <3>6, <3>7, <3>8, PutBehind
    <3>9. \A p \in Param : Has(down', SetsSlider(p))
            <=> Has(down, SetsSlider(p)) \/ Has(ms, SetsSlider(p))
      BY <3>2, <3>6, PutBehind
    <3>10. SliderInv'
      BY <1>p, <2>1, <2>2, <3>5, <3>8, <3>9, Handled DEF SliderInv
    <3>11. DragInv'
      BY <1>p, <1>t, <2>1, <2>2, <3>9, Handled DEF DragInv
    <3> QED
      BY <3>10, <3>11
  <2> QED
    BY <2>3, <2>4
<1>5. CASE HandleSync
  <2> DEFINE m == [type |-> "state", program |-> program, mode |-> mode,
           value |-> [q \in ParamsOf(DeviceParams, Visualizer(ModeCount, program, mode)) |-> value[q]]]
  <2>1. m \in Report /\ Notify(<<m>>) /\ value' = value
    BY <1>5, StateType, WriteTypes DEF HandleSync, device
  <2>2. m.type = "state" /\ \A p \in DOMAIN m.value : m.value[p] = value[p]
    OBVIOUS
  <2> HIDE DEF m
  <2>3. \A p \in Param : m \in SetsSlider(p) /\ m \in TrueValue(p)'
    BY <2>1, <2>2 DEF SetsSlider, TrueValue
  <2>4. \A p \in Param : Has(down', SetsSlider(p)) /\ LastIs(down', SetsSlider(p), TrueValue(p)')
    BY <2>1, <2>3, Notified
  <2>5. SliderInv'
    BY <2>4 DEF SliderInv
  <2>6. DragInv'
    BY <1>p, <1>t, <2>4 DEF DragInv
  <2> QED
    BY <2>5, <2>6
<1> QED
  BY <1>1, <1>2, <1>3, <1>4, <1>5 DEF Device

LEMMA SlidersByReport ==
  ASSUME TypeInv, SliderInv, DragInv, Page
  PROVE  SliderInv' /\ DragInv'
<1>1. UNCHANGED <<value, up, lost, timer>>
  BY DEF Page, ShowProgram, ShowMode, ShowNumber, ShowState, device
<1>2. \A p \in Param : TrueValue(p)' = TrueValue(p)
  BY <1>1 DEF TrueValue
<1>t. DOMAIN shown \subseteq Param /\ \A p \in Param : Stored(p, value[p]) = value[p]
  BY PanelType DEF TypeInv, Stepped, OnStep
<1>3. CASE ShowProgram \/ ShowMode
  <2>1. PICK type \in {"program", "mode"} : Receive(type)
    BY <1>3 DEF ShowProgram, ShowMode
  <2>2. \A p \in Param : LastIs(down, SetsSlider(p), TrueValue(p))
                           => LastIs(down', SetsSlider(p), TrueValue(p))
    BY <2>1, Received
  <2>3. \A p \in DOMAIN shown' : shown'[p].by = "default"
    BY <1>3, RenderType DEF ShowProgram, ShowMode
  <2>4. SliderInv'
    BY <1>1, <1>2, <2>2, <2>3 DEF SliderInv
  <2>5. DragInv'
    BY <2>3 DEF DragInv
  <2> QED
    BY <2>4, <2>5
<1>4. CASE ShowNumber
  <2> DEFINE m == Head(down)
  <2>1. Receive("number") /\ shown' = Set(m.id, m.val, "device")
    BY <1>4 DEF ShowNumber
  <2>2. m \in Report /\ m.type = "number" /\ m.val \in Value
    BY <2>1, ReceiveType DEF Report, Selection, NumberMsg, StateMsg
  <2>3. /\ DOMAIN shown' = DOMAIN shown
        /\ \A p \in DOMAIN shown :
             shown'[p] = IF p = m.id THEN [val |-> m.val, by |-> "device"] ELSE shown[p]
    BY <2>1, <2>2, SetType DEF TypeInv
  <2>4. \A p \in Param : m \in SetsSlider(p) <=> m.id = p
    BY <2>2, NumberSets
  <2>5. \A p \in Param : m \in TrueValue(p) => Stored(p, m.val) = value[p]
    BY <2>2 DEF TrueValue
  <2>6. /\ \A S : Has(down, S) /\ m \notin S => Has(down', S)
        /\ \A S, G : LastIs(down, S, G) => LastIs(down', S, G)
        /\ \A S, G : LastIs(down, S, G) /\ m \in S /\ ~Has(down', S) => m \in G
    BY <2>1, Received
  <2> HIDE DEF m
  <2>7. SliderInv'
    <3> SUFFICES ASSUME ~lost, NEW p \in Param
                 PROVE  /\ LastIs(down', SetsSlider(p), TrueValue(p))
                        /\ ~Has(down', SetsSlider(p)) /\ p \in DOMAIN shown
                             /\ shown'[p].by \in {"typed", "device"}
                           => Stored(p, shown'[p].val) = value[p] \/ Has(up, WritesTo(p))
      BY <1>1, <1>2, <2>3 DEF SliderInv
    <3>1. LastIs(down, SetsSlider(p), TrueValue(p))
      BY DEF SliderInv
    <3>2. CASE m.id = p
      BY <2>3, <2>4, <2>5, <2>6, <3>1, <3>2
    <3>3. CASE m.id # p
      BY <2>3, <2>4, <2>6, <3>1, <3>3 DEF SliderInv
    <3> QED
      BY <3>2, <3>3
  <2>8. DragInv'
    BY <1>1, <1>t, <2>3, <2>4, <2>6 DEF DragInv
  <2> QED
    BY <2>7, <2>8
<1>5. CASE ShowState
  <2> DEFINE m == Head(down)
             drawn == Render(uiProgram', uiMode')
  <2>1. Receive("state") /\ shown' = [q \in DOMAIN drawn |->
                                        IF q \in DOMAIN m.value
                                        THEN [val |-> m.value[q], by |-> "device"]
                                        ELSE drawn[q]]
    BY <1>5 DEF ShowState
  <2>2. m \in Report /\ m.type = "state"
    BY <2>1, ReceiveType
  <2>3. \A q \in DOMAIN drawn : drawn[q].by = "default"
    BY RenderType
  <2>4. /\ \A S, G : LastIs(down, S, G) => LastIs(down', S, G)
        /\ \A S, G : LastIs(down, S, G) /\ m \in S /\ ~Has(down', S) => m \in G
    BY <2>1, Received
  <2> HIDE DEF m, drawn
  <2>5. \A p \in Param : /\ m \in SetsSlider(p)
                         /\ m \in TrueValue(p) /\ p \in DOMAIN m.value => m.value[p] = value[p]
    BY <2>2 DEF SetsSlider, TrueValue
  <2>6. \A q \in DOMAIN shown' : /\ shown'[q].by # "drag"
                                 /\ shown'[q].by \in {"typed", "device"} =>
                                      q \in DOMAIN m.value /\ shown'[q].val = m.value[q]
    BY <2>1, <2>3
  <2>7. SliderInv'
    BY <1>1, <1>2, <1>t, <2>4, <2>5, <2>6 DEF SliderInv
  <2>8. DragInv'
    BY <2>6 DEF DragInv
  <2> QED
    BY <2>7, <2>8
<1> QED
  BY <1>3, <1>4, <1>5 DEF Page

LEMMA SlidersStep ==
  TypeInv /\ SliderInv /\ DragInv /\ [Next]_vars => SliderInv' /\ DragInv'
<1>1. SliderInv /\ DragInv /\ UNCHANGED vars => SliderInv' /\ DragInv'
  BY DEF SliderInv, DragInv, TrueValue, vars, device, page
<1>2. Disconnect \/ LoseWrite \/ LoseNotification => SliderInv' /\ DragInv'
  BY Losses DEF SliderInv, DragInv
<1> QED
  BY <1>1, <1>2, SlidersByPage, SlidersByDevice, SlidersByReport DEF Next

(***************************************************************************)
(* Whatever receipts, preset loads and state messages cross, when the air  *)
(* is quiet a slider the user typed into or the device set shows what the  *)
(* device has, up to the conversion to the parameter's type.               *)
(***************************************************************************)
THEOREM SlidersCorrect == Spec => []ConfirmedSliderAgrees
<1>1. Init => SliderInv /\ DragInv
  BY DEF Init, SliderInv, DragInv
<1>2. TypeInv /\ SliderInv => ConfirmedSliderAgrees
  <2>1. Quiet => \A S : ~Has(up, S) /\ ~Has(down, S)
    BY DEF Quiet, Has
  <2>2. TypeInv => DOMAIN shown \subseteq Param
    BY PanelType DEF TypeInv
  <2> QED
    BY <2>1, <2>2 DEF ConfirmedSliderAgrees, SliderInv
<1> QED
  BY TypeInit, TypeStep, <1>1, SlidersStep, <1>2, PTL DEF Spec

(***************************************************************************)
(* What a slider was dragged to is sent, however the one timer of all      *)
(* sliders interleaves with typing, selecting, loading and syncing; only   *)
(* another drag cuts it off, and that slider is marked as cut.             *)
(***************************************************************************)
THEOREM DragsCorrect == Spec => []DragsAreSent
<1>1. Init => SliderInv /\ DragInv
  BY DEF Init, SliderInv, DragInv
<1>2. DragInv => DragsAreSent
  <2>1. Quiet => \A S : ~Has(up, S) /\ ~Has(down, S)
    BY DEF Quiet, Has
  <2> QED
    BY <2>1 DEF DragsAreSent, DragInv
<1> QED
  BY TypeInit, TypeStep, <1>1, SlidersStep, <1>2, PTL DEF Spec
=============================================================================
