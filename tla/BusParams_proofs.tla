------------------------- MODULE BusParams_proofs -------------------------
(***************************************************************************)
(* Types, and what boot owes to an adjustment it accepted, for any buses,  *)
(* values, presets and number of actions.                                  *)
(***************************************************************************)
EXTENDS BusParams, SequenceTheorems, TLAPS

\* Nothing was accepted while initBus() is still to come.
BootInv == boot = "ble" => accepted = [b \in Bus |-> None]

IInv == TypeOK /\ BootInv /\ AcceptedStands

(***************************************************************************)
(* What is in a channel: one of the messages of S; no more than one; each  *)
(* of them before one of G; as the last one of them, one of G.             *)
(***************************************************************************)
Has(ms, S) == \E i \in 1 .. Len(ms) : ms[i] \in S
AtMostOne(ms, S) == \A i, j \in 1 .. Len(ms) : ms[i] \in S /\ ms[j] \in S => i = j
Before(ms, S, G) ==
  \A i \in 1 .. Len(ms) : ms[i] \in S => \E j \in i + 1 .. Len(ms) : ms[j] \in G
LastIs(ms, S, G) ==
  \A i \in 1 .. Len(ms) : ms[i] \in S =>
    ms[i] \in G \/ \E j \in i + 1 .. Len(ms) : ms[j] \in S

Asks        == {m \in Write : m.type = "ask"}
WritesTo(b) == {m \in Write : m.type = "bus" /\ m.bus = b}
Carrying(b, v) == {m \in WritesTo(b) : m.val = v}

(***************************************************************************)
(* A connection asks once, and is answered after that, by a device whose   *)
(* boot is over.                                                           *)
(***************************************************************************)
AskInv ==
  /\ ~linked => up = <<>> /\ down = <<>> /\ reports = <<>> /\ ~askPending
  /\ askPending \/ Has(up, Asks) => down = <<>> /\ reports = <<>> /\ unanswered = Bus
  /\ askPending => ~Has(up, Asks)
  /\ AtMostOne(up, Asks)
  /\ linked /\ (reports # <<>> \/ down # <<>> \/ unanswered # Bus) => boot = "ready"

\* Each bus is reported once, and no report outlives the wait for it.
OnceInv ==
  /\ \A i, j \in 1 .. Len(reports) : reports[i] = reports[j] => i = j
  /\ \A i, j \in 1 .. Len(down) : down[i].bus = down[j].bus => i = j
  /\ \A i \in 1 .. Len(reports), j \in 1 .. Len(down) : reports[i] # down[j].bus
  /\ \A i \in 1 .. Len(reports) : reports[i] \in unanswered
  /\ \A i \in 1 .. Len(down) : down[i].bus \in unanswered

(***************************************************************************)
(* A bus whose report is still to come and that nothing disturbed: its     *)
(* adjustments were all sent before the question, so a report that is      *)
(* under way says what the bus holds and will hold when it arrives.        *)
(***************************************************************************)
Coming(b) == \/ Has(up, Asks)
             \/ \E i \in 1 .. Len(reports) : reports[i] = b
             \/ \E i \in 1 .. Len(down) : down[i].bus = b

Answers(b) ==
  /\ Coming(b) => timer[b] = None /\ Before(up, WritesTo(b), Asks)
  /\ \A i \in 1 .. Len(down) : down[i].bus = b => down[i].val = bus[b]
AnswerInv == \A b \in Bus \ disturbed : Answers(b)

(***************************************************************************)
(* A bus that was reported and that nothing disturbed since: the panel's   *)
(* value is still with the timer, is the last one under way, or has        *)
(* arrived.                                                                *)
(***************************************************************************)
Delivers(b) ==
  /\ timer[b] \in {None, slider[b]}
  /\ timer[b] = None =>
       /\ LastIs(up, WritesTo(b), Carrying(b, slider[b]))
       /\ Has(up, WritesTo(b)) \/ bus[b] = slider[b]
PanelInv == linked => \A b \in Bus \ (disturbed \cup unanswered) : Delivers(b)

-----------------------------------------------------------------------------
(* Sequences.                                                              *)

\* A sequence without one of its elements is a sequence of the same set.
LEMMA RemoveAtType ==
  ASSUME NEW S, NEW s \in Seq(S), NEW i \in DOMAIN s
  PROVE  RemoveAt(s, i) \in Seq(S)
<1>1. i \in 1 .. Len(s) /\ Len(s) \in Nat
  BY LenProperties
<1>2. SubSeq(s, 1, i - 1) \in Seq(S)
  <2>1. \A j \in 1 .. i - 1 : s[j] \in S
    BY <1>1, ElementOfSeq
  <2> QED
    BY <1>1, <2>1, SubSeqProperties
<1>3. SubSeq(s, i + 1, Len(s)) \in Seq(S)
  <2>1. \A j \in i + 1 .. Len(s) : s[j] \in S
    BY <1>1, ElementOfSeq
  <2> QED
    BY <1>1, <2>1, SubSeqProperties
<1> QED
  BY <1>2, <1>3, ConcatProperties DEF RemoveAt

\* What the page sends has the type of the messages.
LEMMA SendType ==
  ASSUME TypeOK, NEW b \in Bus, NEW v \in Value, Send(b, v)
  PROVE  up' \in Seq(Write)
<1>1. [type |-> "bus", bus |-> b, val |-> v] \in Write
  BY DEF Write
<1> QED
  BY <1>1, AppendProperties DEF Send, TypeOK

-----------------------------------------------------------------------------
(* Types.                                                                  *)

\* The bound of the model is kept.
LEMMA ActsType == TypeOK /\ Acts => actions' \in 0 .. MaxActions
  BY BusAssumption DEF TypeOK, Acts

LEMMA UserType ==
  ASSUME TypeOK, NEW b \in Bus, NEW v \in Value, Drag(b, v) \/ Type(b, v)
  PROVE  TypeOK'
<1>1. actions' \in 0 .. MaxActions
  BY ActsType DEF Drag, Type
<1>2. disturbed' \subseteq Bus
  BY DEF TypeOK, Drag, Type, Disturb
<1>3. up' \in Seq(Write)
  BY SendType DEF TypeOK, Drag, Type
<1>4. slider' \in [Bus -> Value] /\ timer' \in [Bus -> Value \cup {None}]
  BY DEF TypeOK, Drag, Type
<1> QED
  BY <1>1, <1>2, <1>3, <1>4 DEF TypeOK, Drag, Type, device

LEMMA PageType ==
  ASSUME TypeOK, (\E b \in Bus : DebounceFires(b)) \/ SyncBuses \/ ReceiveBusState
  PROVE  TypeOK'
<1>1. ASSUME NEW b \in Bus, DebounceFires(b) PROVE TypeOK'
  <2>1. timer[b] \in Value
    BY <1>1 DEF TypeOK, DebounceFires
  <2>2. up' \in Seq(Write)
    BY <1>1, <2>1, SendType DEF DebounceFires
  <2> QED
    BY <1>1, <2>2 DEF TypeOK, DebounceFires, device
<1>2. CASE SyncBuses
  <2>1. [type |-> "ask"] \in Write
    BY DEF Write
  <2>2. up' \in Seq(Write)
    BY <1>2, <2>1, AppendProperties DEF TypeOK, SyncBuses
  <2> QED
    BY <1>2, <2>2 DEF TypeOK, SyncBuses, device
<1>3. CASE ReceiveBusState
  <2>1. Head(down) \in Report /\ down' \in Seq(Report)
    BY <1>3, HeadTailProperties DEF TypeOK, ReceiveBusState
  <2> QED
    BY <1>3, <2>1 DEF TypeOK, ReceiveBusState, Report, device
<1> QED
  BY <1>1, <1>2, <1>3

LEMMA LinkType ==
  ASSUME TypeOK, Connect \/ Disconnect \/ LoseWrite \/ LoseNotification \/ Reboot
  PROVE  TypeOK'
<1>e. <<>> \in Seq(Write) /\ <<>> \in Seq(Report) /\ <<>> \in Seq(Bus)
  BY EmptySeq
<1>1. CASE Connect
  BY <1>1, ActsType DEF TypeOK, Connect, device
<1>2. CASE Disconnect
  BY <1>2, <1>e, ActsType DEF TypeOK, Disconnect, CutLink
<1>3. CASE LoseWrite
  <2>1. PICK i \in DOMAIN up :
          /\ up' = RemoveAt(up, i)
          /\ IF up[i].type = "ask"
             THEN dropped' = TRUE /\ UNCHANGED disturbed
             ELSE disturbed' = disturbed \cup {up[i].bus} /\ UNCHANGED dropped
    BY <1>3 DEF LoseWrite
  <2>2. up' \in Seq(Write)
    BY <2>1, RemoveAtType DEF TypeOK
  <2>3. up[i] \in Write
    BY <2>1, ElementOfSeq, LenProperties DEF TypeOK
  <2>4. disturbed' \subseteq Bus /\ dropped' \in BOOLEAN
    BY <2>1, <2>3 DEF TypeOK, Write
  <2> QED
    BY <1>3, <2>2, <2>4 DEF TypeOK, LoseWrite, device, page
<1>4. CASE LoseNotification
  <2>1. down' \in Seq(Report)
    BY <1>4, RemoveAtType DEF TypeOK, LoseNotification
  <2> QED
    BY <1>4, <2>1 DEF TypeOK, LoseNotification, device, page
<1>5. CASE Reboot
  BY <1>5, <1>e, ActsType, BusAssumption DEF TypeOK, Reboot, CutLink
<1> QED
  BY <1>1, <1>2, <1>3, <1>4, <1>5

LEMMA DeviceType ==
  ASSUME TypeOK, Setup \/ Host \/ ApplyModeAudioPreset
  PROVE  TypeOK'
<1>e. <<>> \in Seq(Bus) /\ BusOrder \in Seq(Bus)
  BY EmptySeq, BusAssumption
<1>1. CASE Setup
  BY <1>1, BusAssumption DEF TypeOK, Setup, InitBuses, SetHandlers, Boot, page
<1>2. CASE HandleBusParam
  <2>1. Head(up) \in Write /\ up' \in Seq(Write)
    BY <1>2, HeadTailProperties DEF TypeOK, HandleBusParam, Handle
  <2>2. Head(up).bus \in Bus /\ Head(up).val \in Value
    BY <1>2, <2>1 DEF Write, HandleBusParam, Handle
  <2>3. bus' \in [Bus -> Value] /\ accepted' \in [Bus -> Value \cup {None}]
    BY <1>2, <2>2 DEF TypeOK, HandleBusParam
  <2> QED
    BY <1>2, <2>1, <2>3 DEF TypeOK, HandleBusParam, page
<1>3. CASE SendBusState
  <2>1. up' \in Seq(Write)
    BY <1>3, HeadTailProperties DEF TypeOK, SendBusState, Handle
  <2>2. reports' \in Seq(Bus)
    BY <1>3, <1>e DEF SendBusState
  <2>3. dropped' \in BOOLEAN
    BY <1>3, Zenon DEF SendBusState
  <2> QED
    BY <1>3, <2>1, <2>2, <2>3 DEF TypeOK, SendBusState, page
<1>4. CASE ReportBus
  <2>1. Head(reports) \in Bus /\ reports' \in Seq(Bus)
    BY <1>4, HeadTailProperties DEF TypeOK, ReportBus
  <2>2. [bus |-> Head(reports), val |-> bus[Head(reports)]] \in Report
    BY <2>1 DEF TypeOK, Report
  <2>3. down' \in Seq(Report)
    BY <1>4, <2>2, AppendProperties DEF TypeOK, ReportBus
  <2> QED
    BY <1>4, <2>1, <2>3 DEF TypeOK, ReportBus, page
<1>5. CASE ApplyModeAudioPreset
  BY <1>5, ActsType, BusAssumption DEF TypeOK, ApplyModeAudioPreset, page
<1> QED
  BY <1>1, <1>2, <1>3, <1>4, <1>5 DEF Host

LEMMA TypeStep == TypeOK /\ [Next]_vars => TypeOK'
<1> SUFFICES ASSUME TypeOK, [Next]_vars PROVE TypeOK'
    OBVIOUS
<1>1. CASE UNCHANGED vars
  BY <1>1 DEF TypeOK, vars
<1> QED
  BY <1>1, UserType, PageType, LinkType, DeviceType DEF Next, User, Timers, Faults

-----------------------------------------------------------------------------
(* Accepted adjustments.                                                   *)

\* All steps that touch a bus, what it accepted, or boot.
LEMMA StandsStep == IInv /\ [Next]_vars => (BootInv /\ AcceptedStands)'
<1> SUFFICES ASSUME IInv, [Next]_vars PROVE BootInv' /\ AcceptedStands'
    OBVIOUS
<1> USE BusAssumption DEF IInv, BootInv, AcceptedStands
<1>1. CASE UNCHANGED <<boot, bus, accepted>>
  BY <1>1
<1>2. CASE InitBuses
  BY <1>2 DEF InitBuses, Boot
<1>3. CASE SetHandlers
  BY <1>3 DEF SetHandlers, Boot
<1>4. CASE HandleBusParam
  <2>1. CASE Settable
    <3>1. boot' # "ble"
      BY <1>4, <2>1 DEF HandleBusParam, Settable
    <3>2. AcceptedStands'
      BY <1>4, <2>1 DEF HandleBusParam, TypeOK
    <3> QED
      BY <3>1, <3>2
  <2>2. CASE ~Settable
    BY <1>4, <2>2, <1>1 DEF HandleBusParam
  <2> QED
    BY <2>1, <2>2
<1>5. CASE ApplyModeAudioPreset
  BY <1>5 DEF ApplyModeAudioPreset
<1>6. CASE Reboot
  BY <1>6 DEF Reboot
<1>7. CASE User \/ Timers \/ SyncBuses \/ ReceiveBusState
  BY <1>7, <1>1 DEF User, Timers, Drag, Type, DebounceFires, SyncBuses, ReceiveBusState, device
<1>8. CASE Connect \/ Disconnect \/ LoseWrite \/ LoseNotification
  BY <1>8, <1>1 DEF Connect, Disconnect, LoseWrite, LoseNotification, device
<1>9. CASE SendBusState \/ ReportBus
  BY <1>9, <1>1 DEF SendBusState, ReportBus
<1>10. CASE UNCHANGED vars
  BY <1>10, <1>1 DEF vars
<1> QED
  BY <1>2, <1>3, <1>4, <1>5, <1>6, <1>7, <1>8, <1>9, <1>10 DEF Next, Setup, Host, Faults

LEMMA InitIInv == Init => IInv
<1> SUFFICES ASSUME Init PROVE IInv
    OBVIOUS
<1>1. TypeOK
  <2>1. <<>> \in Seq(Write) /\ <<>> \in Seq(Report) /\ <<>> \in Seq(Bus)
    BY EmptySeq
  <2>2. actions \in 0 .. MaxActions
    BY BusAssumption DEF Init
  <2> QED
    BY <2>1, <2>2, BusAssumption DEF Init, TypeOK
<1> QED
  BY <1>1 DEF Init, IInv, BootInv, AcceptedStands

LEMMA Invariance == Spec => []IInv
<1>1. IInv /\ [Next]_vars => IInv'
  BY TypeStep, StandsStep DEF IInv
<1> QED
  BY <1>1, InitIInv, PTL DEF Spec

\* Every variable keeps its type, the queues of the link included.
THEOREM TypeCorrect == Spec => []TypeOK
<1>1. IInv => TypeOK
  BY DEF IInv
<1> QED
  BY <1>1, Invariance, PTL

(***************************************************************************)
(* An adjustment a bus took stands until the next one or a mode's preset:  *)
(* setup(), whenever it gets there, has no step left that overwrites it    *)
(* (audioProcessing.h:1002-1007).                                          *)
(***************************************************************************)
THEOREM AdjustmentsStand == Spec => []AcceptedStands
<1>1. IInv => AcceptedStands
  BY DEF IInv
<1> QED
  BY <1>1, Invariance, PTL

-----------------------------------------------------------------------------
(* Channels.                                                               *)

LEMMA PutBehind ==
  ASSUME NEW M, NEW ms \in Seq(M), NEW m \in M, NEW S
  PROVE  /\ Has(Append(ms, m), S) <=> Has(ms, S) \/ m \in S
         /\ AtMostOne(ms, S) /\ (m \in S => ~Has(ms, S)) => AtMostOne(Append(ms, m), S)
         /\ \A G : m \notin S /\ (m \in G \/ Before(ms, S, G)) => Before(Append(ms, m), S, G)
         /\ \A G : m \in S /\ m \in G => LastIs(Append(ms, m), S, G)
         /\ \A G : m \notin S /\ LastIs(ms, S, G) => LastIs(Append(ms, m), S, G)
<1> DEFINE all == Append(ms, m)
           n == Len(ms)
<1>1. /\ n \in Nat /\ Len(all) = n + 1 /\ all[n + 1] = m
      /\ \A i \in 1 .. n : all[i] = ms[i]
  BY AppendProperties, LenProperties
<1> HIDE DEF all, n
<1>2. \A i \in 1 .. n + 1 : i \in 1 .. n \/ i = n + 1
  BY <1>1
<1>3. \A i \in 1 .. n : i \in 1 .. n + 1 /\ n + 1 \in i + 1 .. n + 1
  BY <1>1
<1>4. n + 1 \in 1 .. n + 1
  BY <1>1
<1>5. Has(all, S) <=> (\E i \in 1 .. n : ms[i] \in S) \/ m \in S
  BY <1>1, <1>2, <1>3, <1>4 DEF Has
<1>6. ASSUME AtMostOne(ms, S), m \in S => ~Has(ms, S)
      PROVE  AtMostOne(all, S)
  BY <1>1, <1>2, <1>6 DEF AtMostOne, Has, n
<1>7. ASSUME NEW G, m \in S, m \in G
      PROVE  LastIs(all, S, G)
  BY <1>1, <1>2, <1>3, <1>7 DEF LastIs
<1>8. ASSUME NEW G, m \notin S, LastIs(ms, S, G)
      PROVE  LastIs(all, S, G)
  <2> SUFFICES ASSUME NEW i \in 1 .. n + 1, all[i] \in S, all[i] \notin G
               PROVE  \E j \in i + 1 .. n + 1 : all[j] \in S
    BY <1>1 DEF LastIs
  <2>1. i \in 1 .. n /\ ms[i] = all[i]
    BY <1>1, <1>2, <1>8
  <2>2. PICK j \in i + 1 .. n : ms[j] \in S
    BY <1>8, <2>1 DEF LastIs, n
  <2>3. j \in 1 .. n /\ j \in i + 1 .. n + 1
    BY <1>1, <2>1, <2>2
  <2> QED
    BY <1>1, <2>2, <2>3
<1>9. ASSUME NEW G, m \notin S, m \in G \/ Before(ms, S, G)
      PROVE  Before(all, S, G)
  <2> SUFFICES ASSUME NEW i \in 1 .. n + 1, all[i] \in S
               PROVE  \E j \in i + 1 .. n + 1 : all[j] \in G
    BY <1>1 DEF Before
  <2>1. i \in 1 .. n /\ ms[i] = all[i]
    BY <1>1, <1>2, <1>9
  <2>2. CASE m \in G
    BY <1>1, <1>3, <2>1, <2>2
  <2>3. CASE Before(ms, S, G)
    <3>1. PICK j \in i + 1 .. n : ms[j] \in G
      BY <2>1, <2>3 DEF Before, n
    <3>2. j \in 1 .. n /\ j \in i + 1 .. n + 1
      BY <1>1, <2>1, <3>1
    <3> QED
      BY <1>1, <3>1, <3>2
  <2> QED
    BY <1>9, <2>2, <2>3
<1> QED
  BY <1>5, <1>6, <1>7, <1>8, <1>9 DEF all, n, Has

\* Handling takes the oldest message.
LEMMA TakeHead ==
  ASSUME NEW M, NEW ms \in Seq(M), ms # <<>>, NEW S
  PROVE  /\ Has(ms, S) <=> Head(ms) \in S \/ Has(Tail(ms), S)
         /\ AtMostOne(ms, S) => /\ AtMostOne(Tail(ms), S)
                                /\ Head(ms) \in S => ~Has(Tail(ms), S)
         /\ \A G : Before(ms, S, G) => Before(Tail(ms), S, G)
         /\ \A G : LastIs(ms, S, G) => LastIs(Tail(ms), S, G)
         /\ \A G : LastIs(ms, S, G) /\ Head(ms) \in S /\ ~Has(Tail(ms), S) => Head(ms) \in G
<1> DEFINE tail == Tail(ms)
           n == Len(ms)
<1>1. /\ n \in Nat \ {0} /\ Len(tail) = n - 1 /\ Head(ms) = ms[1]
      /\ \A i \in 1 .. n - 1 : tail[i] = ms[i + 1]
  BY HeadTailProperties, EmptySeq
<1> HIDE DEF tail, n
<1>2. \A j \in 2 .. n : j - 1 \in 1 .. n - 1 /\ tail[j - 1] = ms[j]
  BY <1>1
<1>3. \A i \in 1 .. n : i = 1 \/ i \in 2 .. n
  BY <1>1
<1>4. \A i \in 1 .. n - 1 : i + 1 \in 1 .. n /\ i + 1 \in 2 .. n /\ i + 1 # 1
  BY <1>1
<1>5. 1 \in 1 .. n
  BY <1>1
<1>6. Has(ms, S) <=> Head(ms) \in S \/ Has(tail, S)
  BY <1>1, <1>2, <1>3, <1>4, <1>5 DEF Has, n
<1>7. ASSUME AtMostOne(ms, S)
      PROVE  AtMostOne(tail, S) /\ (Head(ms) \in S => ~Has(tail, S))
  <2>1. ASSUME NEW i \in 1 .. n - 1, NEW j \in 1 .. n - 1, tail[i] \in S, tail[j] \in S
        PROVE  i = j
    <3>1. i + 1 = j + 1
      BY <1>1, <1>4, <1>7, <2>1 DEF AtMostOne, n
    <3> QED
      BY <1>1, <3>1
  <2>2. Head(ms) \in S => ~Has(tail, S)
    BY <1>1, <1>4, <1>5, <1>7 DEF AtMostOne, Has, n
  <2> QED
    BY <1>1, <2>1, <2>2 DEF AtMostOne
<1>8. ASSUME NEW G, LastIs(ms, S, G) PROVE LastIs(tail, S, G)
  <2> SUFFICES ASSUME NEW i \in 1 .. n - 1, tail[i] \in S, tail[i] \notin G
               PROVE  \E j \in i + 1 .. n - 1 : tail[j] \in S
    BY <1>1 DEF LastIs
  <2>1. i + 1 \in 1 .. n /\ ms[i + 1] \in S /\ ms[i + 1] \notin G
    BY <1>1, <1>4
  <2>2. PICK j \in i + 2 .. n : ms[j] \in S
    <3>1. i + 1 + 1 = i + 2
      BY <1>1
    <3> QED
      BY <1>8, <2>1, <3>1 DEF LastIs, n
  <2>3. j \in 2 .. n /\ j - 1 \in i + 1 .. n - 1
    BY <1>1, <2>2
  <2> QED
    BY <1>2, <2>2, <2>3
<1>9. ASSUME NEW G, LastIs(ms, S, G), Head(ms) \in S, ~Has(tail, S) PROVE Head(ms) \in G
  BY <1>1, <1>2, <1>5, <1>9 DEF LastIs, Has, n
<1>10. ASSUME NEW G, Before(ms, S, G) PROVE Before(tail, S, G)
  <2> SUFFICES ASSUME NEW i \in 1 .. n - 1, tail[i] \in S
               PROVE  \E j \in i + 1 .. n - 1 : tail[j] \in G
    BY <1>1 DEF Before
  <2>1. PICK j \in i + 1 + 1 .. n : ms[j] \in G
    BY <1>1, <1>4, <1>10 DEF Before, n
  <2>2. j \in 2 .. n /\ j - 1 \in i + 1 .. n - 1
    BY <1>1, <2>1
  <2> QED
    BY <1>2, <2>1, <2>2
<1> QED
  BY <1>6, <1>7, <1>8, <1>9, <1>10 DEF tail

LEMMA RemoveAtItems ==
  ASSUME NEW M, NEW ms \in Seq(M), NEW i \in DOMAIN ms
  PROVE  /\ i \in 1 .. Len(ms) /\ Len(RemoveAt(ms, i)) = Len(ms) - 1
         /\ \A k \in 1 .. Len(ms) - 1 :
              RemoveAt(ms, i)[k] = IF k < i THEN ms[k] ELSE ms[k + 1]
<1>1. i \in 1 .. Len(ms) /\ Len(ms) \in Nat
  BY LenProperties
<1> DEFINE a == SubSeq(ms, 1, i - 1)
           c == SubSeq(ms, i + 1, Len(ms))
<1>2. /\ a \in Seq(M) /\ Len(a) = i - 1
      /\ \A k \in 1 .. i - 1 : a[k] = ms[k]
  <2>1. \A j \in 1 .. i - 1 : ms[j] \in M
    BY <1>1, ElementOfSeq
  <2> QED
    BY <1>1, <2>1, SubSeqProperties
<1>3. /\ c \in Seq(M) /\ Len(c) = Len(ms) - i
      /\ \A k \in 1 .. Len(ms) - i : c[k] = ms[i + k]
  <2>1. \A j \in i + 1 .. Len(ms) : ms[j] \in M
    BY <1>1, ElementOfSeq
  <2> QED
    BY <1>1, <2>1, SubSeqProperties
<1> HIDE DEF a, c
<1> DEFINE n == Len(ms)
<1>4. /\ Len(a \o c) = n - 1
      /\ \A k \in 1 .. n - 1 : (a \o c)[k] = IF k <= i - 1 THEN a[k] ELSE c[k - (i - 1)]
  <2>1. /\ Len(a \o c) = Len(a) + Len(c)
        /\ \A k \in 1 .. Len(a) + Len(c) :
             (a \o c)[k] = IF k <= Len(a) THEN a[k] ELSE c[k - Len(a)]
    BY <1>2, <1>3, ConcatProperties
  <2>2. Len(a) = i - 1 /\ Len(a) + Len(c) = n - 1
    BY <1>1, <1>2, <1>3
  <2> QED
    BY <2>1, <2>2
<1>5. RemoveAt(ms, i) = a \o c
  BY DEF RemoveAt, a, c
<1> HIDE DEF n
<1>6. n \in Nat /\ i \in 1 .. n
  BY <1>1 DEF n
<1>7. ASSUME NEW k \in 1 .. n - 1
      PROVE  (a \o c)[k] = IF k < i THEN ms[k] ELSE ms[k + 1]
  <2>1. CASE k < i
    <3>1. k \in 1 .. i - 1 /\ k <= i - 1
      BY <1>6, <2>1
    <3> QED
      BY <1>2, <1>4, <2>1, <3>1
  <2>2. CASE ~(k < i)
    <3>1. k - (i - 1) \in 1 .. n - i /\ i + (k - (i - 1)) = k + 1 /\ ~(k <= i - 1)
      BY <1>6, <2>2
    <3>2. (a \o c)[k] = c[k - (i - 1)]
      BY <1>4, <3>1
    <3>3. c[k - (i - 1)] = ms[i + (k - (i - 1))]
      BY <1>3, <3>1 DEF n
    <3> QED
      BY <2>2, <3>1, <3>2, <3>3
  <2> QED
    BY <2>1, <2>2
<1> QED
  BY <1>1, <1>4, <1>5, <1>7 DEF n

\* The loss of a message leaves the others in their order.
LEMMA Lost ==
  ASSUME NEW M, NEW ms \in Seq(M), NEW i \in DOMAIN ms, NEW S
  PROVE  /\ ms[i] \notin S => (Has(RemoveAt(ms, i), S) <=> Has(ms, S))
         /\ AtMostOne(ms, S) => /\ AtMostOne(RemoveAt(ms, i), S)
                                /\ ms[i] \in S => ~Has(RemoveAt(ms, i), S)
         /\ \A G : ms[i] \notin G /\ Before(ms, S, G) => Before(RemoveAt(ms, i), S, G)
         /\ \A G : ms[i] \notin S /\ LastIs(ms, S, G) => LastIs(RemoveAt(ms, i), S, G)
<1> DEFINE rest == RemoveAt(ms, i)
           n == Len(ms)
           At(k) == IF k < i THEN k ELSE k + 1
<1>1. /\ n \in Nat /\ i \in 1 .. n /\ Len(rest) = n - 1
      /\ \A k \in 1 .. n - 1 : rest[k] = IF k < i THEN ms[k] ELSE ms[k + 1]
  BY RemoveAtItems, LenProperties
<1> HIDE DEF rest, n
<1>2. \A k \in 1 .. n - 1 : At(k) \in 1 .. n /\ At(k) # i /\ rest[k] = ms[At(k)]
  BY <1>1
<1>3. \A j, k \in 1 .. n - 1 : At(j) = At(k) => j = k
  BY <1>1
<1>4. \A m \in 1 .. n : m # i => \E k \in 1 .. n - 1 : At(k) = m
  <2> TAKE m \in 1 .. n
  <2> HAVE m # i
  <2>1. CASE m < i
    <3>1. m \in 1 .. n - 1 /\ At(m) = m
      BY <1>1, <2>1
    <3> QED
      BY <3>1
  <2>2. CASE m > i
    <3>1. m - 1 \in 1 .. n - 1 /\ At(m - 1) = m
      BY <1>1, <2>2
    <3> QED
      BY <3>1
  <2> QED
    BY <1>1, <2>1, <2>2
<1>5. \A j, k \in 1 .. n - 1 : At(j) < At(k) => j < k
  BY <1>1
<1> HIDE DEF At
<1>6. ms[i] \notin S => (Has(rest, S) <=> Has(ms, S))
  BY <1>1, <1>2, <1>4 DEF Has, n
<1>7. ASSUME AtMostOne(ms, S)
      PROVE  AtMostOne(rest, S) /\ (ms[i] \in S => ~Has(rest, S))
  <2>1. \A j, k \in 1 .. n : ms[j] \in S /\ ms[k] \in S => j = k
    BY <1>7 DEF AtMostOne, n
  <2>2. ASSUME NEW j \in 1 .. n - 1, NEW k \in 1 .. n - 1, rest[j] \in S, rest[k] \in S
        PROVE  j = k
    BY <1>2, <1>3, <2>1, <2>2
  <2>3. ASSUME ms[i] \in S, NEW k \in 1 .. n - 1, rest[k] \in S
        PROVE  FALSE
    BY <1>1, <1>2, <2>1, <2>3
  <2> QED
    BY <1>1, <2>2, <2>3 DEF AtMostOne, Has
<1>8. ASSUME NEW G, ms[i] \notin S, LastIs(ms, S, G)
      PROVE  LastIs(rest, S, G)
  <2> SUFFICES ASSUME NEW k \in 1 .. n - 1, rest[k] \in S, rest[k] \notin G
               PROVE  \E j \in k + 1 .. n - 1 : rest[j] \in S
    BY <1>1 DEF LastIs
  <2>1. At(k) \in 1 .. n /\ ms[At(k)] \in S /\ ms[At(k)] \notin G
    BY <1>2
  <2>2. PICK m \in At(k) + 1 .. n : ms[m] \in S
    BY <1>8, <2>1 DEF LastIs, n
  <2>3. m \in 1 .. n /\ m > At(k) /\ m # i
    BY <1>1, <1>8, <2>1, <2>2
  <2>4. PICK j \in 1 .. n - 1 : At(j) = m
    BY <1>4, <2>3
  <2>5. j > k
    BY <1>5, <2>3, <2>4
  <2>6. j \in k + 1 .. n - 1
    BY <1>1, <2>5
  <2> QED
    BY <1>2, <2>2, <2>4, <2>6
<1>9. ASSUME NEW G, ms[i] \notin G, Before(ms, S, G)
      PROVE  Before(rest, S, G)
  <2> SUFFICES ASSUME NEW k \in 1 .. n - 1, rest[k] \in S
               PROVE  \E j \in k + 1 .. n - 1 : rest[j] \in G
    BY <1>1 DEF Before
  <2>1. At(k) \in 1 .. n /\ ms[At(k)] \in S
    BY <1>2
  <2>2. PICK m \in At(k) + 1 .. n : ms[m] \in G
    BY <1>9, <2>1 DEF Before, n
  <2>3. m \in 1 .. n /\ m > At(k) /\ m # i
    BY <1>1, <1>9, <2>1, <2>2
  <2>4. PICK j \in 1 .. n - 1 : At(j) = m
    BY <1>4, <2>3
  <2>5. j > k
    BY <1>5, <2>3, <2>4
  <2>6. j \in k + 1 .. n - 1
    BY <1>1, <2>5
  <2> QED
    BY <1>2, <2>2, <2>4, <2>6
<1> QED
  BY <1>6, <1>7, <1>8, <1>9 DEF rest

LEMMA MessageTypes ==
  /\ [type |-> "ask"] \in Write /\ [type |-> "ask"] \in Asks
  /\ \A b \in Bus : [type |-> "ask"] \notin WritesTo(b)
  /\ \A b \in Bus, v \in Value :
       LET m == [type |-> "bus", bus |-> b, val |-> v]
       IN  m \in Write /\ m \notin Asks /\ m \in WritesTo(b) /\ m \in Carrying(b, v)
           /\ \A c \in Bus \ {b} : m \notin WritesTo(c)
  /\ \A m \in Write : /\ m \in Asks <=> m.type = "ask"
                      /\ m.type = "ask" => \A b \in Bus : m \notin WritesTo(b)
                      /\ m.type # "ask" => /\ m.type = "bus" /\ m.bus \in Bus /\ m.val \in Value
                                           /\ m \in WritesTo(m.bus)
                                           /\ \A b \in Bus \ {m.bus} : m \notin WritesTo(b)
  BY DEF Write, Asks, WritesTo, Carrying

LEMMA Empty ==
  /\ \A S : ~Has(<<>>, S) /\ AtMostOne(<<>>, S)
  /\ \A S, G : Before(<<>>, S, G) /\ LastIs(<<>>, S, G)
<1>1. 1 .. Len(<<>>) = {}
  OBVIOUS
<1> QED
  BY <1>1 DEF Has, AtMostOne, Before, LastIs

\* What an adjustment that is sent does to the channel.
LEMMA Sent ==
  ASSUME TypeOK, NEW c \in Bus, NEW v \in Value, Send(c, v)
  PROVE  /\ ~linked => up' = up
         /\ Has(up', Asks) <=> Has(up, Asks)
         /\ AtMostOne(up, Asks) => AtMostOne(up', Asks)
         /\ linked => /\ LastIs(up', WritesTo(c), Carrying(c, v))
                      /\ Has(up', WritesTo(c))
         /\ \A b \in Bus \ {c} :
              /\ Has(up', WritesTo(b)) <=> Has(up, WritesTo(b))
              /\ Before(up, WritesTo(b), Asks) => Before(up', WritesTo(b), Asks)
              /\ \A G : LastIs(up, WritesTo(b), G) => LastIs(up', WritesTo(b), G)
<1>1. CASE ~linked
  BY <1>1 DEF Send
<1>2. CASE linked
  <2> DEFINE m == [type |-> "bus", bus |-> c, val |-> v]
  <2>1. /\ m \in Write /\ m \notin Asks /\ m \in WritesTo(c) /\ m \in Carrying(c, v)
        /\ \A b \in Bus \ {c} : m \notin WritesTo(b)
    BY MessageTypes
  <2>2. up' = Append(up, m) /\ up \in Seq(Write)
    BY <1>2 DEF Send, TypeOK
  <2> HIDE DEF m
  <2>3. /\ Has(up', Asks) <=> Has(up, Asks)
        /\ AtMostOne(up, Asks) => AtMostOne(up', Asks)
    BY <2>1, <2>2, PutBehind
  <2>4. LastIs(up', WritesTo(c), Carrying(c, v)) /\ Has(up', WritesTo(c))
    BY <2>1, <2>2, PutBehind
  <2>5. ASSUME NEW b \in Bus \ {c}
        PROVE  /\ Has(up', WritesTo(b)) <=> Has(up, WritesTo(b))
               /\ Before(up, WritesTo(b), Asks) => Before(up', WritesTo(b), Asks)
               /\ \A G : LastIs(up, WritesTo(b), G) => LastIs(up', WritesTo(b), G)
    BY <2>1, <2>2, PutBehind
  <2> QED
    BY <1>2, <2>3, <2>4, <2>5
<1> QED
  BY <1>1, <1>2

-----------------------------------------------------------------------------
(* The panel.                                                              *)

LinkInv == AskInv /\ OnceInv /\ AnswerInv /\ PanelInv

\* Steps that leave alone what a part of the invariant speaks of.
LEMMA AskQuiet ==
  ASSUME AskInv, UNCHANGED <<boot, reports, linked, up, down, askPending, unanswered>>
  PROVE  AskInv'
  BY DEF AskInv

LEMMA OnceQuiet ==
  ASSUME OnceInv, UNCHANGED <<reports, down, unanswered>>
  PROVE  OnceInv'
  BY DEF OnceInv

LEMMA AnswersQuiet ==
  ASSUME NEW b, Answers(b), UNCHANGED <<reports, up, down>>,
         timer'[b] = timer[b], bus'[b] = bus[b]
  PROVE  Answers(b)'
  BY DEF Answers, Coming

LEMMA DeliversQuiet ==
  ASSUME NEW b, Delivers(b), UNCHANGED up,
         timer'[b] = timer[b], bus'[b] = bus[b], slider'[b] = slider[b]
  PROVE  Delivers(b)'
  BY DEF Delivers

\* While a report is to come the page is waiting for it.
LEMMA ComingAnswers ==
  ASSUME AskInv, OnceInv, NEW b \in Bus, Coming(b)
  PROVE  Answering
<1>1. CASE Has(up, Asks)
  BY <1>1, Empty DEF AskInv, Answering
<1>2. CASE \E i \in 1 .. Len(reports) : reports[i] = b
  <2>1. reports # <<>> /\ b \in unanswered
    BY <1>2 DEF OnceInv
  <2> QED
    BY <2>1 DEF AskInv, Answering
<1>3. CASE \E i \in 1 .. Len(down) : down[i].bus = b
  <2>1. down # <<>> /\ b \in unanswered
    BY <1>3 DEF OnceInv
  <2> QED
    BY <2>1 DEF AskInv, Answering
<1> QED
  BY <1>1, <1>2, <1>3 DEF Coming

LEMMA LinkDrag ==
  ASSUME TypeOK, LinkInv, NEW c \in Bus, NEW v \in Value, Drag(c, v)
  PROVE  LinkInv'
<1> USE DEF LinkInv
<1>1. AskInv' /\ OnceInv'
  BY AskQuiet, OnceQuiet DEF Drag, device
<1>2. /\ disturbed' = IF Answering THEN disturbed \cup {c} ELSE disturbed
      /\ slider'[c] = v /\ timer'[c] = v
      /\ \A b \in Bus \ {c} : slider'[b] = slider[b] /\ timer'[b] = timer[b]
      /\ UNCHANGED <<bus, reports, linked, up, down, unanswered>>
  BY DEF Drag, Disturb, TypeOK, device
<1>3. ASSUME NEW b \in Bus \ disturbed' PROVE Answers(b)'
  <2>1. b \notin disturbed /\ Answers(b)
    BY <1>2, <1>3 DEF AnswerInv
  <2>2. CASE b # c
    BY <1>2, <2>1, <2>2, AnswersQuiet
  <2>3. CASE b = c
    <3>1. ~Coming(b)
      BY <1>2, <1>3, <2>3, ComingAnswers
    <3> QED
      BY <1>2, <2>1, <3>1 DEF Answers, Coming
  <2> QED
    BY <2>2, <2>3
<1>4. ASSUME linked', NEW b \in Bus \ (disturbed' \cup unanswered') PROVE Delivers(b)'
  <2>1. Delivers(b)
    BY <1>2, <1>4 DEF PanelInv
  <2>2. CASE b # c
    BY <1>2, <2>1, <2>2, DeliversQuiet
  <2>3. CASE b = c
    BY <1>2, <2>3, BusAssumption DEF Delivers
  <2> QED
    BY <2>2, <2>3
<1> QED
  BY <1>1, <1>3, <1>4 DEF AnswerInv, PanelInv

\* An adjustment that is sent leaves the question and the answers alone.
LEMMA SentQuiet ==
  ASSUME TypeOK, AskInv, OnceInv, NEW c \in Bus, NEW v \in Value, Send(c, v),
         UNCHANGED <<boot, reports, linked, down, askPending, unanswered>>
  PROVE  /\ AskInv' /\ OnceInv'
         /\ \A b \in Bus : Coming(b)' <=> Coming(b)
<1>1. /\ ~linked => up' = up
      /\ Has(up', Asks) <=> Has(up, Asks)
      /\ AtMostOne(up, Asks) => AtMostOne(up', Asks)
  BY Sent
<1> QED
  BY <1>1, OnceQuiet DEF AskInv, Coming

LEMMA LinkTyped ==
  ASSUME TypeOK, LinkInv, NEW c \in Bus, NEW v \in Value, Type(c, v)
  PROVE  LinkInv'
<1> USE DEF LinkInv
<1>1. /\ disturbed' = IF Answering \/ timer[c] # None THEN disturbed \cup {c} ELSE disturbed
      /\ slider'[c] = v /\ timer' = timer /\ Send(c, v)
      /\ \A b \in Bus \ {c} : slider'[b] = slider[b]
      /\ UNCHANGED <<boot, bus, reports, linked, down, askPending, unanswered>>
  BY DEF Type, TypeOK, device
<1>2. AskInv' /\ OnceInv' /\ \A b \in Bus : Coming(b)' <=> Coming(b)
  BY <1>1, SentQuiet
<1>3. ASSUME NEW b \in Bus \ disturbed' PROVE Answers(b)'
  <2>1. b \notin disturbed /\ Answers(b)
    BY <1>1, <1>3 DEF AnswerInv
  <2>2. CASE b # c
    BY <1>1, <1>2, <2>1, <2>2, Sent DEF Answers
  <2>3. CASE b = c
    <3>1. ~Coming(b)'
      BY <1>1, <1>2, <1>3, <2>3, ComingAnswers
    <3> QED
      BY <1>1, <2>1, <3>1 DEF Answers
  <2> QED
    BY <2>2, <2>3
<1>4. ASSUME linked', NEW b \in Bus \ (disturbed' \cup unanswered') PROVE Delivers(b)'
  <2>1. Delivers(b)
    BY <1>1, <1>4 DEF PanelInv
  <2>2. CASE b # c
    BY <1>1, <2>1, <2>2, Sent DEF Delivers
  <2>3. CASE b = c
    <3>1. timer[c] = None
      BY <1>1, <1>4, <2>3
    <3>2. LastIs(up', WritesTo(c), Carrying(c, v)) /\ Has(up', WritesTo(c))
      BY <1>1, <1>4, Sent
    <3> QED
      BY <1>1, <2>3, <3>1, <3>2 DEF Delivers
  <2> QED
    BY <2>2, <2>3
<1> QED
  BY <1>2, <1>3, <1>4 DEF AnswerInv, PanelInv

LEMMA LinkFires ==
  ASSUME TypeOK, LinkInv, NEW c \in Bus, DebounceFires(c)
  PROVE  LinkInv'
<1> USE DEF LinkInv
<1>1. timer[c] # None /\ timer[c] \in Value
  BY DEF DebounceFires, TypeOK
<1>2. /\ timer'[c] = None /\ Send(c, timer[c])
      /\ \A b \in Bus \ {c} : timer'[b] = timer[b]
      /\ UNCHANGED <<boot, bus, reports, linked, down, askPending, unanswered, slider, disturbed>>
  BY DEF DebounceFires, TypeOK, device
<1>3. AskInv' /\ OnceInv' /\ \A b \in Bus : Coming(b)' <=> Coming(b)
  BY <1>1, <1>2, SentQuiet
<1>4. ASSUME NEW b \in Bus \ disturbed' PROVE Answers(b)'
  <2>1. Answers(b)
    BY <1>2, <1>4 DEF AnswerInv
  <2>2. CASE b # c
    BY <1>1, <1>2, <1>3, <2>1, <2>2, Sent DEF Answers
  <2>3. CASE b = c
    <3>1. ~Coming(b)'
      BY <1>1, <1>3, <2>1, <2>3 DEF Answers
    <3> QED
      BY <1>2, <2>1, <3>1 DEF Answers
  <2> QED
    BY <2>2, <2>3
<1>5. ASSUME linked', NEW b \in Bus \ (disturbed' \cup unanswered') PROVE Delivers(b)'
  <2>1. Delivers(b)
    BY <1>2, <1>5 DEF PanelInv
  <2>2. CASE b # c
    BY <1>1, <1>2, <2>1, <2>2, Sent DEF Delivers
  <2>3. CASE b = c
    <3>1. timer[c] = slider[c]
      BY <1>1, <2>1, <2>3 DEF Delivers
    <3>2. LastIs(up', WritesTo(c), Carrying(c, slider[c])) /\ Has(up', WritesTo(c))
      BY <1>1, <1>2, <1>5, <3>1, Sent
    <3> QED
      BY <1>2, <2>3, <3>2 DEF Delivers
  <2> QED
    BY <2>2, <2>3
<1> QED
  BY <1>3, <1>4, <1>5 DEF AnswerInv, PanelInv

\* The question is behind all adjustments of a bus without a timer.
LEMMA LinkAsks ==
  ASSUME TypeOK, LinkInv, SyncBuses
  PROVE  LinkInv'
<1> USE DEF LinkInv
<1> DEFINE m == [type |-> "ask"]
<1>1. m \in Write /\ m \in Asks /\ \A b \in Bus : m \notin WritesTo(b)
  BY MessageTypes
<1>2. up' = Append(up, m) /\ up \in Seq(Write)
  BY DEF SyncBuses, TypeOK
<1> HIDE DEF m
<1>3. /\ linked /\ down = <<>> /\ reports = <<>> /\ unanswered = Bus
      /\ ~Has(up, Asks) /\ AtMostOne(up, Asks)
  BY DEF SyncBuses, AskInv
<1>4. /\ ~askPending' /\ disturbed' = {b \in Bus : timer[b] # None}
      /\ UNCHANGED <<reports, linked, down, timer, unanswered>>
  BY DEF SyncBuses, device
<1>5. AtMostOne(up', Asks) /\ \A b \in Bus : Before(up', WritesTo(b), Asks)
  BY <1>1, <1>2, <1>3, PutBehind
<1>6. AskInv'
  BY <1>3, <1>4, <1>5 DEF AskInv
<1>7. OnceInv'
  BY <1>4, OnceQuiet
<1>8. ASSUME NEW b \in Bus \ disturbed' PROVE Answers(b)'
  BY <1>3, <1>4, <1>5, <1>8 DEF Answers
<1> QED
  BY <1>3, <1>4, <1>6, <1>7, <1>8 DEF AnswerInv, PanelInv

\* The report of a bus sets its slider to what the bus holds.
LEMMA LinkReceives ==
  ASSUME TypeOK, LinkInv, ReceiveBusState
  PROVE  LinkInv'
<1> USE DEF LinkInv
<1> DEFINE c == Head(down).bus
           n == Len(down)
<1>1. /\ n \in Nat \ {0} /\ Len(down') = n - 1 /\ c = down[1].bus /\ Head(down).val = down[1].val
      /\ \A i \in 1 .. n - 1 : i + 1 \in 1 .. n /\ i + 1 # 1 /\ down'[i] = down[i + 1]
      /\ 1 \in 1 .. n /\ c \in Bus /\ down # <<>>
  <2>1. down \in Seq(Report) /\ down # <<>> /\ down' = Tail(down)
    BY DEF ReceiveBusState, TypeOK
  <2>2. /\ n \in Nat \ {0} /\ Len(down') = n - 1 /\ Head(down) = down[1] /\ Head(down) \in Report
        /\ \A i \in 1 .. n - 1 : down'[i] = down[i + 1]
    BY <2>1, HeadTailProperties, EmptySeq
  <2> QED
    BY <2>1, <2>2 DEF Report
<1>2. /\ slider'[c] = Head(down).val /\ \A b \in Bus \ {c} : slider'[b] = slider[b]
      /\ unanswered' = unanswered \ {c}
      /\ UNCHANGED <<boot, bus, reports, linked, up, askPending, timer, disturbed>>
  BY <1>1 DEF ReceiveBusState, TypeOK, device
<1> HIDE DEF c, n
<1>3. linked /\ boot = "ready" /\ ~askPending /\ ~Has(up, Asks)
  BY <1>1 DEF AskInv
<1>4. AskInv'
  BY <1>2, <1>3 DEF AskInv
<1>5. /\ \A i \in 1 .. Len(reports) : reports[i] # c /\ reports[i] \in unanswered
      /\ \A i \in 1 .. n - 1 : down'[i].bus # c /\ down'[i].bus \in unanswered
      /\ c \in unanswered
  BY <1>1 DEF OnceInv, n
<1>6. OnceInv'
  <2>1. ASSUME NEW i \in 1 .. n - 1, NEW j \in 1 .. n - 1, down'[i].bus = down'[j].bus
        PROVE  i = j
    <3>1. i + 1 = j + 1
      BY <1>1, <2>1 DEF OnceInv, n
    <3> QED
      BY <1>1, <3>1
  <2>2. \A i \in 1 .. Len(reports), j \in 1 .. n - 1 : reports[i] # down'[j].bus
    BY <1>1 DEF OnceInv, n
  <2> QED
    BY <1>1, <1>2, <1>5, <2>1, <2>2 DEF OnceInv
<1>7. ASSUME NEW b \in Bus \ disturbed' PROVE Answers(b)'
  <2>1. Answers(b)
    BY <1>2, <1>7 DEF AnswerInv
  <2>2. Coming(b)' => Coming(b)
    BY <1>1, <1>2 DEF Coming, n
  <2> QED
    BY <1>1, <1>2, <2>1, <2>2 DEF Answers, n
<1>8. ASSUME NEW b \in Bus \ (disturbed' \cup unanswered') PROVE Delivers(b)'
  <2>1. CASE b # c
    <3>1. Delivers(b)
      BY <1>2, <1>3, <1>8, <2>1 DEF PanelInv
    <3> QED
      BY <1>2, <2>1, <3>1, DeliversQuiet
  <2>2. CASE b = c
    <3>1. Answers(c) /\ Coming(c)
      BY <1>1, <1>2, <1>8, <2>2 DEF AnswerInv, Coming, n
    <3>2. timer[c] = None /\ ~Has(up, WritesTo(c)) /\ bus[c] = Head(down).val
      BY <1>1, <1>3, <3>1 DEF Answers, Before, Has, n
    <3> QED
      BY <1>2, <2>2, <3>2 DEF Delivers, LastIs, Has
  <2> QED
    BY <2>1, <2>2
<1> QED
  BY <1>4, <1>6, <1>7, <1>8 DEF AnswerInv, PanelInv

\* A new connection, or none: nothing is under way.
LEMMA LinkIdle ==
  ASSUME up' = <<>>, down' = <<>>, reports' = <<>>,
         \/ linked' = FALSE /\ askPending' = FALSE
         \/ linked' = TRUE /\ unanswered' = Bus
  PROVE  LinkInv'
<1>1. /\ ~Has(up', Asks) /\ AtMostOne(up', Asks)
      /\ 1 .. Len(down') = {} /\ 1 .. Len(reports') = {}
  BY Empty
<1>2. AskInv' /\ OnceInv'
  BY <1>1 DEF AskInv, OnceInv
<1>3. \A b : Answers(b)'
  BY <1>1 DEF Answers, Coming
<1> QED
  BY <1>2, <1>3 DEF LinkInv, AnswerInv, PanelInv

LEMMA LinkConnects ==
  ASSUME LinkInv, Connect \/ Disconnect \/ Reboot
  PROVE  LinkInv'
<1>1. CASE Connect
  BY <1>1, LinkIdle DEF LinkInv, AskInv, Connect, device
<1>2. CASE Disconnect \/ Reboot
  BY <1>2, LinkIdle DEF Disconnect, Reboot, CutLink
<1> QED
  BY <1>1, <1>2

LEMMA LinkLosesWrite ==
  ASSUME TypeOK, LinkInv, LoseWrite
  PROVE  LinkInv'
<1> USE DEF LinkInv
<1>1. PICK i \in DOMAIN up :
        /\ up' = RemoveAt(up, i)
        /\ IF up[i].type = "ask"
           THEN dropped' = TRUE /\ UNCHANGED disturbed
           ELSE disturbed' = disturbed \cup {up[i].bus} /\ UNCHANGED dropped
  BY DEF LoseWrite
<1>2. /\ up \in Seq(Write) /\ up[i] \in Write /\ up # <<>>
      /\ UNCHANGED <<boot, bus, reports, linked, down, askPending, slider, timer, unanswered>>
  BY <1>1, ElementOfSeq, LenProperties, EmptySeq DEF TypeOK, LoseWrite, device, page
<1>3. linked
  BY <1>2 DEF AskInv
<1>4. Has(up', Asks) => Has(up, Asks)
  BY <1>1, <1>2, Lost DEF Has
<1>5. AtMostOne(up', Asks) /\ (up[i] \in Asks => ~Has(up', Asks) /\ Has(up, Asks))
  <2>1. AtMostOne(up, Asks) /\ i \in 1 .. Len(up)
    BY <1>1, <1>2, LenProperties DEF AskInv
  <2>2. up[i] \in Asks => Has(up, Asks)
    BY <2>1 DEF Has
  <2> QED
    BY <1>1, <1>2, <2>1, <2>2, Lost
<1>6. AskInv' /\ OnceInv'
  BY <1>2, <1>3, <1>4, <1>5, OnceQuiet DEF AskInv
<1>7. CASE up[i].type = "ask"
  <2>1. /\ up[i] \in Asks /\ \A b \in Bus : up[i] \notin WritesTo(b)
        /\ disturbed' = disturbed
    BY <1>1, <1>2, <1>7, MessageTypes
  <2>2. ~Has(up', Asks) /\ 1 .. Len(reports') = {} /\ 1 .. Len(down') = {} /\ unanswered' = Bus
    BY <1>2, <1>5, <2>1 DEF AskInv
  <2>3. \A b \in Bus : Answers(b)'
    BY <2>2 DEF Answers, Coming
  <2> QED
    BY <1>6, <2>2, <2>3 DEF AnswerInv, PanelInv
<1>8. CASE up[i].type # "ask"
  <2>1. /\ up[i] \notin Asks /\ \A b \in Bus \ {up[i].bus} : up[i] \notin WritesTo(b)
        /\ disturbed' = disturbed \cup {up[i].bus}
    BY <1>1, <1>2, <1>8, MessageTypes
  <2>2. ASSUME NEW b \in Bus \ disturbed' PROVE Answers(b)'
    <3>1. Answers(b)
      BY <2>1, <2>2 DEF AnswerInv
    <3>2. Coming(b)' => Coming(b)
      BY <1>2, <1>4 DEF Coming
    <3>3. Before(up, WritesTo(b), Asks) => Before(up', WritesTo(b), Asks)
      BY <1>1, <1>2, <2>1, Lost
    <3> QED
      BY <1>2, <3>1, <3>2, <3>3 DEF Answers
  <2>3. ASSUME NEW b \in Bus \ (disturbed' \cup unanswered') PROVE Delivers(b)'
    <3>1. Delivers(b) /\ up[i] \notin WritesTo(b)
      BY <1>2, <1>3, <2>1, <2>3 DEF PanelInv
    <3>2. /\ Has(up', WritesTo(b)) <=> Has(up, WritesTo(b))
          /\ \A G : LastIs(up, WritesTo(b), G) => LastIs(up', WritesTo(b), G)
      BY <1>1, <1>2, <3>1, Lost
    <3> QED
      BY <1>2, <3>1, <3>2 DEF Delivers
  <2> QED
    BY <1>6, <2>2, <2>3 DEF AnswerInv, PanelInv
<1> QED
  BY <1>7, <1>8

LEMMA LinkLosesReport ==
  ASSUME TypeOK, LinkInv, LoseNotification
  PROVE  LinkInv'
<1> USE DEF LinkInv
<1> DEFINE n == Len(down)
<1>1. PICK i \in DOMAIN down : down' = RemoveAt(down, i)
  BY DEF LoseNotification
<1>2. /\ n \in Nat /\ i \in 1 .. n /\ Len(down') = n - 1 /\ down # <<>>
      /\ \A k \in 1 .. n - 1 : down'[k] = IF k < i THEN down[k] ELSE down[k + 1]
  BY <1>1, RemoveAtItems, LenProperties, EmptySeq DEF TypeOK
<1>3. UNCHANGED <<boot, bus, reports, linked, up, askPending, slider, timer, unanswered, disturbed>>
  BY DEF LoseNotification, device, page
<1> HIDE DEF n
<1>4. \A k \in 1 .. n - 1 : \E j \in 1 .. n : down'[k] = down[j]
  BY <1>2
<1>5. AskInv'
  BY <1>2, <1>3 DEF AskInv
<1>6. OnceInv'
  <2>1. ASSUME NEW j \in 1 .. n - 1, NEW k \in 1 .. n - 1, down'[j].bus = down'[k].bus
        PROVE  j = k
    <3> DEFINE A(l) == IF l < i THEN l ELSE l + 1
    <3>1. A(j) \in 1 .. n /\ A(k) \in 1 .. n /\ down'[j] = down[A(j)] /\ down'[k] = down[A(k)]
      BY <1>2
    <3>2. A(j) = A(k)
      <4> HIDE DEF A
      <4> QED
        BY <2>1, <3>1 DEF OnceInv, n
    <3> QED
      BY <1>2, <3>2
  <2> QED
    BY <1>2, <1>3, <1>4, <2>1 DEF OnceInv, n
<1>7. ASSUME NEW b \in Bus \ disturbed' PROVE Answers(b)'
  <2>1. Answers(b)
    BY <1>3, <1>7 DEF AnswerInv
  <2>2. Coming(b)' => Coming(b)
    BY <1>2, <1>3, <1>4 DEF Coming, n
  <2> QED
    BY <1>2, <1>3, <1>4, <2>1, <2>2 DEF Answers, n
<1>8. \A b : Delivers(b) => Delivers(b)'
  BY <1>3, DeliversQuiet
<1> QED
  BY <1>3, <1>5, <1>6, <1>7, <1>8 DEF AnswerInv, PanelInv

\* The last adjustment under way arrives; before a report none does.
LEMMA LinkHandlesParam ==
  ASSUME TypeOK, LinkInv, HandleBusParam
  PROVE  LinkInv'
<1> USE DEF LinkInv
<1> DEFINE m == Head(up)
<1>1. /\ up \in Seq(Write) /\ up # <<>> /\ up' = Tail(up) /\ m \in Write /\ m.type = "bus"
      /\ reports = <<>>
  BY HeadTailProperties DEF HandleBusParam, Handle, TypeOK
<1>2. /\ m \notin Asks /\ m.bus \in Bus /\ m.val \in Value /\ m \in WritesTo(m.bus)
      /\ \A b \in Bus \ {m.bus} : m \notin WritesTo(b)
  BY <1>1, MessageTypes
<1>3. /\ UNCHANGED <<boot, reports, linked, down, askPending, slider, timer, unanswered, disturbed>>
      /\ \A b \in Bus \ {m.bus} : bus'[b] = bus[b]
      /\ boot = "ready" => bus'[m.bus] = m.val
  BY <1>2 DEF HandleBusParam, Settable, TypeOK, page
<1> HIDE DEF m
<1>4. linked
  BY <1>1 DEF AskInv
<1>5. /\ Has(up', Asks) => Has(up, Asks)
      /\ AtMostOne(up, Asks) => AtMostOne(up', Asks)
      /\ Has(up, WritesTo(m.bus))
  BY <1>1, <1>2, TakeHead DEF m
<1>6. AskInv' /\ OnceInv'
  BY <1>3, <1>4, <1>5, OnceQuiet DEF AskInv
<1>7. ASSUME NEW b \in Bus \ disturbed' PROVE Answers(b)'
  <2>1. Answers(b)
    BY <1>3, <1>7 DEF AnswerInv
  <2>2. Coming(b)' => Coming(b)
    BY <1>3, <1>5 DEF Coming
  <2>3. Before(up, WritesTo(b), Asks) => Before(up', WritesTo(b), Asks)
    BY <1>1, TakeHead
  <2>4. ASSUME NEW i \in 1 .. Len(down), down[i].bus = b PROVE b # m.bus
    <3>1. Coming(b) /\ ~Has(up, Asks)
      BY <2>4 DEF Coming, AskInv
    <3>2. ~Has(up, WritesTo(b))
      BY <2>1, <3>1 DEF Answers, Before, Has
    <3> QED
      BY <1>5, <3>2
  <2> QED
    BY <1>3, <2>1, <2>2, <2>3, <2>4 DEF Answers
<1>8. ASSUME NEW b \in Bus \ (disturbed' \cup unanswered') PROVE Delivers(b)'
  <2>1. Delivers(b) /\ boot = "ready"
    BY <1>3, <1>4, <1>8 DEF PanelInv, AskInv
  <2>2. /\ Has(up, WritesTo(b)) <=> m \in WritesTo(b) \/ Has(up', WritesTo(b))
        /\ \A G : LastIs(up, WritesTo(b), G) => LastIs(up', WritesTo(b), G)
        /\ \A G : LastIs(up, WritesTo(b), G) /\ m \in WritesTo(b) /\ ~Has(up', WritesTo(b)) => m \in G
    BY <1>1, TakeHead DEF m
  <2>3. CASE b # m.bus
    BY <1>2, <1>3, <2>1, <2>2, <2>3 DEF Delivers
  <2>4. CASE b = m.bus
    <3>1. m \in Carrying(b, slider[b]) => m.val = slider[b]
      BY DEF Carrying
    <3> QED
      BY <1>2, <1>3, <2>1, <2>2, <2>4, <3>1 DEF Delivers
  <2> QED
    BY <2>3, <2>4
<1> QED
  BY <1>6, <1>7, <1>8 DEF AnswerInv, PanelInv

\* The question is answered for every bus, once.
LEMMA LinkHandlesAsk ==
  ASSUME TypeOK, LinkInv, SendBusState
  PROVE  LinkInv'
<1> USE DEF LinkInv
<1> DEFINE m == Head(up)
<1>1. /\ up \in Seq(Write) /\ up # <<>> /\ up' = Tail(up) /\ m \in Write /\ m.type = "ask"
  BY HeadTailProperties DEF SendBusState, Handle, TypeOK
<1>2. m \in Asks /\ \A b \in Bus : m \notin WritesTo(b)
  BY <1>1, MessageTypes
<1>3. /\ UNCHANGED <<boot, bus, linked, down, askPending, slider, timer, unanswered, disturbed>>
      /\ reports' = IF boot = "ready" THEN BusOrder ELSE <<>>
  BY DEF SendBusState, Gettable, page
<1> HIDE DEF m
<1>4. Has(up, Asks)
  BY <1>1, <1>2, TakeHead DEF m
<1>5. linked /\ ~askPending /\ down = <<>> /\ reports = <<>> /\ unanswered = Bus
  BY <1>1, <1>4 DEF AskInv
<1>6. AtMostOne(up', Asks) /\ ~Has(up', Asks)
  BY <1>1, <1>2, TakeHead DEF AskInv, m
<1>7. AskInv'
  BY <1>3, <1>5, <1>6 DEF AskInv
<1>8. /\ \A i, j \in 1 .. Len(reports') : reports'[i] = reports'[j] => i = j
      /\ \A i \in 1 .. Len(reports') : reports'[i] \in Bus
  <2>1. CASE boot = "ready"
    <3>1. reports' \in Seq(Bus) /\ IsInjective(reports')
      BY <1>3, <2>1, BusAssumption
    <3>2. DOMAIN reports' = 1 .. Len(reports') /\ \A i \in 1 .. Len(reports') : reports'[i] \in Bus
      BY <3>1, LenProperties, ElementOfSeq
    <3> QED
      BY <3>1, <3>2 DEF IsInjective
  <2>2. CASE boot # "ready"
    BY <1>3, <2>2
  <2> QED
    BY <2>1, <2>2
<1>9. OnceInv'
  <2>1. 1 .. Len(down') = {}
    BY <1>3, <1>5
  <2> QED
    BY <1>3, <1>5, <1>8, <2>1 DEF OnceInv
<1>10. ASSUME NEW b \in Bus \ disturbed' PROVE Answers(b)'
  <2>1. Answers(b) /\ Coming(b)
    BY <1>3, <1>4, <1>10 DEF AnswerInv, Coming
  <2>2. Before(up, WritesTo(b), Asks) => Before(up', WritesTo(b), Asks)
    BY <1>1, TakeHead
  <2> QED
    BY <1>3, <2>1, <2>2 DEF Answers
<1> QED
  BY <1>3, <1>5, <1>7, <1>9, <1>10 DEF AnswerInv, PanelInv

\* A report carries what the bus holds.
LEMMA LinkReports ==
  ASSUME TypeOK, LinkInv, ReportBus
  PROVE  LinkInv'
<1> USE DEF LinkInv
<1> DEFINE c == Head(reports)
           m == [bus |-> c, val |-> bus[c]]
           n == Len(down)
           k == Len(reports)
<1>1. /\ k \in Nat \ {0} /\ Len(reports') = k - 1 /\ c = reports[1] /\ 1 \in 1 .. k
      /\ \A i \in 1 .. k - 1 : i + 1 \in 1 .. k /\ i + 1 # 1 /\ reports'[i] = reports[i + 1]
      /\ c \in Bus /\ reports # <<>>
  <2>1. reports \in Seq(Bus) /\ reports # <<>> /\ reports' = Tail(reports)
    BY DEF ReportBus, TypeOK
  <2>2. /\ k \in Nat \ {0} /\ Len(reports') = k - 1 /\ Head(reports) = reports[1]
        /\ Head(reports) \in Bus
        /\ \A i \in 1 .. k - 1 : reports'[i] = reports[i + 1]
    BY <2>1, HeadTailProperties, EmptySeq
  <2> QED
    BY <2>2
<1>2. /\ n \in Nat /\ Len(down') = n + 1 /\ down'[n + 1].bus = c /\ down'[n + 1].val = bus[c]
      /\ \A i \in 1 .. n : down'[i] = down[i]
      /\ \A i \in 1 .. n + 1 : i \in 1 .. n \/ i = n + 1
  <2>1. m \in Report
    BY <1>1 DEF Report, TypeOK
  <2>2. down \in Seq(Report) /\ down' = Append(down, m) /\ m.bus = c /\ m.val = bus[c]
    BY DEF ReportBus, TypeOK
  <2> HIDE DEF m
  <2>3. /\ n \in Nat /\ Len(down') = n + 1 /\ down'[n + 1] = m
        /\ \A i \in 1 .. n : down'[i] = down[i]
    BY <2>1, <2>2, AppendProperties, LenProperties
  <2> QED
    BY <2>2, <2>3
<1>3. UNCHANGED <<boot, bus, linked, up, askPending, slider, timer, unanswered, disturbed>>
  BY DEF ReportBus, page
<1> HIDE DEF c, m, n, k
<1>4. linked /\ boot = "ready" /\ ~askPending /\ ~Has(up, Asks)
  BY <1>1 DEF AskInv
<1>5. AskInv'
  BY <1>3, <1>4 DEF AskInv
<1>6. /\ \A i \in 1 .. n : down[i].bus # c /\ down[i].bus \in unanswered
      /\ \A i \in 1 .. k - 1 : reports'[i] # c /\ reports'[i] \in unanswered
      /\ c \in unanswered
  BY <1>1 DEF OnceInv, n, k
<1>7. OnceInv'
  <2>1. ASSUME NEW i \in 1 .. k - 1, NEW j \in 1 .. k - 1, reports'[i] = reports'[j]
        PROVE  i = j
    <3>1. i + 1 = j + 1
      BY <1>1, <2>1 DEF OnceInv, k
    <3> QED
      BY <1>1, <3>1
  <2>2. ASSUME NEW i \in 1 .. n + 1, NEW j \in 1 .. n + 1, down'[i].bus = down'[j].bus
        PROVE  i = j
    BY <1>2, <1>6, <2>2 DEF OnceInv, n
  <2>3. ASSUME NEW i \in 1 .. k - 1, NEW j \in 1 .. n + 1 PROVE reports'[i] # down'[j].bus
    <3>1. \A l \in 1 .. n : reports'[i] # down[l].bus
      BY <1>1 DEF OnceInv, n, k
    <3> QED
      BY <1>2, <1>6, <3>1
  <2>4. \A j \in 1 .. n + 1 : down'[j].bus \in unanswered
    BY <1>2, <1>6
  <2> QED
    BY <1>1, <1>2, <1>3, <1>6, <2>1, <2>2, <2>3, <2>4 DEF OnceInv
<1>8. ASSUME NEW b \in Bus \ disturbed' PROVE Answers(b)'
  <2>1. Answers(b)
    BY <1>3, <1>8 DEF AnswerInv
  <2>2. Coming(b)' => Coming(b)
    <3>1. ASSUME NEW i \in 1 .. n + 1, down'[i].bus = b PROVE Coming(b)
      BY <1>1, <1>2, <3>1 DEF Coming, n, k
    <3>2. ASSUME NEW i \in 1 .. k - 1, reports'[i] = b PROVE Coming(b)
      BY <1>1, <3>2 DEF Coming, k
    <3> QED
      BY <1>1, <1>2, <1>3, <3>1, <3>2 DEF Coming
  <2>3. ASSUME NEW i \in 1 .. n + 1, down'[i].bus = b PROVE down'[i].val = bus[b]
    BY <1>2, <2>1, <2>3 DEF Answers, n
  <2> QED
    BY <1>2, <1>3, <2>1, <2>2, <2>3 DEF Answers
<1>9. \A b : Delivers(b) => Delivers(b)'
  BY <1>3, DeliversQuiet
<1> QED
  BY <1>3, <1>5, <1>7, <1>8, <1>9 DEF AnswerInv, PanelInv

\* A mode's preset disturbs the buses it overrides.
LEMMA LinkPreset ==
  ASSUME TypeOK, LinkInv, ApplyModeAudioPreset
  PROVE  LinkInv'
<1> USE DEF LinkInv
<1>1. /\ UNCHANGED <<boot, reports, linked, up, down, askPending, slider, timer, unanswered>>
      /\ disturbed' = disturbed \cup Overridden
      /\ \A b \in Bus \ Overridden : bus'[b] = bus[b]
  BY DEF ApplyModeAudioPreset, page
<1>2. AskInv' /\ OnceInv'
  BY <1>1, AskQuiet, OnceQuiet
<1>3. \A b \in Bus \ disturbed' : Answers(b)'
  BY <1>1, AnswersQuiet DEF AnswerInv
<1>4. linked' => \A b \in Bus \ (disturbed' \cup unanswered') : Delivers(b)'
  BY <1>1, DeliversQuiet DEF PanelInv
<1> QED
  BY <1>2, <1>3, <1>4 DEF AnswerInv, PanelInv

\* No bus was reported before boot was over.
LEMMA LinkSetup ==
  ASSUME TypeOK, LinkInv, Setup
  PROVE  LinkInv'
<1> USE DEF LinkInv
<1>1. /\ boot # "ready"
      /\ UNCHANGED <<reports, linked, up, down, askPending, slider, timer, unanswered, disturbed>>
  BY DEF Setup, InitBuses, SetHandlers, Boot, page
<1>2. down = <<>> /\ reports = <<>> /\ (linked => unanswered = Bus)
  BY <1>1 DEF AskInv
<1>3. AskInv' /\ OnceInv'
  BY <1>1, <1>2, OnceQuiet DEF AskInv
<1>4. ASSUME NEW b \in Bus \ disturbed' PROVE Answers(b)'
  <2>1. Answers(b)
    BY <1>1, <1>4 DEF AnswerInv
  <2>2. 1 .. Len(down) = {}
    BY <1>2
  <2> QED
    BY <1>1, <2>1, <2>2 DEF Answers, Coming
<1> QED
  BY <1>1, <1>2, <1>3, <1>4 DEF AnswerInv, PanelInv

LEMMA LinkStep == TypeOK /\ LinkInv /\ [Next]_vars => LinkInv'
<1> SUFFICES ASSUME TypeOK, LinkInv, [Next]_vars PROVE LinkInv'
    OBVIOUS
<1>1. CASE UNCHANGED vars
  BY <1>1 DEF vars, LinkInv, AskInv, OnceInv, AnswerInv, PanelInv, Answers, Coming, Delivers
<1>2. CASE User
  BY <1>2, LinkDrag, LinkTyped DEF User
<1>3. CASE Timers \/ SyncBuses \/ ReceiveBusState
  BY <1>3, LinkFires, LinkAsks, LinkReceives DEF Timers
<1>4. CASE Connect \/ Faults
  BY <1>4, LinkConnects, LinkLosesWrite, LinkLosesReport DEF Faults
<1>5. CASE Setup \/ Host \/ ApplyModeAudioPreset
  BY <1>5, LinkSetup, LinkHandlesParam, LinkHandlesAsk, LinkReports, LinkPreset DEF Host
<1> QED
  BY <1>1, <1>2, <1>3, <1>4, <1>5 DEF Next

LEMMA LinkInit == Init => LinkInv
<1> SUFFICES ASSUME Init PROVE LinkInv
    OBVIOUS
<1>1. ~Has(up, Asks) /\ AtMostOne(up, Asks) /\ 1 .. Len(down) = {} /\ 1 .. Len(reports) = {}
  BY Empty DEF Init
<1> QED
  BY <1>1 DEF Init, LinkInv, AskInv, OnceInv, AnswerInv, PanelInv, Answers, Coming

(***************************************************************************)
(* Once a bus was reported and nothing is under way, the panel shows what  *)
(* the bus holds, unless a preset, a number typed over a drag, a failed    *)
(* write or an adjustment during the wait disturbed it: for any buses,     *)
(* values, losses and moments of boot and of reboots (bleControl.h:        *)
(* 341-365, index.html:1341-1356, 2795-2848).                              *)
(***************************************************************************)
THEOREM PanelCorrect == Spec => []PanelAgrees
<1>1. LinkInv => PanelAgrees
  <2> SUFFICES ASSUME LinkInv, NEW b \in Bus, Quiet(b), b \notin unanswered \cup disturbed
               PROVE  slider[b] = bus[b]
    BY DEF PanelAgrees
  <2>1. Delivers(b) /\ timer[b] = None /\ ~Has(up, WritesTo(b))
    BY Empty DEF LinkInv, PanelInv, Quiet
  <2> QED
    BY <2>1 DEF Delivers
<1> QED
  BY <1>1, TypeCorrect, LinkInit, LinkStep, PTL DEF Spec
=============================================================================
