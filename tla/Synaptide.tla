----------------------------- MODULE Synaptide -----------------------------
(***************************************************************************)
(* What keeps the synaptide automaton alive (synaptide_detail.hpp): an     *)
(* energy monitor that samples the field, averages its last samples and    *)
(* injects energy when the average is low, and the reset button.  The      *)
(* field itself is floating point; a sample is any value of Energy.        *)
(*                                                                         *)
(* Time is the 32-bit micros(), modulo Wrap and in units of the monitor's  *)
(* EVERY_N_MILLISECONDS(100).  It sits in the loop of simulation steps, so *)
(* that a slow cSynSpeed or a slow frame makes the samples rarer.          *)
(***************************************************************************)
EXTENDS Naturals, Sequences

CONSTANTS
  Wrap,          \* 2^32 microseconds
  MaxGap,        \* the longest time between two samples, or of a reset
  HistorySize,   \* 20
  Grace,         \* 3 s
  Cooldown,      \* 4 s
  Energy,        \* the samples
  Fresh,         \* what a new history is filled with, 0.5
  LowEnergy      \* 0.18

ASSUME MonitorAssumption ==
  /\ Wrap \in Nat /\ HistorySize \in Nat \ {0} /\ MaxGap \in Nat \ {0}
  /\ Grace \in Nat \ {0} /\ Cooldown \in Nat
  /\ Grace + Cooldown + (HistorySize + 2) * MaxGap < Wrap
  /\ Energy \subseteq Nat /\ Fresh \in Nat /\ LowEnergy \in Nat

VARIABLES
  now,                         \* fl::micros()
  pc,                          \* "away", "frame" or "reset"
  requested,                   \* synaptideResetRequested, stored by the BLE task
  energyHistory, historyIndex, historyFilled,
  startupTime, lastBoostTime,
  boosted,                     \* energyBoostFactor is 1.2
  \* History
  samples,                     \* the last samples since the monitor was made
  darkFor,                     \* time since a sample was bright, or a boost or a reset came
  sinceBoost                   \* time since the monitor's last boost, up to Cooldown + 1

monitor == <<energyHistory, historyIndex, historyFilled, startupTime, lastBoostTime, boosted>>
history == <<samples, darkFor, sinceBoost>>
vars    == <<now, pc, requested, monitor, history>>

Later(d) == (now + d) % Wrap
Since(t, d) == (Later(d) + Wrap - t) % Wrap
Ages(d) == IF sinceBoost + d > Cooldown THEN Cooldown + 1 ELSE sinceBoost + d

Init ==
  /\ now \in 0 .. Wrap - 1
  /\ pc = "away"
  /\ requested = FALSE
  /\ energyHistory = [i \in 0 .. HistorySize - 1 |-> Fresh]
  /\ historyIndex = 0 /\ historyFilled = FALSE
  /\ startupTime = 0 /\ lastBoostTime = 0
  /\ boosted = FALSE
  /\ samples = <<>> /\ darkFor = 0 /\ sinceBoost = Cooldown + 1

-----------------------------------------------------------------------------
\* Button 160, at any time and whatever program is shown.
PressReset ==
  /\ requested' = TRUE
  /\ UNCHANGED <<now, pc, monitor, history>>

\* initSynaptide(): a new monitor, then the seeds of the field, which take time.
InitSynaptide ==
  /\ energyHistory' = [i \in 0 .. HistorySize - 1 |-> Fresh]
  /\ historyIndex' = 0 /\ historyFilled' = FALSE
  /\ startupTime' = now /\ lastBoostTime' = 0
  /\ boosted' = FALSE
  /\ \E d \in 0 .. MaxGap : now' = Later(d) /\ darkFor' = d
  /\ samples' = <<>> /\ sinceBoost' = Cooldown + 1

\* The program is selected.
Enter ==
  /\ pc = "away" /\ pc' = "frame"
  /\ InitSynaptide
  /\ UNCHANGED requested

\* Another program is shown, for as long as it may be.
Leave ==
  /\ pc = "frame" /\ pc' = "away"
  /\ now' \in 0 .. Wrap - 1
  /\ UNCHANGED <<requested, monitor, history>>

\* runSynaptide() clears the request before it acts on it.
StartReset ==
  /\ pc = "frame" /\ requested
  /\ pc' = "reset"
  /\ requested' = FALSE
  /\ UNCHANGED <<now, monitor, history>>

FinishReset ==
  /\ pc = "reset" /\ pc' = "frame"
  /\ InitSynaptide
  /\ UNCHANGED requested

-----------------------------------------------------------------------------
(* EnergyMonitor.                                                          *)

\* f[from] + ... + f[from + count - 1], added up from the left.
Total(f, from, count) ==
  LET sum[i \in 0 .. count] == IF i = 0 THEN 0 ELSE sum[i - 1] + f[from + i - 1]
  IN  sum[count]

\* Mutant: historyFilled is not looked at.
AverageIsLowUnfilled(h, index, filled) ==
  index > 0 /\ Total(h, 0, index) < LowEnergy * index
\* getAverageEnergy() < 0.18f, over the entries filled so far.
AverageIsLow(h, index, filled) ==
  LET count == IF filled THEN HistorySize ELSE index
  IN  count > 0 /\ Total(h, 0, count) < LowEnergy * count

\* Mutant: the time of the last boost is compared, not the time since.
CooldownExpiredAbsolute(d) == Later(d) > lastBoostTime + Cooldown
\* Mutant: the grace period's time is compared with the cooldown.
CooldownExpiredOnce(d) == Since(startupTime, d) > Cooldown
CooldownExpired(d) == Since(lastBoostTime, d) > Cooldown

\* needsEnergyBoost(), d after the last sample and with the new one entered.
NeedsEnergyBoost(d) ==
  /\ Since(startupTime, d) >= Grace
  /\ AverageIsLow(energyHistory', historyIndex', historyFilled')
  /\ CooldownExpired(d)

\* Mutant: the index runs one past the array before it wraps.
NextIndexLate == (historyIndex + 1) % (HistorySize + 1)
NextIndex == (historyIndex + 1) % HistorySize

UpdateHistory(e) ==
  /\ energyHistory' = [energyHistory EXCEPT ![historyIndex] = e]
  /\ historyIndex' = NextIndex
  /\ historyFilled' = (historyFilled \/ historyIndex' = 0)

Latest(s) == IF Len(s) > HistorySize THEN Tail(s) ELSE s

Sample(e, d) ==
  /\ pc = "frame"
  /\ now' = Later(d)
  /\ UpdateHistory(e)
  /\ samples' = Latest(Append(samples, e))
  /\ UNCHANGED <<pc, requested, startupTime>>

Boost(e, d) ==
  /\ Sample(e, d)
  /\ NeedsEnergyBoost(d)
  /\ lastBoostTime' = now'
  /\ boosted' = TRUE
  /\ darkFor' = 0 /\ sinceBoost' = 0

NoBoost(e, d) ==
  /\ Sample(e, d)
  /\ ~NeedsEnergyBoost(d)
  /\ boosted' = FALSE
  /\ darkFor' = IF e < LowEnergy THEN darkFor + d ELSE 0
  /\ sinceBoost' = Ages(d)
  /\ UNCHANGED lastBoostTime

Boosts  == \E e \in Energy, d \in 1 .. MaxGap : Boost(e, d)
Monitor == Boosts \/ \E e \in Energy, d \in 1 .. MaxGap : NoBoost(e, d)

Next == PressReset \/ Enter \/ Leave \/ StartReset \/ FinishReset \/ Monitor

Spec == Init /\ [][Next]_vars

-----------------------------------------------------------------------------
TypeOK ==
  /\ now \in 0 .. Wrap - 1 /\ pc \in {"away", "frame", "reset"}
  /\ requested \in BOOLEAN
  /\ energyHistory \in [0 .. HistorySize - 1 -> Energy \cup {Fresh}]
  /\ historyIndex \in 0 .. HistorySize - 1 /\ historyFilled \in BOOLEAN
  /\ startupTime \in 0 .. Wrap - 1 /\ lastBoostTime \in 0 .. Wrap - 1
  /\ boosted \in BOOLEAN
  /\ samples \in Seq(Energy) /\ Len(samples) <= HistorySize
  /\ darkFor \in Nat /\ sinceBoost \in 0 .. Cooldown + 1

(***************************************************************************)
(* A field that stays dark is given energy (synaptide_detail.hpp:143-224,  *)
(* "prevents system from decaying into zero-energy (black) state"): at the *)
(* latest once its samples have filled the history, and a grace period and *)
(* a cooldown have passed.  Both may count again when micros() wraps, as   *)
(* the time since startup, and since the boost that there was or was not   *)
(* at 0, passes zero again; and there may be no sample between the end of  *)
(* the one and the beginning of the other.                                 *)
(***************************************************************************)
DarkFieldIsRevived ==
  pc = "frame" => darkFor < (HistorySize + 1) * MaxGap + Grace + Cooldown

(***************************************************************************)
(* A field that lives is left alone: a boost means that the last samples   *)
(* of this monitor, 20 or as many as there are, average below the bound,   *)
(* never what an older monitor saw or the 0.5 the array starts from        *)
(* (176-208).                                                              *)
(***************************************************************************)
AverageBelow(s) == Total(s, 1, Len(s)) < LowEnergy * Len(s)
LivingFieldIsLeftAlone == [][Boosts => AverageBelow(samples')]_vars

(***************************************************************************)
(* The boosts of one monitor are more than the cooldown apart, through the *)
(* wrap of micros() too (202-207).                                         *)
(***************************************************************************)
BoostsKeepTheirDistance ==
  [][Boosts => sinceBoost + ((now' + Wrap - now) % Wrap) > Cooldown]_vars
=============================================================================
