----------------------------- MODULE ModemBoard -----------------------------
(***************************************************************************)
(* The power and reset sequences of modem-board-core.c: power on, off and   *)
(* cycle and the reset pulse, as the GPIO writes and sleeps they consist    *)
(* of.  Any write may fail; the sequence then ends where it is, with the   *)
(* error as its result and the lines as they are.  The next operation       *)
(* starts from those lines.  One shell thread calls them, one at a time.    *)
(*                                                                         *)
(* Time is kept where it matters: railAge and pwrAge are how long the rail  *)
(* and the PWR_ON line have been what they are, in ms of the sequences'     *)
(* own sleeps, up to MaxAge.                                               *)
(***************************************************************************)
EXTENDS Naturals

CONSTANT MaxAge   \* bound: ages are not told apart beyond it

RailSettleMs      == 10
PwrOnPulseMs      == 250
PwrOffPulseMs     == 1500
PowerCycleDelayMs == 500
PostOnDelayMs     == 100

ASSUME AgeAssumption == MaxAge \in Nat /\ MaxAge > PwrOffPulseMs

VARIABLES
  ready,    \* the GPIO and ADC devices are ready: decided at boot
  pc,       \* the next step of the running operation, or "idle"
  op,       \* the running or last operation
  phase,    \* the half of a power cycle it is in, otherwise the operation
  result,   \* what the last operation returned
  rail,     \* MODEM_3V8_EN is on
  pwr,      \* PWR_ON is asserted
  rst,      \* reset is asserted
  railAge, pwrAge,
  stuck     \* history: a release of PWR_ON failed and none succeeded since

vars == <<ready, pc, op, phase, result, rail, pwr, rst, railAge, pwrAge, stuck>>

Ops == {"on", "off", "cycle", "reset"}

TypeOK ==
  /\ ready \in BOOLEAN
  /\ pc \in {"idle", "ready", "rail_on", "assert", "release", "rail_off",
             "rst_assert", "rst_release"}
  /\ op \in Ops
  /\ phase \in {"on", "off", "reset"}
  /\ result \in {"OK", "ENODEV", "EIO"}
  /\ rail \in BOOLEAN /\ pwr \in BOOLEAN /\ rst \in BOOLEAN
  /\ railAge \in 0 .. MaxAge /\ pwrAge \in 0 .. MaxAge
  /\ stuck \in BOOLEAN

(* The board boots with the GPIO hogs' levels: all lines inactive.          *)
Init ==
  /\ ready \in BOOLEAN
  /\ pc = "idle"
  /\ op = "off" /\ phase = "off"
  /\ result = "OK"
  /\ rail = FALSE /\ pwr = FALSE /\ rst = FALSE
  /\ railAge = MaxAge /\ pwrAge = MaxAge
  /\ stuck = FALSE

---------------------------------------------------------------------------
\* A bug to exclude: an age that only grows.
NeverCapped(n) == n

Capped(n) == IF n <= MaxAge THEN n ELSE MaxAge

(* ms pass after the step's write.                                          *)
Sleep(ms) ==
  /\ railAge' = Capped((IF rail' = rail THEN railAge ELSE 0) + ms)
  /\ pwrAge' = Capped((IF pwr' = pwr THEN pwrAge ELSE 0) + ms)

Go(p) == pc' = p /\ UNCHANGED <<op, phase, result>>

Done(r) == pc' = "idle" /\ result' = r /\ UNCHANGED <<op, phase>>

(* An operation is called: power off is the first half of a cycle.          *)
Call(o) ==
  /\ pc = "idle"
  /\ pc' = "ready"
  /\ op' = o
  /\ phase' = IF o = "cycle" THEN "off" ELSE o
  /\ UNCHANGED <<ready, result, rail, pwr, rst, railAge, pwrAge, stuck>>

EnsureReady ==
  /\ pc = "ready"
  /\ IF ~ready THEN Done("ENODEV")
     ELSE IF phase = "on" THEN Go("rail_on")
     ELSE IF phase = "off" THEN Go("assert")
     ELSE Go("rst_assert")
  /\ UNCHANGED <<ready, rail, pwr, rst, railAge, pwrAge, stuck>>

\* A bug to exclude: no time for the rail to settle.
RailOnNoSettle(ok) ==
  /\ pc = "rail_on"
  /\ rail' = (rail \/ ok)
  /\ UNCHANGED <<pwr, rst>>
  /\ Sleep(0)
  /\ IF ok THEN Go("assert") ELSE Done("EIO")
  /\ UNCHANGED <<ready, stuck>>

(* set_rail_en(1) and the settling sleep.                                   *)
RailOn(ok) ==
  /\ pc = "rail_on"
  /\ rail' = (rail \/ ok)
  /\ UNCHANGED <<pwr, rst>>
  /\ Sleep(IF ok THEN RailSettleMs ELSE 0)
  /\ IF ok THEN Go("assert") ELSE Done("EIO")
  /\ UNCHANGED <<ready, stuck>>

(* pwr_on_pulse: assert, hold, release.                                     *)
PulseMs == IF phase = "on" THEN PwrOnPulseMs ELSE PwrOffPulseMs

\* A bug to exclude: both pulses have the length of the power-on pulse.
AssertPwrShort(ok) ==
  /\ pc = "assert"
  /\ pwr' = (pwr \/ ok)
  /\ UNCHANGED <<rail, rst>>
  /\ Sleep(IF ok THEN PwrOnPulseMs ELSE 0)
  /\ IF ok THEN Go("release") ELSE Done("EIO")
  /\ UNCHANGED <<ready, stuck>>

AssertPwr(ok) ==
  /\ pc = "assert"
  /\ pwr' = (pwr \/ ok)
  /\ UNCHANGED <<rail, rst>>
  /\ Sleep(IF ok THEN PulseMs ELSE 0)
  /\ IF ok THEN Go("release") ELSE Done("EIO")
  /\ UNCHANGED <<ready, stuck>>

\* A bug to exclude: the result of the release is not looked at.
ReleasePwrUnchecked(ok) ==
  /\ pc = "release"
  /\ pwr' = (pwr /\ ~ok)
  /\ stuck' = ~ok
  /\ UNCHANGED <<rail, rst>>
  /\ Sleep(IF phase = "on" THEN PostOnDelayMs ELSE 0)
  /\ IF phase = "on" THEN Done("OK") ELSE Go("rail_off")
  /\ UNCHANGED ready

ReleasePwr(ok) ==
  /\ pc = "release"
  /\ pwr' = (pwr /\ ~ok)
  /\ stuck' = ~ok
  /\ UNCHANGED <<rail, rst>>
  /\ Sleep(IF ok /\ phase = "on" THEN PostOnDelayMs ELSE 0)
  /\ IF ~ok THEN Done("EIO") ELSE IF phase = "on" THEN Done("OK") ELSE Go("rail_off")
  /\ UNCHANGED ready

\* A bug to exclude: the cycle goes on without its delay.
RailOffNoDelay(ok) ==
  /\ pc = "rail_off"
  /\ rail' = (rail /\ ~ok)
  /\ UNCHANGED <<pwr, rst>>
  /\ Sleep(0)
  /\ IF ok /\ op = "cycle"
     THEN pc' = "ready" /\ phase' = "on" /\ UNCHANGED <<op, result>>
     ELSE Done(IF ok THEN "OK" ELSE "EIO")
  /\ UNCHANGED <<ready, stuck>>

(* set_rail_en(0), the end of power off; a cycle waits and powers on.       *)
RailOff(ok) ==
  /\ pc = "rail_off"
  /\ rail' = (rail /\ ~ok)
  /\ UNCHANGED <<pwr, rst>>
  /\ Sleep(IF ok /\ op = "cycle" THEN PowerCycleDelayMs ELSE 0)
  /\ IF ok /\ op = "cycle"
     THEN pc' = "ready" /\ phase' = "on" /\ UNCHANGED <<op, result>>
     ELSE Done(IF ok THEN "OK" ELSE "EIO")
  /\ UNCHANGED <<ready, stuck>>

(* modem_board_reset_pulse_core; its 200 ms hold touches no power line.     *)
AssertRst(ok) ==
  /\ pc = "rst_assert"
  /\ rst' = (rst \/ ok)
  /\ IF ok THEN Go("rst_release") ELSE Done("EIO")
  /\ UNCHANGED <<ready, rail, pwr, railAge, pwrAge, stuck>>

ReleaseRst(ok) ==
  /\ pc = "rst_release"
  /\ rst' = (rst /\ ~ok)
  /\ Done(IF ok THEN "OK" ELSE "EIO")
  /\ UNCHANGED <<ready, rail, pwr, railAge, pwrAge, stuck>>

Next ==
  \/ \E o \in Ops : Call(o)
  \/ EnsureReady
  \/ \E ok \in BOOLEAN :
       \/ RailOn(ok) \/ AssertPwr(ok) \/ ReleasePwr(ok) \/ RailOff(ok)
       \/ AssertRst(ok) \/ ReleaseRst(ok)

Spec == Init /\ [][Next]_vars

---------------------------------------------------------------------------
(* Properties.                                                              *)

(* OK means done, whatever earlier operations left behind when they failed:  *)
(* a power operation that returned 0 left the rail as asked and PWR_ON      *)
(* released, a reset pulse that did left reset released.                    *)
OkMeansDone ==
  pc = "idle" /\ result = "OK" =>
    IF op = "reset" THEN ~rst ELSE (rail <=> op # "off") /\ ~pwr

(* The modem tells on from off by the length of the pulse, so each pulse     *)
(* lasts what the operation asked for, unless the line was stuck before.    *)
PulseWidth == [][pwr /\ ~pwr' /\ ~stuck => pwrAge = PulseMs]_vars

(* A power-on pulse comes only after the rail is up and has settled.        *)
RailBeforePulse ==
  pc = "assert" /\ phase = "on" => rail /\ railAge >= RailSettleMs

(* In a power cycle the rail is really off, long enough, before it returns.  *)
CycleDischarges ==
  [][op = "cycle" /\ ~rail /\ rail' => railAge >= PowerCycleDelayMs]_vars

(* These with the steps in between: the invariant behind them.               *)
BoardInv ==
  /\ op = "cycle" \/ phase = op
  /\ phase = "reset" <=> op = "reset"
  /\ pc = "rail_on" => phase = "on"
  /\ pc \in {"assert", "release"} => phase # "reset"
  /\ pc = "rail_off" => phase = "off" /\ ~pwr
  /\ pc \in {"rst_assert", "rst_release"} => op = "reset"
  /\ pwr <=> stuck \/ pc = "release"
  /\ pc = "release" /\ ~stuck => pwrAge = PulseMs
  /\ phase = "on" /\ pc \in {"assert", "release"} => rail
  /\ phase = "on" /\ pc = "assert" => railAge >= RailSettleMs
  /\ op = "cycle" /\ phase = "on" /\ pc \in {"ready", "rail_on"} =>
       ~rail /\ railAge >= PowerCycleDelayMs
  /\ OkMeansDone
=============================================================================
