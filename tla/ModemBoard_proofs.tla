-------------------------- MODULE ModemBoard_proofs --------------------------
(***************************************************************************)
(* What a result of the board operations means, for any sequence of         *)
(* operations and any failing writes.                                      *)
(***************************************************************************)
EXTENDS ModemBoard, TLAPS

LEMMA CappedType == ASSUME NEW n \in Nat PROVE Capped(n) \in 0 .. MaxAge
BY AgeAssumption DEF Capped

LEMMA SleepType ==
  ASSUME TypeOK, NEW ms \in Nat, Sleep(ms)
  PROVE  railAge' \in 0 .. MaxAge /\ pwrAge' \in 0 .. MaxAge
<1>1. railAge \in Nat /\ pwrAge \in Nat
  BY AgeAssumption DEF TypeOK
<1>2. /\ (IF rail' = rail THEN railAge ELSE 0) + ms \in Nat
      /\ (IF pwr' = pwr THEN pwrAge ELSE 0) + ms \in Nat
  BY <1>1
<1>. QED  BY <1>2, CappedType DEF Sleep

LEMMA TypeStep ==
  ASSUME TypeOK, [Next]_vars
  PROVE  TypeOK'
<1>. USE DEF Go, Done
<1>1. CASE \E o \in Ops : Call(o)
  BY <1>1 DEF TypeOK, Call, Ops
<1>2. CASE EnsureReady
  BY <1>2 DEF TypeOK, EnsureReady
<1>3. ASSUME NEW ok \in BOOLEAN, RailOn(ok) PROVE TypeOK'
  <2>1. railAge' \in 0 .. MaxAge /\ pwrAge' \in 0 .. MaxAge
    BY <1>3, SleepType DEF RailOn, RailSettleMs
  <2>. QED  BY <1>3, <2>1 DEF RailOn, TypeOK
<1>4. ASSUME NEW ok \in BOOLEAN, AssertPwr(ok) PROVE TypeOK'
  <2>1. railAge' \in 0 .. MaxAge /\ pwrAge' \in 0 .. MaxAge
    BY <1>4, SleepType DEF AssertPwr, PulseMs, PwrOnPulseMs, PwrOffPulseMs
  <2>. QED  BY <1>4, <2>1 DEF AssertPwr, TypeOK
<1>5. ASSUME NEW ok \in BOOLEAN, ReleasePwr(ok) PROVE TypeOK'
  <2>1. railAge' \in 0 .. MaxAge /\ pwrAge' \in 0 .. MaxAge
    BY <1>5, SleepType DEF ReleasePwr, PostOnDelayMs
  <2>. QED  BY <1>5, <2>1 DEF ReleasePwr, TypeOK
<1>6. ASSUME NEW ok \in BOOLEAN, RailOff(ok) PROVE TypeOK'
  <2>1. railAge' \in 0 .. MaxAge /\ pwrAge' \in 0 .. MaxAge
    BY <1>6, SleepType DEF RailOff, PowerCycleDelayMs
  <2>. QED  BY <1>6, <2>1 DEF RailOff, TypeOK
<1>7. ASSUME NEW ok \in BOOLEAN, AssertRst(ok) \/ ReleaseRst(ok) PROVE TypeOK'
  BY <1>7 DEF AssertRst, ReleaseRst, TypeOK
<1>8. CASE UNCHANGED vars
  BY <1>8 DEF vars, TypeOK
<1>. QED  BY <1>1, <1>2, <1>3, <1>4, <1>5, <1>6, <1>7, <1>8 DEF Next

(* Every variable keeps its type, ages their bound.                         *)
THEOREM TypeCorrect == Spec => []TypeOK
<1>1. Init => TypeOK
  <2>1. MaxAge \in 0 .. MaxAge
    BY AgeAssumption
  <2>. QED  BY <2>1 DEF Init, TypeOK, Ops
<1>. QED  BY <1>1, TypeStep, PTL DEF Spec

---------------------------------------------------------------------------
(* The rail and a line keep their age over a write that leaves them as they  *)
(* are, and start a new one at a change; sleeping only adds to it.          *)
LEMMA SleepAges ==
  ASSUME TypeOK, NEW ms \in 0 .. MaxAge, Sleep(ms)
  PROVE  /\ railAge' >= ms /\ pwrAge' >= ms
         /\ pwr' # pwr => pwrAge' = ms
         /\ rail' = rail => railAge' >= railAge
<1>1. railAge \in 0 .. MaxAge /\ pwrAge \in 0 .. MaxAge
  BY DEF TypeOK
<1>. QED  BY <1>1, AgeAssumption DEF Sleep, Capped

LEMMA BoardStep ==
  ASSUME TypeOK, BoardInv, [Next]_vars
  PROVE  BoardInv'
<1>. USE DEF BoardInv, OkMeansDone, Go, Done
<1>1. CASE \E o \in Ops : Call(o)
  BY <1>1 DEF Call, Ops, PulseMs
<1>2. CASE EnsureReady
  BY <1>2 DEF EnsureReady, TypeOK, PulseMs
<1>3. ASSUME NEW ok \in BOOLEAN, RailOn(ok) PROVE BoardInv'
  <2>1. ASSUME ok PROVE railAge' >= RailSettleMs
    <3>1. RailSettleMs \in 0 .. MaxAge
      BY AgeAssumption DEF RailSettleMs, PwrOffPulseMs
    <3>2. Sleep(RailSettleMs)
      BY <1>3, <2>1 DEF RailOn
    <3>. QED  BY <3>1, <3>2, SleepAges
  <2>. QED  BY <1>3, <2>1 DEF RailOn, TypeOK
<1>4. ASSUME NEW ok \in BOOLEAN, AssertPwr(ok) PROVE BoardInv'
  <2>1. ASSUME ok, ~pwr PROVE pwrAge' = PulseMs
    <3>1. PulseMs \in 0 .. MaxAge
      BY AgeAssumption DEF PulseMs, PwrOnPulseMs, PwrOffPulseMs
    <3>2. Sleep(PulseMs) /\ pwr' # pwr
      BY <1>4, <2>1 DEF AssertPwr, TypeOK
    <3>. QED  BY <3>1, <3>2, SleepAges
  <2>2. PulseMs' = PulseMs
    BY <1>4 DEF AssertPwr, PulseMs
  <2>. QED  BY <1>4, <2>1, <2>2 DEF AssertPwr, TypeOK
<1>5. ASSUME NEW ok \in BOOLEAN, ReleasePwr(ok) PROVE BoardInv'
  BY <1>5 DEF ReleasePwr, TypeOK, Ops
<1>6. ASSUME NEW ok \in BOOLEAN, RailOff(ok) PROVE BoardInv'
  <2>1. ASSUME ok, op = "cycle" PROVE railAge' >= PowerCycleDelayMs
    <3>1. PowerCycleDelayMs \in 0 .. MaxAge
      BY AgeAssumption DEF PowerCycleDelayMs, PwrOffPulseMs
    <3>2. Sleep(PowerCycleDelayMs)
      BY <1>6, <2>1 DEF RailOff
    <3>. QED  BY <3>1, <3>2, SleepAges
  <2>. QED  BY <1>6, <2>1 DEF RailOff, TypeOK, Ops
<1>7. ASSUME NEW ok \in BOOLEAN, AssertRst(ok) \/ ReleaseRst(ok) PROVE BoardInv'
  <2>1. op = "reset" /\ phase = "reset" /\ UNCHANGED <<op, phase, rail, pwr, stuck>>
    BY <1>7 DEF AssertRst, ReleaseRst
  <2>2. pc' \in {"idle", "rst_release"} /\ pc \in {"rst_assert", "rst_release"}
    BY <1>7 DEF AssertRst, ReleaseRst
  <2>3. pc' = "idle" /\ result' = "OK" => ~rst'
    <3>1. CASE AssertRst(ok)
      BY <3>1 DEF AssertRst
    <3>2. CASE ReleaseRst(ok)
      <4>1. ok => ~rst'
        BY <3>2, Zenon DEF ReleaseRst
      <4>2. ~ok => result' = "EIO"
        BY <3>2 DEF ReleaseRst
      <4>. QED  BY <4>1, <4>2
    <3>. QED  BY <1>7, <3>1, <3>2
  <2>. QED  BY <2>1, <2>2, <2>3
<1>8. CASE UNCHANGED vars
  BY <1>8 DEF vars, PulseMs
<1>. QED  BY <1>1, <1>2, <1>3, <1>4, <1>5, <1>6, <1>7, <1>8 DEF Next

LEMMA BoardCorrect == Spec => []BoardInv
<1>1. Init => BoardInv
  BY DEF Init, BoardInv, OkMeansDone
<1>. QED  BY <1>1, BoardStep, TypeCorrect, PTL DEF Spec

(* modem_board_power_on, _off and _cycle return 0 only with the rail as asked *)
(* and PWR_ON released, modem_board_reset_pulse only with reset released,    *)
(* whatever failed in earlier calls.                                       *)
THEOREM OkIsDone == Spec => []OkMeansDone
<1>1. BoardInv => OkMeansDone
  BY DEF BoardInv
<1>. QED  BY <1>1, BoardCorrect, PTL

(* The modem sees pulses of the requested length only, as long as the line   *)
(* was not stuck.                                                          *)
THEOREM PulsesAreExact == Spec => PulseWidth
<1>1. TypeOK /\ BoardInv /\ [Next]_vars
        => [pwr /\ ~pwr' /\ ~stuck => pwrAge = PulseMs]_vars
  BY DEF BoardInv, TypeOK, Next, Call, EnsureReady, RailOn, AssertPwr, ReleasePwr,
         RailOff, AssertRst, ReleaseRst
<1>. QED  BY <1>1, TypeCorrect, BoardCorrect, PTL DEF Spec, PulseWidth

(* A power-on pulse finds the rail up and settled.                          *)
THEOREM PulseAfterRail == Spec => []RailBeforePulse
<1>1. BoardInv => RailBeforePulse
  BY DEF BoardInv, RailBeforePulse
<1>. QED  BY <1>1, BoardCorrect, PTL

(* A power cycle leaves the rail off for its delay.                         *)
THEOREM CycleIsLongEnough == Spec => CycleDischarges
<1>1. TypeOK /\ BoardInv /\ [Next]_vars
        => [op = "cycle" /\ ~rail /\ rail' => railAge >= PowerCycleDelayMs]_vars
  BY DEF BoardInv, TypeOK, Next, Call, EnsureReady, RailOn, AssertPwr, ReleasePwr,
         RailOff, AssertRst, ReleaseRst
<1>. QED  BY <1>1, TypeCorrect, BoardCorrect, PTL DEF Spec, CycleDischarges
=============================================================================
