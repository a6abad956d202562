------------------------ MODULE ModemCommands_proofs ------------------------
(***************************************************************************)
(* Proofs about ModemCommands, for typed texts of any length, any set of    *)
(* ADC samples and any configuration of senders.                           *)
(***************************************************************************)
EXTENDS ModemCommands, SequenceTheorems, WellFoundedInduction, TLAPS

LEMMA OneOrMore == \A n \in Nat \ {0} : (n = 1 \/ n > 1) /\ ~(n = 1 /\ n > 1)
OBVIOUS

(* The two parsers find the option in the same arguments.                   *)
LEMMA SameOption ==
  ASSUME NEW args, Len(args) \in Nat \ {0}
  PROVE  Parse(args).debug <=> DebugRequested(args)
<1>. DEFINE raw == TrimBlanks(args[1])
<1>1. CASE args[1] = <<"debug">>
  <2>1. Parse(args).debug = TRUE
    BY <1>1, Zenon DEF Parse
  <2>2. DebugRequested(args)
    BY <1>1, Zenon DEF DebugRequested
  <2>. QED  BY <2>1, <2>2
<1>2. CASE args[1] # <<"debug">> /\ Len(args) > 1
  <2>1. Parse(args).debug = FALSE
    BY <1>2, Zenon DEF Parse
  <2>2. Len(args) # 1
    BY <1>2, OneOrMore, Zenon
  <2>3. ~DebugRequested(args)
    BY <1>2, <2>2, Zenon DEF DebugRequested
  <2>. QED  BY <2>1, <2>3
<1>3. CASE args[1] # <<"debug">> /\ Len(args) = 1
  <2>1. ~(Len(args) > 1)
    BY <1>3, OneOrMore, Zenon
  <2>2. DebugRequested(args) <=> StartsWithOption(raw)
    BY <1>3, Zenon DEF DebugRequested
  <2>3. CASE StartsWithOption(raw)
    <3>1. Parse(args).debug = TRUE
      BY <1>3, <2>1, <2>3, Zenon DEF Parse
    <3>. QED  BY <2>2, <2>3, <3>1
  <2>4. CASE ~StartsWithOption(raw)
    <3>1. Parse(args).debug = FALSE
      BY <1>3, <2>1, <2>4, Zenon DEF Parse
    <3>. QED  BY <2>2, <2>4, <3>1
  <2>. QED  BY <2>3, <2>4
<1>. QED  BY <1>1, <1>2, <1>3, OneOrMore, Zenon

LEMMA OneArgument ==
  ASSUME NEW args, NEW t, args = <<t>>
  PROVE  /\ Len(args) = 1 /\ ~(Len(args) > 1)
         /\ args[1] = t /\ args = <<args[1]>>
OBVIOUS

LEMMA TwoArguments ==
  ASSUME NEW args, NEW t, NEW u, args = <<t, u>>
  PROVE  Len(args) = 2 /\ args = <<args[1], args[2]>>
OBVIOUS

(* The shell hands over one piece or two.                                   *)
LEMMA ArgumentsShape ==
  ASSUME NEW args \in Arguments
  PROVE  \/ Len(args) = 1 /\ args = <<args[1]>> /\ args[1] \in Texts
         \/ Len(args) = 2 /\ args = <<args[1], args[2]>>
<1>1. (\E t \in Texts : args = <<t>>) \/ args \in Texts \X Rests
  BY Zenon DEF Arguments
<1>2. CASE \E t \in Texts : args = <<t>>
  BY <1>2, OneArgument, Zenon
<1>3. CASE args \in Texts \X Rests
  <2>1. \E t \in Texts, u \in Rests : args = <<t, u>>
    BY <1>3
  <2>. QED  BY <2>1, TwoArguments, Zenon
<1>. QED  BY <1>1, <1>2, <1>3

LEMMA ArgumentsLength ==
  ASSUME NEW args \in Arguments
  PROVE  Len(args) \in Nat \ {0}
<1>1. Len(args) = 1 \/ Len(args) = 2
  BY ArgumentsShape, Zenon
<1>. QED  BY <1>1

LEMMA SayText ==
  ASSUME NEW x
  PROVE  Say(x).text = x
BY DEF Say

LEMMA SayStateFields ==
  ASSUME NEW mv
  PROVE  /\ SayState(mv).text = IF mv >= Threshold THEN "state_on" ELSE "state_off"
         /\ SayState(mv).vgpio = IF mv < 0 THEN "err" ELSE "mv"
BY DEF SayState, Say

LEMMA ReportText ==
  ASSUME NEW x, NEW d, NEW r
  PROVE  [Say(x) EXCEPT !.debug = d, !.reason = r].text = x
BY DEF Say

---------------------------------------------------------------------------
(* The inductive invariant: the channel's flag tells the truth, a running    *)
(* `at` has said nothing yet and its parsers agree, and the last status is  *)
(* what was measured.                                                      *)

InCommand == {"at_status", "at_send", "at_report"}

BoardInv ==
  /\ ready \in BOOLEAN /\ rail \in BOOLEAN
  /\ vgpioConfigured \in BOOLEAN
  /\ adcSetUp = vgpioConfigured

AtInv ==
  /\ pc \in {"prompt"} \cup InCommand
  /\ pc \in InCommand => report.text = "nothing" /\ (logging <=> parsed.debug)
  /\ pc = "at_send" => rail

CommandsInv == BoardInv /\ AtInv /\ StateIsTrue

(* A reading: the board stays sound, a voltage is one that was measured.     *)
LEMMA Reading ==
  ASSUME BoardInv,
         NEW gpioOK \in BOOLEAN, NEW setupOK \in BOOLEAN, NEW readOK \in BOOLEAN,
         NEW sample \in Samples, ReadStatus(gpioOK, setupOK, readOK, sample)
  PROVE  /\ BoardInv'
         /\ UNCHANGED rail
         /\ st'.rail = "on" => rail
         /\ st'.mv = AdcError \/ (adcSetUp' /\ st'.mv = MilliVolts(st'.sample)
                                            /\ st'.sample = sample)
<1>1. BoardInv'
  BY DEF BoardInv, ReadStatus, FlagAfter
<1>2. UNCHANGED rail /\ (st'.rail = "on" => rail)
  BY DEF ReadStatus
<1>3. CASE (vgpioConfigured \/ setupOK) /\ readOK
  <2>1. st'.mv = MilliVolts(sample) /\ st'.sample = sample
    BY <1>3 DEF ReadStatus
  <2>2. adcSetUp'
    BY <1>3 DEF ReadStatus, BoardInv
  <2>. QED  BY <1>1, <1>2, <2>1, <2>2
<1>4. CASE ~((vgpioConfigured \/ setupOK) /\ readOK)
  BY <1>1, <1>2, <1>4 DEF ReadStatus
<1>. QED  BY <1>3, <1>4

LEMMA StatusStep ==
  ASSUME CommandsInv,
         NEW gpioOK \in BOOLEAN, NEW setupOK \in BOOLEAN, NEW readOK \in BOOLEAN,
         NEW sample \in Samples, CmdStatus(gpioOK, setupOK, readOK, sample)
  PROVE  CommandsInv'
<1>. USE DEF CommandsInv
<1>1. pc' = "prompt"
  BY DEF CmdStatus, Finish
<1>2. AtInv'
  BY <1>1 DEF AtInv, InCommand
<1>3. CASE ready
  <2>1. ReadStatus(gpioOK, setupOK, readOK, sample)
    BY <1>3 DEF CmdStatus
  <2>2. report' = SayState(st'.mv)
    BY <1>3 DEF CmdStatus, Finish
  <2>3. BoardInv'
    BY <2>1, Reading
  <2>4. CASE st'.mv = AdcError
    <3>1. ~(AdcError >= Threshold) /\ AdcError < 0
      BY DEF AdcError, Threshold
    <3>2. report'.text = "state_off" /\ report'.vgpio = "err"
      BY <2>2, <2>4, <3>1, SayStateFields
    <3>3. StateIsTrue'
      BY <3>2 DEF StateIsTrue
    <3>. QED  BY <1>2, <2>3, <3>3
  <2>5. CASE adcSetUp' /\ st'.mv = MilliVolts(st'.sample) /\ st'.sample = sample
    <3>1. sample \in 0 .. 4095
      BY CommandsAssumption
    <3>2. report'.text = IF MilliVolts(sample) >= Threshold THEN "state_on" ELSE "state_off"
      BY <2>2, <2>5, SayStateFields
    <3>3. /\ report'.text = "state_on" => sample * 3300 >= Threshold * 4096
          /\ report'.text = "state_off" => ~(sample * 3300 >= Threshold * 4096)
      <4>1. CASE MilliVolts(sample) >= Threshold
        <5>1. report'.text = "state_on"
          BY <3>2, <4>1
        <5>2. sample * 3300 >= Threshold * 4096
          BY <3>1, <4>1 DEF Threshold, MilliVolts
        <5>. QED  BY <5>1, <5>2
      <4>2. CASE ~(MilliVolts(sample) >= Threshold)
        <5>1. report'.text = "state_off"
          BY <3>2, <4>2
        <5>2. ~(sample * 3300 >= Threshold * 4096)
          BY <3>1, <4>2 DEF Threshold, MilliVolts
        <5>. QED  BY <5>1, <5>2
      <4>. QED  BY <4>1, <4>2
    <3>4. ~(sample * 3300 >= Threshold * 4096) => sample * 3300 < Threshold * 4096
      BY <3>1 DEF Threshold
    <3>5. StateIsTrue'
      BY <2>5, <3>3, <3>4 DEF StateIsTrue
    <3>. QED  BY <1>2, <2>3, <3>5
  <2>. QED  BY <1>2, <2>1, <2>3, <2>4, <2>5, Reading
<1>4. CASE ~ready
  <2>1. report'.text = "status_failed"
    <3>1. report' = Say("status_failed")
      BY <1>4 DEF CmdStatus, Finish
    <3>. QED  BY <3>1, SayText
  <2>2. BoardInv'
    BY <1>4 DEF CmdStatus, boardVars, BoardInv
  <2>. QED  BY <1>2, <2>1, <2>2 DEF StateIsTrue
<1>. QED  BY <1>3, <1>4 DEF BoardInv

LEMMA ResetStep ==
  ASSUME CommandsInv, NEW ok \in BOOLEAN, CmdReset(ok)
  PROVE  CommandsInv'
BY DEF CommandsInv, CmdReset, Finish, Say, boardVars, BoardInv, AtInv, InCommand,
       StateIsTrue

LEMMA PowerStep ==
  ASSUME CommandsInv, NEW o \in {"on", "off", "cycle"}, NEW ok \in BOOLEAN, CmdPower(o, ok)
  PROVE  CommandsInv'
<1>1. pc' = "prompt" /\ report'.text \in {"OK", "power_failed"}
  BY DEF CmdPower, Finish, Say
<1>2. rail' \in BOOLEAN
  BY DEF CmdPower, MayLeave, CommandsInv, BoardInv
<1>3. BoardInv'
  BY <1>2 DEF CmdPower, CommandsInv, BoardInv
<1>. QED  BY <1>1, <1>3 DEF CommandsInv, AtInv, InCommand, StateIsTrue

LEMMA AtStep ==
  ASSUME CommandsInv, NEW args \in Arguments, CmdAt(args)
  PROVE  CommandsInv'
<1>1. BoardInv' /\ UNCHANGED rail
  BY DEF CommandsInv, CmdAt, boardVars, BoardInv
<1>2. CASE Parse(args).command = NoCommand
  BY <1>1, <1>2 DEF CommandsInv, CmdAt, Finish, Say, AtInv, InCommand, StateIsTrue
<1>3. CASE Parse(args).command # NoCommand
  <2>1. /\ pc' = "at_status" /\ report'.text = "nothing"
        /\ parsed' = Parse(args) /\ logging' = DebugRequested(args)
    BY <1>3 DEF CmdAt, Say
  <2>2. logging' <=> parsed'.debug
    BY <2>1, SameOption, ArgumentsLength
  <2>. QED  BY <1>1, <2>1, <2>2 DEF CommandsInv, AtInv, InCommand, StateIsTrue
<1>. QED  BY <1>2, <1>3

LEMMA AtStatusStep ==
  ASSUME CommandsInv,
         NEW gpioOK \in BOOLEAN, NEW setupOK \in BOOLEAN, NEW readOK \in BOOLEAN,
         NEW sample \in Samples, AtStatus(gpioOK, setupOK, readOK, sample)
  PROVE  CommandsInv'
<1>1. CASE ready
  <2>1. ReadStatus(gpioOK, setupOK, readOK, sample)
    BY <1>1 DEF AtStatus
  <2>2. BoardInv' /\ UNCHANGED rail /\ (st'.rail = "on" => rail)
    BY <2>1, Reading DEF CommandsInv
  <2>3. CASE Powered
    <3>1. /\ pc' = "at_send" /\ UNCHANGED <<logging, parsed, report>>
          /\ report.text = "nothing" /\ (logging <=> parsed.debug)
      BY <1>1, <2>3 DEF AtStatus, parseVars, CommandsInv, AtInv, InCommand
    <3>2. rail'
      BY <2>2, <2>3 DEF Powered
    <3>. QED  BY <2>2, <3>1, <3>2 DEF CommandsInv, AtInv, InCommand, StateIsTrue
  <2>4. CASE ~Powered
    <3>1. pc' = "prompt" /\ report'.text = "not_powered"
      BY <1>1, <2>4 DEF AtStatus, Finish, Say
    <3>. QED  BY <2>2, <3>1 DEF CommandsInv, AtInv, InCommand, StateIsTrue
  <2>. QED  BY <2>3, <2>4
<1>2. CASE ~ready
  <2>1. pc' = "prompt" /\ report'.text = "status_failed" /\ UNCHANGED boardVars
    BY <1>2 DEF AtStatus, Finish, Say
  <2>. QED  BY <2>1 DEF boardVars, CommandsInv, BoardInv, AtInv, InCommand, StateIsTrue
<1>. QED  BY <1>1, <1>2

LEMMA SendStep ==
  ASSUME CommandsInv, AtSend
  PROVE  CommandsInv'
BY DEF CommandsInv, AtSend, boardVars, parseVars, BoardInv, AtInv, InCommand, StateIsTrue

LEMMA ReportStep ==
  ASSUME CommandsInv, AtReport
  PROVE  CommandsInv'
<1>1. pc' = "prompt" /\ UNCHANGED boardVars
  BY DEF AtReport, Finish
<1>2. report'.text \in {"raw_response", "timed_out", "failed",
                        "empty_response", "echo_only", "response"}
  <2>. DEFINE debug   == logging \/ parsed.debug
              failure == IF debug /\ exchange.response # "none" THEN "raw_response"
                         ELSE IF exchange.ret = "ETIMEDOUT" THEN "timed_out" ELSE "failed"
              success == IF exchange.response = "none" THEN "empty_response"
                         ELSE IF debug /\ exchange.response = "echo" THEN "echo_only"
                         ELSE "response"
              text    == IF exchange.ret = "OK" THEN success ELSE failure
              why     == IF debug THEN lastReason ELSE "none"
  <2>1. report' = [Say(text) EXCEPT !.debug = debug, !.reason = why]
    BY DEF AtReport, Finish
  <2>2. text \in {"raw_response", "timed_out", "failed",
                  "empty_response", "echo_only", "response"}
    OBVIOUS
  <2>. HIDE DEF text, debug, why
  <2>3. report'.text = text
    BY <2>1, ReportText
  <2>. QED  BY <2>2, <2>3
<1>. QED
  BY <1>1, <1>2 DEF boardVars, CommandsInv, BoardInv, AtInv, InCommand, StateIsTrue

(* The commands keep the invariant above, whatever calls to the board fail.   *)
THEOREM CommandsCorrect == Spec => []CommandsInv
<1>1. Init => CommandsInv
  <2>. SUFFICES ASSUME Init PROVE CommandsInv
    OBVIOUS
  <2>1. report.text = "nothing"
    BY SayText DEF Init
  <2>2. BoardInv
    BY DEF Init, BoardInv
  <2>3. AtInv
    BY DEF Init, AtInv, InCommand
  <2>. QED  BY <2>1, <2>2, <2>3 DEF CommandsInv, StateIsTrue
<1>2. CommandsInv /\ [Next]_vars => CommandsInv'
  <2>. SUFFICES ASSUME CommandsInv, [Next]_vars PROVE CommandsInv'
    OBVIOUS
  <2>1. CASE UNCHANGED vars
    BY <2>1 DEF vars, boardVars, parseVars, CommandsInv, BoardInv, AtInv, InCommand,
                StateIsTrue
  <2>2. CASE Next
    BY <2>2, StatusStep, ResetStep, PowerStep, AtStep, AtStatusStep, SendStep,
       ReportStep DEF Next
  <2>. QED  BY <2>1, <2>2
<1>. QED  BY <1>1, <1>2, PTL DEF Spec

---------------------------------------------------------------------------
(* What follows from it.                                                    *)

(* modem_shell_parse_at_command and modem_shell_at_debug_requested never     *)
(* disagree, whatever is typed.                                            *)
THEOREM SameDebug == Spec => []ParsersAgree
<1>1. CommandsInv => ParsersAgree
  BY DEF CommandsInv, AtInv, InCommand, ParsersAgree
<1>. QED  BY <1>1, CommandsCorrect, PTL

(* cmd_modem_status says ON and OFF rightly of a measured voltage; of a      *)
(* reading that failed it says OFF, with ERR beside it.                     *)
THEOREM StateMeasured == Spec => []StateIsTrue
<1>1. CommandsInv => StateIsTrue
  BY DEF CommandsInv
<1>. QED  BY <1>1, CommandsCorrect, PTL

(* modem_shell_cmd_at_core sends nothing to a modem that has no power.       *)
THEOREM NoSendUnpowered == Spec => []SentOnlyPowered
<1>1. CommandsInv => SentOnlyPowered
  BY DEF CommandsInv, AtInv, SentOnlyPowered
<1>. QED  BY <1>1, CommandsCorrect, PTL

---------------------------------------------------------------------------
(* What is sent of what was typed.  The trims of the C code stop at the       *)
(* first byte that is no blank, which LeastExists finds.                     *)

(* A set of places that is not empty has a first one.                       *)
LEMMA LeastExists ==
  ASSUME NEW S \in SUBSET Nat, S # {}
  PROVE  \E m \in S : \A k \in S : m <= k
<1>1. IsWellFoundedOn(OpToRel(<, Nat), Nat)
  BY NatLessThanWellFounded
<1>2. PICK m \in S : \A k \in S : ~(<<k, m>> \in OpToRel(<, Nat))
  BY <1>1, WFMin
<1>3. \A k \in S : ~(k < m)
  BY <1>2 DEF OpToRel
<1>. QED  BY <1>3

(* The part of a typed text from one place to another, and parts of it.     *)
LEMMA PartIs ==
  ASSUME NEW t \in Seq(Tokens), NEW a \in 1 .. Len(t) + 1, NEW b \in a - 1 .. Len(t)
  PROVE  /\ SubSeq(t, a, b) \in Seq(Tokens) /\ Len(SubSeq(t, a, b)) = b - a + 1
         /\ \A i \in 1 .. b - a + 1 : SubSeq(t, a, b)[i] = t[a + i - 1]
<1>1. Len(t) \in Nat /\ a \in Int /\ b \in Int
  BY LenProperties
<1>2. \A i \in a .. b : t[i] \in Tokens
  BY <1>1, ElementOfSeq
<1>3. /\ SubSeq(t, a, b) \in Seq(Tokens)
      /\ Len(SubSeq(t, a, b)) = IF a <= b THEN b - a + 1 ELSE 0
      /\ \A i \in 1 .. b - a + 1 : SubSeq(t, a, b)[i] = t[a + i - 1]
  BY <1>1, <1>2, SubSeqProperties
<1>. QED  BY <1>1, <1>3

LEMMA PartOfPart ==
  ASSUME NEW t \in Seq(Tokens), NEW a \in 1 .. Len(t) + 1, NEW b \in a - 1 .. Len(t),
         NEW x \in 1 .. b - a + 2, NEW y \in x - 1 .. b - a + 1
  PROVE  SubSeq(SubSeq(t, a, b), x, y) = SubSeq(t, a + x - 1, a + y - 1)
<1>. DEFINE s == SubSeq(t, a, b)
            u == SubSeq(s, x, y)
            v == SubSeq(t, a + x - 1, a + y - 1)
<1>1. Len(t) \in Nat /\ a \in Int /\ b \in Int /\ x \in Int /\ y \in Int
  BY LenProperties
<1>2. s \in Seq(Tokens) /\ Len(s) = b - a + 1 /\ \A i \in 1 .. b - a + 1 : s[i] = t[a + i - 1]
  BY PartIs
<1>. HIDE DEF s
<1>3. x \in 1 .. Len(s) + 1 /\ y \in x - 1 .. Len(s)
  BY <1>1, <1>2
<1>4. u \in Seq(Tokens) /\ Len(u) = y - x + 1 /\ \A i \in 1 .. y - x + 1 : u[i] = s[x + i - 1]
  BY <1>2, <1>3, PartIs
<1>5. a + x - 1 \in 1 .. Len(t) + 1 /\ a + y - 1 \in (a + x - 1) - 1 .. Len(t)
  BY <1>1
<1>6. /\ v \in Seq(Tokens) /\ Len(v) = (a + y - 1) - (a + x - 1) + 1
      /\ \A i \in 1 .. (a + y - 1) - (a + x - 1) + 1 : v[i] = t[(a + x - 1) + i - 1]
  BY <1>5, PartIs
<1>. HIDE DEF u, v
<1>7. Len(u) = Len(v)
  BY <1>1, <1>4, <1>6
<1>8. ASSUME NEW i \in 1 .. Len(u) PROVE u[i] = v[i]
  <2>1. i \in 1 .. y - x + 1 /\ i \in 1 .. (a + y - 1) - (a + x - 1) + 1
    BY <1>1, <1>4
  <2>2. x + i - 1 \in 1 .. b - a + 1 /\ a + (x + i - 1) - 1 = (a + x - 1) + i - 1
    BY <1>1, <2>1
  <2>. QED  BY <1>2, <1>4, <1>6, <2>1, <2>2
<1>9. u = v
  BY <1>4, <1>6, <1>7, <1>8, SeqEqual
<1>. QED  BY <1>9 DEF u, v, s

(* The parsers' trims return a part of what they are given.                 *)
LEMMA TrimBlanksPart ==
  ASSUME NEW t \in Seq(Tokens), NEW a \in 1 .. Len(t) + 1, NEW b \in a - 1 .. Len(t)
  PROVE  \E c \in a .. b + 1 :
           /\ TrimBlanks(SubSeq(t, a, b)) = SubSeq(t, c, b)
           /\ \A k \in a .. c - 1 : t[k] = "sp"
           /\ c <= b => t[c] # "sp"
<1>. DEFINE s == SubSeq(t, a, b)
            words == {i \in 1 .. Len(s) : s[i] # "sp"}
            first == IF words = {} THEN Len(s) + 1
                     ELSE CHOOSE i \in words : \A j \in words : i <= j
<1>1. Len(t) \in Nat /\ a \in Int /\ b \in Int
  BY LenProperties
<1>2. s \in Seq(Tokens) /\ Len(s) = b - a + 1 /\ \A i \in 1 .. b - a + 1 : s[i] = t[a + i - 1]
  BY PartIs
<1>3. TrimBlanks(s) = SubSeq(s, first, Len(s))
  BY Zenon DEF TrimBlanks
<1>4. /\ first \in 1 .. Len(s) + 1
      /\ \A i \in 1 .. first - 1 : s[i] = "sp"
      /\ first <= Len(s) => s[first] # "sp"
  <2>1. CASE words = {}
    <3>1. first = Len(s) + 1
      BY <2>1
    <3>2. \A i \in 1 .. Len(s) : s[i] = "sp"
      BY <2>1
    <3>. HIDE DEF first, s
    <3>. QED  BY <1>1, <1>2, <3>1, <3>2
  <2>2. CASE words # {}
    <3>1. \E i \in words : \A j \in words : i <= j
      <4>1. words \in SUBSET Nat
        OBVIOUS
      <4>. HIDE DEF words
      <4>. QED  BY <2>2, <4>1, LeastExists
    <3>2. first \in words /\ \A j \in words : first <= j
      <4>1. first = CHOOSE i \in words : \A j \in words : i <= j
        BY <2>2
      <4>. HIDE DEF words, first
      <4>. QED  BY <3>1, <4>1, Zenon
    <3>. HIDE DEF first, s
    <3>3. first \in 1 .. Len(s) /\ s[first] # "sp"
      BY <3>2
    <3>4. ASSUME NEW i \in 1 .. first - 1 PROVE s[i] = "sp"
      <4>1. i \in 1 .. Len(s) /\ ~(first <= i)
        BY <1>1, <1>2, <3>3
      <4>. QED  BY <3>2, <4>1
    <3>. QED  BY <1>1, <1>2, <3>3, <3>4
  <2>. QED  BY <2>1, <2>2
<1>. HIDE DEF first
<1>5. first \in 1 .. b - a + 2 /\ Len(s) \in first - 1 .. b - a + 1
  BY <1>1, <1>2, <1>4
<1>6. SubSeq(s, first, Len(s)) = SubSeq(t, a + first - 1, a + Len(s) - 1)
  BY <1>5, PartOfPart
<1>. HIDE DEF s
<1>7. a + first - 1 \in a .. b + 1 /\ a + Len(s) - 1 = b
  BY <1>1, <1>2, <1>4
<1>8. \A k \in a .. (a + first - 1) - 1 : t[k] = "sp"
  <2>. SUFFICES ASSUME NEW k \in a .. (a + first - 1) - 1 PROVE t[k] = "sp"
    OBVIOUS
  <2>1. /\ k - a + 1 \in 1 .. first - 1 /\ k - a + 1 \in 1 .. b - a + 1
        /\ a + (k - a + 1) - 1 = k
    BY <1>1, <1>2, <1>4
  <2>2. s[k - a + 1] = "sp"
    BY <1>4, <2>1
  <2>3. s[k - a + 1] = t[a + (k - a + 1) - 1]
    BY <1>2, <2>1
  <2>. QED  BY <2>1, <2>2, <2>3
<1>9. a + first - 1 <= b => t[a + first - 1] # "sp"
  <2>. SUFFICES ASSUME a + first - 1 <= b PROVE t[a + first - 1] # "sp"
    OBVIOUS
  <2>1. first \in 1 .. b - a + 1 /\ first <= Len(s)
    BY <1>1, <1>2, <1>4
  <2>. QED  BY <1>2, <1>4, <2>1
<1>10. TrimBlanks(s) = SubSeq(t, a + first - 1, b)
  BY <1>3, <1>6, <1>7
<1>. QED  BY <1>7, <1>8, <1>9, <1>10 DEF s

LEMMA TrimQuotesPart ==
  ASSUME NEW t \in Seq(Tokens), NEW a \in 1 .. Len(t) + 1, NEW b \in a - 1 .. Len(t)
  PROVE  \/ TrimQuotes(SubSeq(t, a, b)) = SubSeq(t, a, b)
         \/ /\ a < b /\ t[a] = t[b] /\ t[a] \in {"dq", "sq"}
            /\ TrimQuotes(SubSeq(t, a, b)) = SubSeq(t, a + 1, b - 1)
<1>. DEFINE s == SubSeq(t, a, b)
<1>1. Len(t) \in Nat /\ a \in Int /\ b \in Int
  BY LenProperties
<1>2. s \in Seq(Tokens) /\ Len(s) = b - a + 1 /\ \A i \in 1 .. b - a + 1 : s[i] = t[a + i - 1]
  BY PartIs
<1>3. CASE Len(s) >= 2 /\ s[1] = s[Len(s)] /\ s[1] \in {"dq", "sq"}
  <2>1. TrimQuotes(s) = SubSeq(s, 2, Len(s) - 1)
    BY <1>3, Zenon DEF TrimQuotes
  <2>2. 2 \in 1 .. b - a + 2 /\ Len(s) - 1 \in 2 - 1 .. b - a + 1
    BY <1>1, <1>2, <1>3
  <2>3. SubSeq(s, 2, Len(s) - 1) = SubSeq(t, a + 2 - 1, a + (Len(s) - 1) - 1)
    BY <2>2, PartOfPart
  <2>. HIDE DEF s
  <2>4. a + 2 - 1 = a + 1 /\ a + (Len(s) - 1) - 1 = b - 1 /\ a < b
    BY <1>1, <1>2, <1>3
  <2>5. s[1] = t[a] /\ s[Len(s)] = t[b]
    <3>1. /\ 1 \in 1 .. b - a + 1 /\ Len(s) \in 1 .. b - a + 1
          /\ a + 1 - 1 = a /\ a + Len(s) - 1 = b
      BY <1>1, <1>2, <1>3
    <3>. QED  BY <1>2, <3>1
  <2>. QED  BY <1>3, <2>1, <2>3, <2>4, <2>5 DEF s
<1>4. CASE ~(Len(s) >= 2 /\ s[1] = s[Len(s)] /\ s[1] \in {"dq", "sq"})
  BY <1>4, Zenon DEF TrimQuotes
<1>. QED  BY <1>3, <1>4

(* What is left of the text from a on: from place i to place j.              *)
Left(t, a, i, j) ==
  /\ i \in a .. Len(t) + 1 /\ j \in {Len(t) - 1, Len(t)}
  /\ TrimBlanks(TrimQuotes(SubSeq(t, a, Len(t)))) = SubSeq(t, i, j)
  /\ i <= j => t[i] # "sp"
  /\ \A k \in a .. i - 1 :
       \/ t[k] = "sp"
       \/ /\ j = Len(t) - 1 /\ t[k] = t[Len(t)] /\ t[k] \in {"dq", "sq"}
          /\ \A l \in k + 1 .. i - 1 : t[l] = "sp"
  /\ j = Len(t) - 1 => \E k \in a .. i - 1 : t[k] = t[Len(t)]

LEMMA TextLeft ==
  ASSUME NEW t \in Seq(Tokens), NEW a \in 1 .. Len(t) + 1
  PROVE  \E i, j : Left(t, a, i, j)
<1>. DEFINE n == Len(t)
            s == SubSeq(t, a, n)
<1>1. n \in Nat /\ n \in a - 1 .. n
  BY LenProperties
<1>2. CASE TrimQuotes(s) = s
  <2>1. PICK c \in a .. n + 1 :
          /\ TrimBlanks(s) = SubSeq(t, c, n)
          /\ \A k \in a .. c - 1 : t[k] = "sp"
          /\ c <= n => t[c] # "sp"
    BY <1>1, TrimBlanksPart
  <2>2. n # n - 1
    BY <1>1
  <2>3. Left(t, a, c, n)
    <3>1. TrimBlanks(TrimQuotes(s)) = SubSeq(t, c, n)
      BY <1>2, <2>1
    <3>. QED  BY <2>1, <2>2, <3>1 DEF Left
  <2>. QED  BY <2>3
<1>3. CASE /\ a < n /\ t[a] = t[n] /\ t[a] \in {"dq", "sq"}
           /\ TrimQuotes(s) = SubSeq(t, a + 1, n - 1)
  <2>1. a + 1 \in 1 .. n + 1 /\ n - 1 \in (a + 1) - 1 .. n
    BY <1>1, <1>3
  <2>2. PICK c \in a + 1 .. (n - 1) + 1 :
          /\ TrimBlanks(SubSeq(t, a + 1, n - 1)) = SubSeq(t, c, n - 1)
          /\ \A k \in a + 1 .. c - 1 : t[k] = "sp"
          /\ c <= n - 1 => t[c] # "sp"
    BY <2>1, TrimBlanksPart
  <2>3. c \in a .. n + 1 /\ a \in a .. c - 1
    BY <1>1, <2>2
  <2>4. \A k \in a .. c - 1 : k = a \/ k \in a + 1 .. c - 1
    BY <1>1
  <2>5. TrimBlanks(TrimQuotes(s)) = SubSeq(t, c, n - 1)
    BY <1>3, <2>2
  <2>6. \A k \in a .. c - 1 :
          \/ t[k] = "sp"
          \/ /\ t[k] = t[n] /\ t[k] \in {"dq", "sq"}
             /\ \A l \in k + 1 .. c - 1 : t[l] = "sp"
    BY <1>3, <2>2, <2>4
  <2>7. Left(t, a, c, n - 1)
    BY <1>3, <2>2, <2>3, <2>5, <2>6 DEF Left
  <2>. QED  BY <2>7
<1>. QED  BY <1>1, <1>2, <1>3, TrimQuotesPart

LEMMA ParsePlain ==
  ASSUME NEW t \in Seq(Tokens), NEW args, args = <<t>>, Parse(args).command # NoCommand,
         ~StartsWithOption(TrimBlanks(t))
  PROVE  SentFrom(t, Parse(args))
<1>. DEFINE n == Len(t)
            p == Parse(args)
            c == TrimBlanks(TrimQuotes(TrimBlanks(t)))
<1>1. n \in Nat /\ 1 \in 1 .. n + 1 /\ n \in 1 - 1 .. n
  BY LenProperties
<1>2. t # <<"debug">>
  <2>. SUFFICES ASSUME t = <<"debug">> PROVE FALSE
    OBVIOUS
  <2>1. Parse(args).command = NoCommand
    BY OneArgument, Zenon DEF Parse
  <2>. QED  BY <2>1
<1>3. p.command = c /\ c # << >>
  <2>1. p = [command |-> IF c = << >> THEN NoCommand ELSE c, debug |-> FALSE]
    BY <1>2, OneArgument, Zenon DEF Parse
  <2>2. p.command = IF c = << >> THEN NoCommand ELSE c
    BY <2>1
  <2>. QED  BY <2>2
<1>4. PICK a \in 1 .. n + 1 :
        TrimBlanks(SubSeq(t, 1, n)) = SubSeq(t, a, n) /\ \A k \in 1 .. a - 1 : t[k] = "sp"
  BY <1>1, TrimBlanksPart
<1>5. TrimBlanks(t) = SubSeq(t, a, n)
  BY <1>4, SubSeqFull
<1>6. PICK i, j : Left(t, a, i, j)
  BY TextLeft
<1>. HIDE DEF p
<1>7. c = SubSeq(t, i, j)
  BY <1>5, <1>6, Zenon DEF Left
<1>. HIDE DEF c
<1>8. i \in a .. n + 1 /\ j \in {n - 1, n} /\ i \in Int /\ j \in Int
  BY <1>1, <1>4, <1>6 DEF Left
<1>9. i <= j
  <2>1. ~(j < i)
    BY <1>3, <1>7, <1>8, SubSeqEmpty
  <2>. QED  BY <1>8, <2>1
<1>10. i \in 1 .. n /\ j \in 1 .. n
  BY <1>1, <1>4, <1>8, <1>9
<1>11. \A k \in 1 .. i - 1 : k \in 1 .. a - 1 \/ k \in a .. i - 1
  BY <1>1, <1>4, <1>8
<1>12. \A k \in 1 .. i - 1 :
         \/ t[k] = "sp"
         \/ j = n - 1 /\ t[k] = t[n] /\ t[k] \in {"dq", "sq"}
              /\ \A l \in k + 1 .. i - 1 : t[l] = "sp"
  BY <1>4, <1>6, <1>11 DEF Left
<1>13. j = n - 1 => \E k \in 1 .. i - 1 : t[k] = t[n]
  <2>1. \A k \in a .. i - 1 : k \in 1 .. i - 1
    BY <1>4
  <2>. QED  BY <1>6, <2>1 DEF Left
<1>14. t[i] # "sp"
  BY <1>6, <1>9 DEF Left
<1>15. p.command = SubSeq(t, i, j)
  BY <1>3, <1>7
<1>. HIDE DEF n
<1>16. SentFrom(t, p)
  BY <1>8, <1>9, <1>10, <1>12, <1>13, <1>14, <1>15 DEF SentFrom, n
<1>. QED  BY <1>16 DEF p

LEMMA ParseOption ==
  ASSUME NEW t \in Seq(Tokens), NEW args, args = <<t>>, Parse(args).command # NoCommand,
         StartsWithOption(TrimBlanks(t))
  PROVE  SentFrom(t, Parse(args))
<1>. DEFINE n == Len(t)
            p == Parse(args)
            raw == TrimBlanks(t)
            c == TrimBlanks(TrimQuotes(TrimBlanks(Tail(raw))))
<1>1. n \in Nat /\ 1 \in 1 .. n + 1 /\ n \in 1 - 1 .. n
  BY LenProperties
<1>2. t # <<"debug">>
  <2>. SUFFICES ASSUME t = <<"debug">> PROVE FALSE
    OBVIOUS
  <2>1. Parse(args).command = NoCommand
    BY OneArgument, Zenon DEF Parse
  <2>. QED  BY <2>1
<1>3. p.command = c /\ c # << >> /\ p.debug = TRUE
  <2>1. p = [command |-> IF c = << >> THEN NoCommand ELSE c, debug |-> TRUE]
    BY <1>2, OneArgument, Zenon DEF Parse
  <2>2. p.command = (IF c = << >> THEN NoCommand ELSE c) /\ p.debug = TRUE
    BY <2>1
  <2>. QED  BY <2>2
<1>. HIDE DEF p
<1>4. PICK a \in 1 .. n + 1 :
        TrimBlanks(SubSeq(t, 1, n)) = SubSeq(t, a, n) /\ \A k \in 1 .. a - 1 : t[k] = "sp"
  BY <1>1, TrimBlanksPart
<1>5. raw = SubSeq(t, a, n)
  BY <1>4, SubSeqFull
<1>6. /\ raw \in Seq(Tokens) /\ Len(raw) = n - a + 1
      /\ \A k \in 1 .. n - a + 1 : raw[k] = t[a + k - 1]
  <2>1. n \in a - 1 .. n
    BY <1>1, <1>4
  <2>. QED  BY <1>5, <2>1, PartIs
<1>7. raw # << >> /\ raw[1] = "debug" /\ (Len(raw) = 1 \/ raw[2] = "sp")
  BY Zenon DEF StartsWithOption
<1>. HIDE DEF raw
<1>8. Len(raw) \in Nat /\ Len(raw) # 0
  BY <1>6, <1>7, EmptySeq, LenProperties
<1>9. a \in 1 .. n /\ a + 1 \in 1 .. n + 1 /\ n \in (a + 1) - 1 .. n
  BY <1>1, <1>4, <1>6, <1>8
<1>10. t[a] = "debug"
  <2>1. 1 \in 1 .. n - a + 1 /\ a + 1 - 1 = a
    BY <1>1, <1>9
  <2>. QED  BY <1>6, <1>7, <2>1
<1>11. Tail(raw) = SubSeq(t, a + 1, n)
  <2>1. Tail(raw) = SubSeq(raw, 2, Len(raw))
    BY <1>6, <1>7, TailIsSubSeq
  <2>2. 2 \in 1 .. n - a + 2 /\ Len(raw) \in 2 - 1 .. n - a + 1
    BY <1>1, <1>6, <1>8, <1>9
  <2>3. SubSeq(SubSeq(t, a, n), 2, Len(raw)) = SubSeq(t, a + 2 - 1, a + Len(raw) - 1)
    <3>1. n \in a - 1 .. n
      BY <1>1, <1>4
    <3>. QED  BY <2>2, <3>1, PartOfPart
  <2>4. a + 2 - 1 = a + 1 /\ a + Len(raw) - 1 = n
    BY <1>1, <1>6, <1>9
  <2>. QED  BY <1>5, <2>1, <2>3, <2>4
<1>12. PICK b \in a + 1 .. n + 1 :
         TrimBlanks(SubSeq(t, a + 1, n)) = SubSeq(t, b, n) /\ \A k \in a + 1 .. b - 1 : t[k] = "sp"
  BY <1>9, TrimBlanksPart
<1>13. PICK i, j : Left(t, b, i, j)
  <2>1. b \in 1 .. n + 1
    BY <1>9, <1>12
  <2>. QED  BY <2>1, TextLeft
<1>14. c = SubSeq(t, i, j)
  BY <1>11, <1>12, <1>13, Zenon DEF Left
<1>. HIDE DEF c
<1>15. i \in b .. n + 1 /\ j \in {n - 1, n} /\ i \in Int /\ j \in Int
  BY <1>1, <1>9, <1>12, <1>13 DEF Left
<1>16. i <= j
  <2>1. ~(j < i)
    BY <1>3, <1>14, <1>15, SubSeqEmpty
  <2>. QED  BY <1>15, <2>1
<1>17. i \in 1 .. n /\ j \in 1 .. n
  BY <1>1, <1>9, <1>12, <1>15, <1>16
<1>18. t[a + 1] = "sp"
  <2>1. Len(raw) # 1
    BY <1>1, <1>6, <1>9, <1>12, <1>15, <1>17
  <2>2. 2 \in 1 .. n - a + 1 /\ a + 2 - 1 = a + 1
    BY <1>1, <1>6, <1>8, <1>9, <2>1
  <2>. QED  BY <1>6, <1>7, <2>1, <2>2
<1>19. \A k \in 1 .. i - 1 : k \in 1 .. a - 1 \/ k = a \/ k \in a + 1 .. b - 1 \/ k \in b .. i - 1
  BY <1>1, <1>9, <1>12, <1>15
<1>20. \A k \in 1 .. i - 1 :
         \/ t[k] = "sp"
         \/ t[k] = "debug" /\ t[k + 1] = "sp" /\ \A l \in 1 .. k - 1 : t[l] = "sp"
         \/ j = n - 1 /\ t[k] = t[n] /\ t[k] \in {"dq", "sq"}
              /\ \A l \in k + 1 .. i - 1 : t[l] = "sp"
  BY <1>4, <1>10, <1>12, <1>13, <1>18, <1>19 DEF Left
<1>21. j = n - 1 => \E k \in 1 .. i - 1 : t[k] = t[n]
  <2>1. \A k \in b .. i - 1 : k \in 1 .. i - 1
    BY <1>9, <1>12
  <2>. QED  BY <1>13, <2>1 DEF Left
<1>22. t[i] # "sp"
  BY <1>13, <1>16 DEF Left
<1>23. p.command = SubSeq(t, i, j)
  BY <1>3, <1>14
<1>. HIDE DEF n
<1>24. SentFrom(t, p)
  BY <1>3, <1>15, <1>16, <1>17, <1>20, <1>21, <1>22, <1>23 DEF SentFrom, n
<1>. QED  BY <1>24 DEF p

(* A running `at` remembers what was typed and what that was parsed into.    *)
SentInv ==
  pc \in InCommand =>
    typed \in Arguments /\ parsed = Parse(typed) /\ parsed.command # NoCommand

LEMMA TextType ==
  ASSUME NEW x \in Texts
  PROVE  x \in Seq(Tokens)
<1>1. \A n \in Nat : [1 .. n -> Tokens] \subseteq Seq(Tokens)
  OBVIOUS
<1>. QED  BY <1>1, CommandsAssumption DEF Texts

LEMMA OnePiece ==
  ASSUME NEW args, args = <<args[1]>>, args[1] \in Texts, Parse(args).command # NoCommand
  PROVE  SentFrom(args[1], Parse(args))
BY TextType, ParsePlain, ParseOption, Zenon

LEMMA TwoPieces ==
  ASSUME NEW args, Len(args) = 2
  PROVE  IF args[1] = <<"debug">>
         THEN Parse(args) = [command |-> args[2], debug |-> TRUE]
         ELSE Parse(args) = [command |-> args[1], debug |-> FALSE]
<1>1. Len(args) > 1 /\ Len(args) # 1
  OBVIOUS
<1>. QED  BY <1>1, Zenon DEF Parse

LEMMA TypedKept == Spec => []SentInv
<1>1. Init => SentInv
  BY DEF Init, SentInv, InCommand
<1>2. ASSUME SentInv, [Next]_vars PROVE SentInv'
  <2>1. ASSUME NEW args \in Arguments, CmdAt(args) PROVE SentInv'
    <3>1. CASE Parse(args).command = NoCommand
      <4>1. pc' = "prompt"
        BY <2>1, <3>1, Zenon DEF CmdAt, Finish
      <4>. QED  BY <4>1 DEF SentInv, InCommand
    <3>2. CASE Parse(args).command # NoCommand
      <4>1. typed' = args /\ parsed' = Parse(args)
        BY <2>1, <3>2, Zenon DEF CmdAt
      <4>. QED  BY <2>1, <3>2, <4>1, Zenon DEF SentInv
    <3>. QED  BY <3>1, <3>2
  <2>2. CASE pc' = "prompt"
    BY <2>2 DEF SentInv, InCommand
  <2>3. CASE pc \in InCommand /\ UNCHANGED <<typed, parsed>>
    BY <1>2, <2>3, Zenon DEF SentInv
  <2>4. ASSUME NEW gpioOK \in BOOLEAN, NEW setupOK \in BOOLEAN, NEW readOK \in BOOLEAN,
               NEW sample \in Samples, AtStatus(gpioOK, setupOK, readOK, sample)
        PROVE  SentInv'
    <3>1. pc' = "prompt" \/ (pc \in InCommand /\ UNCHANGED <<typed, parsed>>)
      BY <2>4 DEF AtStatus, Finish, parseVars, InCommand
    <3>. QED  BY <2>2, <2>3, <3>1
  <2>5. CASE AtSend
    BY <2>3, <2>5 DEF AtSend, parseVars, InCommand
  <2>6. CASE AtReport
    BY <2>2, <2>6 DEF AtReport, Finish
  <2>7. ASSUME NEW gpioOK \in BOOLEAN, NEW setupOK \in BOOLEAN, NEW readOK \in BOOLEAN,
               NEW sample \in Samples, CmdStatus(gpioOK, setupOK, readOK, sample)
        PROVE  SentInv'
    BY <2>2, <2>7 DEF CmdStatus, Finish
  <2>8. ASSUME NEW ok \in BOOLEAN, CmdReset(ok) PROVE SentInv'
    BY <2>2, <2>8 DEF CmdReset, Finish
  <2>9. ASSUME NEW ok \in BOOLEAN, NEW o \in {"on", "off", "cycle"}, CmdPower(o, ok)
        PROVE  SentInv'
    BY <2>2, <2>9 DEF CmdPower, Finish
  <2>10. CASE UNCHANGED vars
    BY <1>2, <2>10 DEF vars, parseVars, SentInv
  <2>. QED  BY <1>2, <2>1, <2>4, <2>5, <2>6, <2>7, <2>8, <2>9, <2>10 DEF Next
<1>. QED  BY <1>1, <1>2, PTL DEF Spec

(* What modem_shell_parse_at_command hands to the sender is one unbroken      *)
(* part of the one piece that was typed, but for blanks before it, the       *)
(* option and a pair of quotes; of two pieces it is the second, untouched,   *)
(* behind the option, and otherwise the first, whatever the texts.          *)
THEOREM TextIsSent == Spec => []SentAsTyped
<1>1. SentInv => SentAsTyped
  <2>. SUFFICES ASSUME SentInv, pc = "at_send"
                PROVE  \/ Len(typed) = 1 /\ SentFrom(typed[1], parsed)
                       \/ parsed.debug /\ typed = <<<<"debug">>, parsed.command>>
                       \/ ~parsed.debug /\ Len(typed) = 2 /\ typed[1] = parsed.command
    BY Zenon DEF SentAsTyped
  <2>1. typed \in Arguments /\ parsed = Parse(typed) /\ parsed.command # NoCommand
    BY DEF SentInv, InCommand
  <2>2. CASE Len(typed) = 1 /\ typed = <<typed[1]>> /\ typed[1] \in Texts
    <3>1. SentFrom(typed[1], parsed)
      BY <2>1, <2>2, OnePiece, Zenon
    <3>. QED  BY <2>2, <3>1
  <2>3. CASE Len(typed) = 2 /\ typed = <<typed[1], typed[2]>>
    <3>1. CASE typed[1] = <<"debug">>
      <4>1. parsed = [command |-> typed[2], debug |-> TRUE]
        BY <2>1, <2>3, <3>1, TwoPieces, Zenon
      <4>2. parsed.command = typed[2] /\ parsed.debug = TRUE
        BY <4>1
      <4>3. typed = <<<<"debug">>, parsed.command>>
        BY <2>3, <3>1, <4>2, Zenon
      <4>. QED  BY <4>2, <4>3, Zenon
    <3>2. CASE typed[1] # <<"debug">>
      <4>1. parsed = [command |-> typed[1], debug |-> FALSE]
        BY <2>1, <2>3, <3>2, TwoPieces, Zenon
      <4>2. parsed.command = typed[1] /\ parsed.debug = FALSE
        BY <4>1
      <4>. QED  BY <2>3, <4>2, Zenon
    <3>. QED  BY <3>1, <3>2
  <2>. QED  BY <2>1, <2>2, <2>3, ArgumentsShape
<1>. QED  BY <1>1, TypedKept, PTL
=============================================================================
