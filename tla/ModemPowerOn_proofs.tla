------------------------ MODULE ModemPowerOn_proofs ------------------------
(***************************************************************************)
(* What an OK of `power on` means, for every bound on what is under way.    *)
(***************************************************************************)
EXTENDS ModemPowerOn, TLAPS

LEMMA RestType ==
  ASSUME NEW S, NEW s \in Seq(S), NEW n \in Nat \ {0}, n <= Len(s) + 1
  PROVE  /\ SubSeq(s, n, Len(s)) \in Seq(S)
         /\ Len(SubSeq(s, n, Len(s))) <= Len(s)
  OBVIOUS

LEMMA AfterType ==
  ASSUME TypeOK, pc # "prompt", NEW r \in {"OK", "EIO", "ENODEV", "ETIMEDOUT"}, After(r)
  PROVE  /\ pc' \in {"prompt", "write"}
         /\ command' \in Commands
         /\ attempt' \in 0 .. SyncRetries
         /\ result' \in {"OK", "EIO", "ENODEV", "ETIMEDOUT"}
BY DEF TypeOK, After, Exchange, Commands, SyncRetries

LEMMA TypeStep ==
  ASSUME TypeOK, [Next]_vars
  PROVE  TypeOK'
<1>. USE LineAssumption
<1>1. ASSUME NEW boardOK \in BOOLEAN, NEW restarts \in BOOLEAN, PowerOn(boardOK, restarts)
      PROVE  TypeOK'
  <2>1. (toModem' = toModem \/ toModem' = <<>>) /\ (air' = air \/ air' = <<>>)
    BY <1>1 DEF PowerOn
  <2>2. /\ toModem' \in Seq(Commands) /\ Len(toModem') <= MaxLine
        /\ air' \in Seq(Verdicts) /\ Len(air') <= MaxLine
    <3>1. <<>> \in Seq(Commands) /\ <<>> \in Seq(Verdicts) /\ Len(<<>>) <= MaxLine
      OBVIOUS
    <3>. QED  BY <2>1, <3>1 DEF TypeOK
  <2>3. up' \in BOOLEAN
    BY <1>1, Zenon DEF PowerOn, TypeOK
  <2>4. /\ pc' \in {"prompt", "write"} /\ command' \in Commands
        /\ attempt' \in 0 .. SyncRetries
        /\ result' \in {"OK", "EIO", "ENODEV", "ETIMEDOUT"}
    BY <1>1 DEF PowerOn, Exchange, TypeOK, Commands, SyncRetries
  <2>5. punctual' \in BOOLEAN /\ cts' \in BOOLEAN /\ awake' \in BOOLEAN
    BY <1>1 DEF PowerOn, TypeOK
  <2>. QED  BY <2>2, <2>3, <2>4, <2>5 DEF TypeOK
<1>2. CASE NotReady
  BY <1>2, AfterType DEF NotReady, TypeOK, modemVars
<1>3. CASE Write
  <2>1. toModem' \in Seq(Commands) /\ Len(toModem') <= MaxLine
    BY <1>3 DEF Write, TypeOK
  <2>. QED  BY <1>3, <2>1 DEF Write, TypeOK, modemVars
<1>4. CASE CollectAny
  <2>1. PICK n \in 1 .. Len(air) : \E dropped \in 0 .. Len(air) - n : Collect(n, dropped)
    BY <1>4 DEF CollectAny
  <2>0. PICK dropped \in 0 .. Len(air) - n : Collect(n, dropped)
    BY <2>1
  <2>2. air \in Seq(Verdicts) /\ Len(air) <= MaxLine /\ Len(air) \in Nat
    BY DEF TypeOK
  <2>3. n + dropped + 1 \in Nat \ {0} /\ n + dropped + 1 <= Len(air) + 1
    BY <2>2
  <2>4. air' \in Seq(Verdicts) /\ Len(air') <= MaxLine
    <3>1. air' = SubSeq(air, n + dropped + 1, Len(air))
      BY <2>0 DEF Collect
    <3>2. SubSeq(air, n + dropped + 1, Len(air)) \in Seq(Verdicts)
          /\ Len(SubSeq(air, n + dropped + 1, Len(air))) <= Len(air)
      BY <2>2, <2>3, RestType
    <3>3. Len(SubSeq(air, n + dropped + 1, Len(air))) \in Nat
      BY <3>2
    <3>. QED  BY <2>2, <3>1, <3>2, <3>3
  <2>5. pc = "collect" /\ \E r \in {"OK", "EIO"} : After(r)
    BY <2>0 DEF Collect
  <2>. QED  BY <2>0, <2>4, <2>5, AfterType DEF Collect, TypeOK, modemVars
<1>5. CASE TimeOut
  BY <1>5, AfterType DEF TimeOut, TypeOK, modemVars
<1>6. CASE Boots \/ \E b \in BOOLEAN : ClearToSend(b)
  BY <1>6 DEF Boots, ClearToSend, TypeOK, shVars
<1>7. ASSUME NEW v \in Verdicts, TakeCommand(v) PROVE TypeOK'
  <2>1. toModem' \in Seq(Commands) /\ Len(toModem') <= MaxLine
    <3>1. toModem \in Seq(Commands) /\ toModem # <<>> /\ toModem' = Tail(toModem)
      BY <1>7 DEF TakeCommand, TypeOK
    <3>2. toModem' \in Seq(Commands) /\ Len(toModem') = Len(toModem) - 1
      BY <3>1
    <3>. QED  BY <3>1, <3>2 DEF TypeOK
  <2>2. air' \in Seq(Verdicts) /\ Len(air') <= MaxLine
    BY <1>7 DEF TakeCommand, TypeOK
  <2>3. awake' \in BOOLEAN
    BY <1>7 DEF TakeCommand, TypeOK
  <2>. QED  BY <1>7, <2>1, <2>2, <2>3 DEF TakeCommand, TypeOK, shVars
<1>8. CASE UNCHANGED vars
  BY <1>8 DEF vars, shVars, modemVars, TypeOK
<1>. QED  BY <1>1, <1>2, <1>3, <1>4, <1>5, <1>6, <1>7, <1>8 DEF Next, Modem

(* Every variable keeps its type: in particular AT is sent three times at     *)
(* most, and what is under way keeps its bound.                             *)
THEOREM TypeCorrect == Spec => []TypeOK
<1>1. Init => TypeOK
  <2>1. <<>> \in Seq(Commands) /\ <<>> \in Seq(Verdicts) /\ Len(<<>>) <= MaxLine
    BY LineAssumption
  <2>2. Init => toModem = <<>> /\ air = <<>>
    BY DEF Init
  <2>3. Init => pc = "prompt" /\ command \in Commands /\ attempt \in 0 .. SyncRetries
                /\ result = "ENODEV"
    BY DEF Init, Commands, SyncRetries
  <2>4. Init => punctual \in BOOLEAN /\ cts \in BOOLEAN /\ up \in BOOLEAN /\ awake \in BOOLEAN
    BY Zenon DEF Init
  <2>. QED  BY <2>1, <2>2, <2>3, <2>4 DEF TypeOK
<1>. QED  BY <1>1, TypeStep, PTL DEF Spec

---------------------------------------------------------------------------
(* Why: with a punctual modem, at most the current command is under way, as  *)
(* the command itself or as its answer, and the answer OK to AT+KSLEEP=2 is *)
(* only under way when the modem has accepted it.                           *)
Own ==
  \/ toModem = <<command>> /\ air = <<>>
  \/ toModem = <<>> /\ air = <<>>
  \/ toModem = <<>> /\ air = <<"EIO">>
  \/ toModem = <<>> /\ air = <<"OK">> /\ (command = "AT+KSLEEP=2" => awake)

PunctualInv ==
  /\ NothingLeftOver
  /\ punctual /\ pc = "collect" => Own
  /\ OkMeansAwake

LEMMA AfterPunctual ==
  ASSUME TypeOK, pc # "prompt", NEW r \in {"OK", "EIO", "ENODEV", "ETIMEDOUT"}, After(r),
         punctual' = punctual, awake' = awake,
         punctual => toModem' = <<>> /\ air' = <<>>,
         punctual /\ r = "OK" /\ command = "AT+KSLEEP=2" => awake
  PROVE  PunctualInv'
<1>1. pc' # "collect"
  BY AfterType
<1>2. pc' = "prompt" /\ result' = "OK" => r = "OK" /\ command = "AT+KSLEEP=2"
  BY DEF TypeOK, After, Exchange, Commands
<1>. QED  BY <1>1, <1>2 DEF PunctualInv, NothingLeftOver, OkMeansAwake

LEMMA PunctualStep ==
  ASSUME TypeOK, TypeOK', PunctualInv, [Next]_vars
  PROVE  PunctualInv'
<1>. USE DEF PunctualInv, NothingLeftOver, OkMeansAwake
<1>1. ASSUME NEW boardOK \in BOOLEAN, NEW restarts \in BOOLEAN, PowerOn(boardOK, restarts)
      PROVE  PunctualInv'
  <2>1. (toModem' = toModem \/ toModem' = <<>>) /\ (air' = air \/ air' = <<>>)
    BY <1>1 DEF PowerOn
  <2>2. pc = "prompt" /\ punctual' = punctual
    BY <1>1 DEF PowerOn
  <2>3. pc' = "write" \/ (pc' = "prompt" /\ result' = "EIO")
    BY <1>1 DEF PowerOn, Exchange
  <2>. QED  BY <2>1, <2>2, <2>3
<1>2. CASE NotReady
  BY <1>2, AfterPunctual DEF NotReady, modemVars
<1>3. CASE Write
  <2>1. punctual => toModem' = <<command>> /\ air' = <<>>
    BY <1>3 DEF Write
  <2>. QED  BY <1>3, <2>1 DEF Write, Own
<1>4. CASE CollectAny
  <2>1. PICK n \in 1 .. Len(air) : \E dropped \in 0 .. Len(air) - n : Collect(n, dropped)
    BY <1>4 DEF CollectAny
  <2>0. PICK dropped \in 0 .. Len(air) - n : Collect(n, dropped)
    BY <2>1
  <2>2. ASSUME punctual
        PROVE  toModem = <<>> /\ Len(air) = 1 /\ (air[1] = "OK" /\ command = "AT+KSLEEP=2" => awake)
    <3>1. Own /\ air # <<>>
      BY <2>0, <2>2 DEF Collect
    <3>. QED  BY <3>1 DEF Own
  <2>3. punctual => toModem' = <<>> /\ air' = <<>>
    BY <2>0, <2>2 DEF Collect, TypeOK
  <2>4. ASSUME punctual, "OK" \in Range(SubSeq(air, 1, n)), command = "AT+KSLEEP=2" PROVE awake
    <3>0. Len(air) = 1
      BY <2>2, <2>4
    <3>1. n = 1 /\ air \in Seq(Verdicts)
      BY <3>0 DEF TypeOK
    <3>2. DOMAIN SubSeq(air, 1, n) = 1 .. 1 /\ SubSeq(air, 1, n)[1] = air[1]
      BY <3>0, <3>1
    <3>3. air[1] = "OK"
      BY <2>4, <3>2 DEF Range
    <3>. QED  BY <2>2, <2>4, <3>3
  <2>5. After(IF "OK" \in Range(SubSeq(air, 1, n)) THEN "OK" ELSE "EIO")
    BY <2>0 DEF Collect
  <2>6. pc # "prompt" /\ punctual' = punctual /\ awake' = awake
    BY <2>0 DEF Collect, modemVars
  <2>7. CASE "OK" \in Range(SubSeq(air, 1, n))
    <3>1. After("OK")
      BY <2>5, <2>7
    <3>. QED  BY <2>3, <2>4, <2>6, <2>7, <3>1, AfterPunctual
  <2>8. CASE "OK" \notin Range(SubSeq(air, 1, n))
    <3>1. After("EIO")
      BY <2>5, <2>8
    <3>. QED  BY <2>3, <2>6, <3>1, AfterPunctual
  <2>. QED  BY <2>7, <2>8
<1>5. CASE TimeOut
  BY <1>5, AfterPunctual DEF TimeOut, modemVars
<1>6. CASE Boots \/ \E b \in BOOLEAN : ClearToSend(b)
  BY <1>6 DEF Boots, ClearToSend, shVars, Own
<1>7. ASSUME NEW v \in Verdicts, TakeCommand(v) PROVE PunctualInv'
  <2>1. punctual' = punctual /\ pc' = pc /\ result' = result /\ command' = command
        /\ toModem # <<>> /\ (awake => awake')
    BY <1>7 DEF TakeCommand, shVars
  <2>2. ASSUME punctual PROVE pc = "collect" /\ Own'
    <3>1. pc = "collect" /\ toModem = <<command>> /\ air = <<>>
      BY <2>1, <2>2 DEF Own
    <3>2. toModem' = <<>> /\ Head(toModem) = command
      BY <1>7, <3>1 DEF TakeCommand
    <3>3. CASE up
      <4>1. air' = <<v>>
        BY <1>7, <3>1, <3>3 DEF TakeCommand
      <4>2. v = "OK" /\ command = "AT+KSLEEP=2" => awake'
        BY <1>7, <3>2, <3>3 DEF TakeCommand
      <4>. QED  BY <2>1, <3>1, <3>2, <4>1, <4>2 DEF Own, Verdicts
    <3>4. CASE ~up
      BY <1>7, <2>1, <3>1, <3>2, <3>4 DEF TakeCommand, Own
    <3>. QED  BY <3>1, <3>3, <3>4
  <2>. QED  BY <2>1, <2>2
<1>8. CASE UNCHANGED vars
  BY <1>8 DEF vars, shVars, modemVars, Own
<1>. QED  BY <1>1, <1>2, <1>3, <1>4, <1>5, <1>6, <1>7, <1>8 DEF Next, Modem

LEMMA PunctualCorrect == Spec => []PunctualInv
<1>1. Init => PunctualInv
  BY DEF Init, PunctualInv, NothingLeftOver, OkMeansAwake
<1>. QED  BY <1>1, PunctualStep, TypeCorrect, PTL DEF Spec

(* With a modem that answers in time or not at all, OK of `power on` means    *)
(* that it has accepted AT+KSLEEP=2 since.                                  *)
THEOREM OkIsTrue == Spec => []OkMeansAwake
<1>1. PunctualInv => OkMeansAwake
  BY DEF PunctualInv
<1>. QED  BY <1>1, PunctualCorrect, PTL

(* With such a modem each exchange takes its answer with it.                *)
THEOREM NoLateAnswer == Spec => []NothingLeftOver
<1>1. PunctualInv => NothingLeftOver
  BY DEF PunctualInv
<1>. QED  BY <1>1, PunctualCorrect, PTL

---------------------------------------------------------------------------
(* The refinement.  A written command is a request the modem has yet to       *)
(* decide; its answer, or its loss, is the outcome.                         *)

(* What the exchange reports, and how it goes on.                           *)
LEMMA AfterReports ==
  ASSUME TypeOK, pc # "prompt", punctual, UNCHANGED <<punctual, awake>>,
         NEW r \in {"OK", "EIO", "ENODEV", "ETIMEDOUT"}, After(r),
         \/ Outcome = "none" /\ r = "ENODEV"
         \/ Outcome = "lost" /\ r = "ETIMEDOUT"
         \/ Outcome \in Verdicts /\ r = Outcome
  PROVE  Requests!Report
<1>1. pc' \in {"prompt", "write"} /\ result' = r
  BY AfterType DEF After
<1>2. Outcome' = "none"
  BY <1>1 DEF Outcome
<1>3. Requests!Reported = r
  BY DEF Requests!Reported, Verdicts
<1>4. r = "OK" <=> Outcome = "OK"
  BY DEF Verdicts
<1>5. command \in {"AT", "AT+KSLEEP=2"}
  BY DEF TypeOK, Commands
<1>6. (IF punctual' /\ pc' # "prompt" THEN command' ELSE "nothing")
        \in IF command = "AT+KSLEEP=2" THEN {"nothing"}
           ELSE IF Outcome = "OK" THEN {"AT+KSLEEP=2"} ELSE {"AT", "nothing"}
  BY <1>1, <1>4, <1>5 DEF After, Exchange
<1>. QED  BY <1>1, <1>2, <1>3, <1>5, <1>6 DEF Requests!Report

(* The refinement's step, for each action.  Where the modem may be late the   *)
(* abstract state does not change.                                          *)
LEMMA RequestStep ==
  ASSUME TypeOK, PunctualInv, [Next]_vars
  PROVE  [Requests!Next]_Requests!vars
<1>1. punctual' = punctual
  BY DEF Next, Modem, PowerOn, NotReady, Write, CollectAny, Collect, TimeOut, Boots,
         ClearToSend, TakeCommand, vars
<1>2. CASE ~punctual
  BY <1>1, <1>2 DEF Requests!vars
<1>3. ASSUME punctual, NEW boardOK \in BOOLEAN, NEW restarts \in BOOLEAN,
             PowerOn(boardOK, restarts)
      PROVE  Requests!Next
  <2>1. pc = "prompt" /\ punctual' /\ ~awake'
        /\ \/ pc' = "write" /\ command' = "AT" /\ result' = "ETIMEDOUT"
           \/ pc' = "prompt" /\ result' = "EIO"
    BY <1>1, <1>3 DEF PowerOn, Exchange
  <2>2. Outcome = "none" /\ Outcome' = "none"
    BY <2>1 DEF Outcome
  <2>. QED  BY <1>3, <2>1, <2>2 DEF Requests!Next, Requests!PowerOn
<1>4. ASSUME punctual, NotReady PROVE Requests!Next
  <2>1. Outcome = "none"
    BY <1>4 DEF NotReady, Outcome
  <2>. QED  BY <1>4, <2>1, AfterReports DEF NotReady, modemVars, Requests!Next
<1>5. ASSUME punctual, Write PROVE UNCHANGED Requests!vars
  <2>1. pc = "write" /\ pc' = "collect" /\ toModem' # <<>>
        /\ UNCHANGED <<punctual, command, result, awake>>
    BY <1>5 DEF Write, modemVars, TypeOK
  <2>2. Outcome = "none" /\ Outcome' = "none"
    BY <2>1 DEF Outcome
  <2>. QED  BY <2>1, <2>2 DEF Requests!vars
<1>6. ASSUME punctual, CollectAny PROVE Requests!Next
  <2>1. PICK n \in 1 .. Len(air) : \E dropped \in 0 .. Len(air) - n : Collect(n, dropped)
    BY <1>6 DEF CollectAny
  <2>2. PICK dropped \in 0 .. Len(air) - n : Collect(n, dropped)
    BY <2>1
  <2>3. pc = "collect" /\ air # <<>> /\ Own
    BY <1>6, <2>2 DEF Collect, PunctualInv
  <2>4. toModem = <<>> /\ Len(air) = 1 /\ air[1] \in Verdicts
    BY <2>3 DEF Own, Verdicts
  <2>5. Outcome = air[1]
    BY <2>3, <2>4 DEF Outcome
  <2>6. Range(SubSeq(air, 1, n)) = {air[1]}
    <3>1. n = 1 /\ air \in Seq(Verdicts)
      BY <2>4 DEF TypeOK
    <3>2. DOMAIN SubSeq(air, 1, n) = 1 .. 1 /\ SubSeq(air, 1, n)[1] = air[1]
      BY <2>4, <3>1
    <3>3. SubSeq(air, 1, n)[1] \in Range(SubSeq(air, 1, n))
      BY <3>2 DEF Range
    <3>4. \A x \in Range(SubSeq(air, 1, n)) : x = air[1]
      BY <3>2 DEF Range
    <3>. QED  BY <3>2, <3>3, <3>4
  <2>7. After(Outcome)
    BY <2>2, <2>4, <2>5, <2>6 DEF Collect, Verdicts
  <2>8. Outcome \in {"OK", "EIO"}
    BY <2>4, <2>5 DEF Verdicts
  <2>. QED  BY <1>6, <2>2, <2>3, <2>7, <2>8, AfterReports
            DEF Collect, modemVars, Verdicts, Requests!Next
<1>7. ASSUME punctual, TimeOut PROVE Requests!Next
  <2>1. Outcome = "lost"
    BY <1>7 DEF TimeOut, Outcome
  <2>. QED  BY <1>7, <2>1, AfterReports DEF TimeOut, modemVars, Requests!Next
<1>8. CASE Boots \/ (\E b \in BOOLEAN : ClearToSend(b)) \/ UNCHANGED vars
  <2>1. UNCHANGED <<punctual, pc, command, result, awake, toModem, air>>
    BY <1>8 DEF Boots, ClearToSend, shVars, modemVars, vars
  <2>2. Outcome' = Outcome
    BY <2>1 DEF Outcome
  <2>. QED  BY <2>1, <2>2 DEF Requests!vars
<1>9. ASSUME punctual, NEW v \in Verdicts, TakeCommand(v) PROVE Requests!Next
  <2>1. pc = "collect" /\ toModem = <<command>> /\ air = <<>>
    BY <1>9 DEF TakeCommand, PunctualInv, NothingLeftOver, Own
  <2>2. toModem' = <<>> /\ air' = (IF up THEN <<v>> ELSE <<>>)
        /\ awake' = (awake \/ (up /\ v = "OK" /\ command = "AT+KSLEEP=2"))
        /\ UNCHANGED <<punctual, pc, command, result>>
    BY <1>9, <2>1 DEF TakeCommand, shVars
  <2>3. Outcome = "none" /\ Outcome' = IF up THEN v ELSE "lost"
    BY <2>1, <2>2 DEF Outcome
  <2>4. command # "nothing"
    BY DEF TypeOK, Commands
  <2>5. Requests!Decide(IF up THEN v ELSE "lost")
    BY <1>9, <2>1, <2>2, <2>3, <2>4 DEF Requests!Decide
  <2>. QED  BY <2>5 DEF Requests!Next, Verdicts
<1>. QED  BY <1>2, <1>3, <1>4, <1>5, <1>6, <1>7, <1>8, <1>9 DEF Next, Modem

(* For a modem that answers in time or not at all, power on is a chain of     *)
(* requests, each of which is reported as what the modem made of it: no     *)
(* answer counts for another command.                                       *)
THEOREM RequestsImplemented == Spec => ImplementsRequests
<1>1. Init => Requests!Init
  BY DEF Init, Requests!Init, Outcome
<1>2. TypeOK /\ PunctualInv /\ [Next]_vars => [Requests!Next]_Requests!vars
  BY RequestStep
<1>. QED
  BY <1>1, <1>2, TypeCorrect, PunctualCorrect, PTL
     DEF Spec, ImplementsRequests, Requests!Spec

(* The abstraction is strong enough for what power on promises: where each    *)
(* request is answered for itself, OK means that sleep is off.              *)
THEOREM RequestsSuffice == Requests!Spec => []Requests!OkMeansAwake
<1>. USE DEF Requests!RequestInv, Requests!OkMeansAwake, Requests!Requests
<1>1. Requests!Init => Requests!RequestInv
  BY DEF Requests!Init
<1>2. Requests!RequestInv /\ [Requests!Next]_Requests!vars => Requests!RequestInv'
  <2>. SUFFICES ASSUME Requests!RequestInv, [Requests!Next]_Requests!vars
                PROVE  Requests!RequestInv'
    OBVIOUS
  <2>1. CASE Requests!PowerOn
    BY <2>1 DEF Requests!PowerOn
  <2>2. ASSUME NEW o \in {"OK", "EIO", "lost"}, Requests!Decide(o)
        PROVE  Requests!RequestInv'
    BY <2>2 DEF Requests!Decide
  <2>3. CASE Requests!Report
    BY <2>3 DEF Requests!Report, Requests!Reported
  <2>4. CASE UNCHANGED Requests!vars
    BY <2>4 DEF Requests!vars
  <2>. QED  BY <2>1, <2>2, <2>3, <2>4 DEF Requests!Next
<1>3. Requests!RequestInv => Requests!OkMeansAwake
  OBVIOUS
<1>. QED  BY <1>1, <1>2, <1>3, PTL DEF Requests!Spec
=============================================================================
