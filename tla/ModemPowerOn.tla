---------------------------- MODULE ModemPowerOn ----------------------------
(***************************************************************************)
(* `modem power on|cycle` after the pins: modem-shell-core.c waits for the  *)
(* modem to boot, sends AT up to three times until one is answered, and     *)
(* then AT+KSLEEP=2 to switch sleep off.  Each is an exchange of            *)
(* ModemAtIrq, here seen from outside: write, then an answer or a timeout.  *)
(*                                                                         *)
(* The modem boots in its own time, takes a command when it likes, raises   *)
(* and drops CTS, and answers late.  An exchange that timed out leaves its  *)
(* command with the modem.  Opening the next empties the ring but nothing   *)
(* empties the hardware FIFO, and no answer says which command it is for:   *)
(* a late one is taken for the answer to the next command.                  *)
(***************************************************************************)
EXTENDS Naturals, Sequences, Functions

CONSTANT MaxLine   \* bound: commands, and answers, on their way at a time

ASSUME LineAssumption == MaxLine \in Nat \ {0}

SyncRetries == 3   \* MODEM_AT_SYNC_RETRIES

Commands == {"AT", "AT+KSLEEP=2"}
Verdicts == {"OK", "EIO"}

VARIABLES
  punctual,  \* this modem answers, or loses, a command before its timeout
  pc,        \* where the shell thread is
  command,   \* the command of the exchange it is in
  attempt,   \* how many AT it has sent since power on
  result,    \* what the last exchange, or the last command, returned
  cts,       \* the modem lets the UART transmit
  up,        \* the modem has booted
  awake,     \* history: since power on, the modem has accepted AT+KSLEEP=2
  toModem,   \* commands written that the modem has not taken
  air        \* answers that arrived and nobody has read

shVars    == <<pc, command, attempt, result>>
modemVars == <<cts, up, awake>>
vars == <<punctual, shVars, modemVars, toModem, air>>

TypeOK ==
  /\ punctual \in BOOLEAN
  /\ pc \in {"prompt", "write", "collect"}
  /\ command \in Commands
  /\ attempt \in 0 .. SyncRetries
  /\ result \in {"OK", "EIO", "ENODEV", "ETIMEDOUT"}
  /\ cts \in BOOLEAN /\ up \in BOOLEAN /\ awake \in BOOLEAN
  /\ toModem \in Seq(Commands) /\ Len(toModem) <= MaxLine
  /\ air \in Seq(Verdicts) /\ Len(air) <= MaxLine

Init ==
  /\ punctual \in BOOLEAN
  /\ pc = "prompt" /\ command = "AT" /\ attempt = 0 /\ result = "ENODEV"
  /\ cts = FALSE /\ up = FALSE /\ awake = FALSE
  /\ toModem = <<>> /\ air = <<>>

---------------------------------------------------------------------------
(* The shell thread.                                                        *)

Exchange(c, n) == pc' = "write" /\ command' = c /\ attempt' = n

(* modem_shell_cmd_power_core up to the first AT.  The pins may fail; either *)
(* way the modem may start anew, and of what was under way any part be lost.*)
PowerOn(boardOK, restarts) ==
  /\ pc = "prompt"
  /\ IF boardOK
     THEN Exchange("AT", 1) /\ result' = "ETIMEDOUT"
     ELSE result' = "EIO" /\ UNCHANGED <<pc, command, attempt>>
  /\ up' = (up /\ ~restarts)
  /\ awake' = FALSE
  /\ toModem' \in {toModem} \cup (IF restarts THEN {<<>>} ELSE {})
  /\ air' \in {air} \cup (IF restarts THEN {<<>>} ELSE {})
  /\ UNCHANGED <<punctual, cts>>

\* A bug to exclude: one AT too many.
AfterOneMore(r) ==
  /\ result' = r
  /\ IF command = "AT" /\ r = "OK"
     THEN Exchange("AT+KSLEEP=2", attempt)
     ELSE IF command = "AT" /\ attempt <= SyncRetries
     THEN Exchange("AT", attempt + 1)
     ELSE pc' = "prompt" /\ UNCHANGED <<command, attempt>>

\* A bug to exclude: the result of AT+KSLEEP=2 is not looked at.
AfterUnchecked(r) ==
  /\ result' = IF command = "AT" THEN r ELSE "OK"
  /\ IF command = "AT" /\ r = "OK"
     THEN Exchange("AT+KSLEEP=2", attempt)
     ELSE IF command = "AT" /\ attempt < SyncRetries
     THEN Exchange("AT", attempt + 1)
     ELSE pc' = "prompt" /\ UNCHANGED <<command, attempt>>

(* After an exchange that returned r.                                       *)
After(r) ==
  /\ result' = r
  /\ IF command = "AT" /\ r = "OK"
     THEN Exchange("AT+KSLEEP=2", attempt)
     ELSE IF command = "AT" /\ attempt < SyncRetries
     THEN Exchange("AT", attempt + 1)
     ELSE pc' = "prompt" /\ UNCHANGED <<command, attempt>>

(* Opening the receive path or the device fails.                            *)
NotReady ==
  /\ pc = "write"
  /\ After("ENODEV")
  /\ UNCHANGED <<punctual, modemVars, toModem, air>>

(* The write waits, byte by byte, until the modem lets it.                  *)
Write ==
  /\ pc = "write" /\ cts /\ Len(toModem) < MaxLine
  /\ toModem' = Append(toModem, command)
  /\ pc' = "collect"
  /\ UNCHANGED <<punctual, command, attempt, result, modemVars, air>>

(* The first n answers are read and decide: OK if one of them is.  The next  *)
(* `dropped` were in the ring when closing the session emptied it; the      *)
(* others are in the FIFO still.                                            *)
Collect(n, dropped) ==
  /\ pc = "collect"
  /\ After(IF "OK" \in Range(SubSeq(air, 1, n)) THEN "OK" ELSE "EIO")
  /\ air' = SubSeq(air, n + dropped + 1, Len(air))
  /\ UNCHANGED <<punctual, modemVars, toModem>>

\* A bug to exclude: there is no timeout before the first byte.
NeverTimesOut ==
  /\ pc = "collect" /\ air # <<>>
  /\ After("ETIMEDOUT")
  /\ UNCHANGED <<punctual, modemVars, toModem, air>>

\* A bug to exclude: the timeout is shorter than the modem may take.
TimesOutTooSoon ==
  /\ pc = "collect" /\ air = <<>>
  /\ After("ETIMEDOUT")
  /\ UNCHANGED <<punctual, modemVars, toModem, air>>

(* Silence.  A punctual modem is silent only when it has lost the command.  *)
TimeOut ==
  /\ pc = "collect" /\ air = <<>>
  /\ punctual => toModem = <<>>
  /\ After("ETIMEDOUT")
  /\ UNCHANGED <<punctual, modemVars, toModem, air>>

---------------------------------------------------------------------------
(* The modem.                                                               *)

Boots == ~up /\ up' = TRUE /\ UNCHANGED <<punctual, shVars, cts, awake, toModem, air>>

ClearToSend(b) ==
  /\ cts # b
  /\ cts' = b
  /\ UNCHANGED <<punctual, shVars, up, awake, toModem, air>>

(* Before it has booted a modem loses what it is sent.                      *)
TakeCommand(verdict) ==
  /\ toModem # <<>> /\ Len(air) < MaxLine
  /\ toModem' = Tail(toModem)
  /\ air' = IF up THEN Append(air, verdict) ELSE air
  /\ awake' = (awake \/ (up /\ verdict = "OK" /\ Head(toModem) = "AT+KSLEEP=2"))
  /\ UNCHANGED <<punctual, shVars, cts, up>>

---------------------------------------------------------------------------
CollectAny == \E n \in 1 .. Len(air) : \E dropped \in 0 .. Len(air) - n : Collect(n, dropped)

Modem == Boots \/ (\E b \in BOOLEAN : ClearToSend(b)) \/ \E v \in Verdicts : TakeCommand(v)

Next ==
  \/ \E boardOK, restarts \in BOOLEAN : PowerOn(boardOK, restarts)
  \/ NotReady \/ Write \/ CollectAny \/ TimeOut
  \/ Modem

Spec == Init /\ [][Next]_vars

(* The shell thread runs on, and in the end a modem takes, or loses, what it *)
(* is sent.  Nothing is assumed of CTS: the modem may hold it for ever.     *)
FairSpec ==
  /\ Spec
  /\ SF_vars(Write)
  /\ WF_vars(CollectAny \/ TimeOut)
  /\ WF_vars(\E v \in Verdicts : TakeCommand(v))

---------------------------------------------------------------------------
(* Properties.                                                              *)

(* `power on` says OK only if the modem has accepted AT+KSLEEP=2 since that  *)
(* power on, provided every answer comes before its command's timeout, or   *)
(* not at all.  With a late modem it may say OK to a modem that goes to     *)
(* sleep: the answer to a repeated AT counts for AT+KSLEEP=2.               *)
OkMeansAwake == punctual /\ pc = "prompt" /\ result = "OK" => awake

(* What the test "modem power reports sleep-disable failures after           *)
(* successful power on" says of the program, of late modems as well.        *)
SleepFailureIsReported == pc = "prompt" /\ result = "OK" => awake

(* With a punctual modem no answer is left for a later exchange.            *)
NothingLeftOver ==
  punctual /\ pc # "collect" => toModem = <<>> /\ air = <<>>

(* With such a modem the exchanges are the requests of PowerOnRequests, each  *)
(* answered for itself: this module implements it.  Of any other modem it   *)
(* says nothing, so that such a behaviour is mapped to one where nobody asks.*)
Outcome ==
  IF pc # "collect" \/ toModem # <<>> THEN "none"
  ELSE IF air = <<>> THEN "lost" ELSE Head(air)

Requests == INSTANCE PowerOnRequests WITH
  asking  <- IF punctual /\ pc # "prompt" THEN command ELSE "nothing",
  outcome <- IF punctual THEN Outcome ELSE "none",
  result  <- IF punctual THEN result ELSE "ENODEV",
  awake   <- punctual /\ awake

ImplementsRequests == Requests!Spec

(* However late or silent the modem is, the command comes to an end: the     *)
(* retries are bounded, and so is each exchange's wait for a first byte.    *)
(* Only a modem that never lets the UART transmit again holds it, in the     *)
(* write, for ever.                                                        *)
PowerOnReturns == []<>(pc = "prompt") \/ <>[](pc = "write" /\ ~cts)
=============================================================================
