--------------------------- MODULE ModemCommands ---------------------------
(***************************************************************************)
(* What a user of `modem status`, `modem power`, `modem reset` and `modem  *)
(* at` is told, and what is sent on his behalf: the commands of            *)
(* modem-shell-core.c on the board of modem-board.c and one of the AT       *)
(* senders.  How the exchange itself goes is ModemAtIrq's and ModemAtPoll's *)
(* matter, how the power sequences go ModemBoard's; here an exchange and a  *)
(* sequence are their results.                                             *)
(*                                                                         *)
(* An argument is a sequence of tokens: a blank, the word --debug, a quote  *)
(* of either kind, any other text.  What the shell does with a backslash    *)
(* and with a word for itself (-h) is not modelled.                        *)
(***************************************************************************)
EXTENDS Integers, Sequences

CONSTANTS
  MaxText,      \* bound: tokens of the arguments of an `at`
  Samples,      \* ADC samples to tell apart: 12 bits, none is negative
  SenderSets    \* which of the ops' senders are there

ASSUME CommandsAssumption ==
  /\ MaxText \in Nat
  /\ Samples \subseteq 0 .. 4095
  /\ SenderSets \subseteq SUBSET {"plain", "runtime", "power_on"}

Tokens == {"sp", "debug", "dq", "sq", "text"}
Texts  == UNION {[1 .. n -> Tokens] : n \in 0 .. MaxText}

(* What the shell makes of the line behind `at`, a command with one argument *)
(* and a raw rest.  argv[1] is the first word without the quotes that made  *)
(* it one, so that it may be any text: blanks were in quotes, quotes in     *)
(* those of the other kind.  If more was typed, argv[2] is all of it as it  *)
(* is, quotes included, without the blanks at both its ends.                *)
Rests     == {t \in Texts : t # <<>> /\ t[1] # "sp" /\ t[Len(t)] # "sp"}
Arguments == {<<word>> : word \in Texts}
               \cup {a \in Texts \X Rests : Len(a[1]) + Len(a[2]) <= MaxText}

VARIABLES
  senders,         \* the senders configured in the ops: fixed at build time
  ready,           \* the board's devices are ready: decided at boot
  vgpioConfigured, \* get_vgpio_mv's flag
  adcSetUp,        \* the ADC's channel has been set up
  rail,            \* the modem is powered
  pc,              \* where the shell thread is in a command
  typed,           \* the arguments of the running `at`
  parsed,          \* what it made of them: the command, debug asked for
  logging,         \* modemAtDebugShell # NULL
  st,              \* the last status read
  exchange,        \* the last AT exchange: result, response, how it ended
  lastReason,      \* lastDiagnostics.exitReason
  report           \* what the last command told the user

boardVars == <<senders, ready, vgpioConfigured, adcSetUp, rail>>
parseVars == <<typed, parsed, logging>>
vars      == <<boardVars, pc, parseVars, st, exchange, lastReason, report>>

NoCommand == <<"none">>
Nothing   == [command |-> NoCommand, debug |-> FALSE]

---------------------------------------------------------------------------
(* The two parsers of the debug option.                                     *)

(* The text without its leading blanks, quotes of one kind around it.       *)
TrimBlanks(s) ==
  LET words == {i \in 1 .. Len(s) : s[i] # "sp"}
      first == IF words = {} THEN Len(s) + 1 ELSE CHOOSE i \in words : \A j \in words : i <= j
  IN SubSeq(s, first, Len(s))

TrimQuotes(s) ==
  IF Len(s) >= 2 /\ s[1] = s[Len(s)] /\ s[1] \in {"dq", "sq"}
  THEN SubSeq(s, 2, Len(s) - 1)
  ELSE s

\* A bug to exclude: the option is whatever begins like it.
BeginsLikeOption(s) == s # <<>> /\ s[1] = "debug"

StartsWithOption(s) ==
  /\ s # <<>> /\ s[1] = "debug"
  /\ Len(s) = 1 \/ s[2] = "sp"

(* modem_shell_parse_at_command: args are argv[1] and on.                   *)
Parse(args) ==
  LET Result(c, debug) == [command |-> IF c = <<>> THEN NoCommand ELSE c, debug |-> debug]
      raw == TrimBlanks(args[1])
  IN IF args[1] = <<"debug">>
     THEN IF Len(args) = 1 THEN Result(<<>>, TRUE)
                           ELSE [command |-> args[2], debug |-> TRUE]
     ELSE IF Len(args) > 1 THEN [command |-> args[1], debug |-> FALSE]
     ELSE IF StartsWithOption(raw)
          THEN Result(TrimBlanks(TrimQuotes(TrimBlanks(Tail(raw)))), TRUE)
          ELSE Result(TrimBlanks(TrimQuotes(raw)), FALSE)

\* A bug to exclude: the shell's parser knows the option as a word of its own
\* only.
OptionWordOnly(args) == args[1] = <<"debug">>

(* modem_shell_at_debug_requested                                           *)
DebugRequested(args) ==
  \/ args[1] = <<"debug">>
  \/ Len(args) = 1 /\ StartsWithOption(TrimBlanks(args[1]))

---------------------------------------------------------------------------
(* The senders.                                                             *)

(* modem_shell_select_at_sender                                             *)
Selected(mode) ==
  IF mode = "power_on" /\ "power_on" \in senders THEN "power_on"
  ELSE IF "runtime" \in senders THEN "runtime"
  ELSE IF "plain" \in senders THEN "plain"
  ELSE "none"

(* What comes back: of the interrupt path (runtime, power_on) and of the     *)
(* polling path (plain), which returns 0 for anything it received and which *)
(* alone keeps diagnostics.                                                 *)
Answer(ret, response, reason) == [ret |-> ret, response |-> response, reason |-> reason]

IrqAnswers ==
  {Answer("OK", "text", "ok"), Answer("EIO", "text", "error"),
   Answer("ETIMEDOUT", "none", "timeout"), Answer("ETIMEDOUT", "text", "timeout"),
   Answer("ENODEV", "none", "none")}

PollAnswers ==
  {Answer("OK", response, "timeout") : response \in {"none", "echo", "text"}}
    \cup {Answer("OK", response, reason) : response \in {"echo", "text"}, reason \in {"ok", "error"}}
    \cup {Answer("ENOSPC", response, "full") : response \in {"none", "text"}}
    \cup {Answer("EIO", response, "uart") : response \in {"none", "text"}}
    \cup {Answer("ETIMEDOUT", "none", "timeout"), Answer("ENODEV", "none", "none")}

Answers(sender) ==
  CASE sender = "plain" -> PollAnswers
    [] sender = "none"  -> {Answer("ENOSYS", "none", "none")}
    [] OTHER            -> IrqAnswers

NoAnswer == Answer("OK", "none", "none")

(* An exchange through the mode's sender.  Without its device the polling    *)
(* path returns before it resets its diagnostics.                           *)
Exchange(mode) ==
  /\ exchange' \in Answers(Selected(mode))
  /\ lastReason' = IF Selected(mode) = "plain" /\ exchange'.ret # "ENODEV"
                   THEN exchange'.reason ELSE lastReason

---------------------------------------------------------------------------
(* The board.                                                               *)

AdcError  == -5
Threshold == 900

(* BIT(12) is unsigned, which is the same for the samples there are.        *)
MilliVolts(sample) == (sample * 3300) \div 4096

(* get_vgpio_mv's flag after an attempt to set the channel up, where needed. *)
\* A bug to exclude: one attempt is enough, successful or not.
FlagAfterAttempt(setupOK) == TRUE

FlagAfter(setupOK) == vgpioConfigured \/ setupOK

(* modem_board_get_status: each GPIO and ADC call may fail on its own, which *)
(* makes that field an error and not the status.                            *)
ReadStatus(gpioOK, setupOK, readOK, sample) ==
  /\ vgpioConfigured' = FlagAfter(setupOK)
  /\ adcSetUp' = (adcSetUp \/ (~vgpioConfigured /\ setupOK))
  /\ st' = [rail   |-> IF ~gpioOK THEN "error" ELSE IF rail THEN "on" ELSE "off",
            mv     |-> IF (vgpioConfigured \/ setupOK) /\ readOK
                       THEN MilliVolts(sample) ELSE AdcError,
            sample |-> IF (vgpioConfigured \/ setupOK) /\ readOK THEN sample ELSE 0]
  /\ UNCHANGED <<senders, ready, rail>>

NoStatus == [rail |-> "off", mv |-> AdcError, sample |-> 0]

---------------------------------------------------------------------------
Say(text) == [text |-> text, vgpio |-> "none", debug |-> FALSE, reason |-> "none"]

(* The state is OFF of a voltage that could not be read, too: shown as ERR.  *)
SayState(mv) ==
  [Say(IF mv >= Threshold THEN "state_on" ELSE "state_off")
     EXCEPT !.vgpio = IF mv < 0 THEN "err" ELSE "mv"]

Init ==
  /\ senders \in SenderSets
  /\ ready \in BOOLEAN
  /\ vgpioConfigured = FALSE
  /\ adcSetUp = FALSE
  /\ rail = FALSE
  /\ pc = "prompt"
  /\ typed = <<>> /\ parsed = Nothing /\ logging = FALSE
  /\ st = NoStatus
  /\ exchange = NoAnswer
  /\ lastReason = "none"
  /\ report = Say("nothing")

(* A command says what it has to say and returns to the prompt.             *)
Finish(what) ==
  /\ pc' = "prompt"
  /\ report' = what
  /\ typed' = <<>> /\ parsed' = Nothing /\ logging' = FALSE

(* cmd_modem_status                                                         *)
CmdStatus(gpioOK, setupOK, readOK, sample) ==
  /\ pc = "prompt"
  /\ IF ready
     THEN /\ ReadStatus(gpioOK, setupOK, readOK, sample)
          /\ Finish(SayState(st'.mv))
     ELSE Finish(Say("status_failed")) /\ UNCHANGED <<boardVars, st>>
  /\ exchange' = NoAnswer
  /\ UNCHANGED lastReason

(* cmd_modem_reset: ModemBoard has the pulse.                               *)
CmdReset(ok) ==
  /\ pc = "prompt"
  /\ Finish(Say(IF ready /\ ok THEN "OK" ELSE "reset_failed"))
  /\ st' = NoStatus /\ exchange' = NoAnswer
  /\ UNCHANGED <<boardVars, lastReason>>

(* cmd_modem_power: the sequence may fail with the rail on or off (see       *)
(* ModemBoard); after on and cycle come the exchanges of ModemPowerOn, of   *)
(* which the last one counts here.                                         *)
MayLeave(o) == CASE o = "on" -> {TRUE} [] o = "off" -> {} [] o = "cycle" -> BOOLEAN

CmdPower(o, ok) ==
  /\ pc = "prompt"
  /\ IF ready /\ ok THEN rail' = (o # "off")
     ELSE rail' \in {rail} \cup (IF ready THEN MayLeave(o) ELSE {})
  /\ IF ready /\ ok /\ o # "off"
     THEN /\ Exchange("power_on")
          /\ Finish(Say(IF exchange'.ret = "OK" THEN "OK" ELSE "power_failed"))
     ELSE /\ Finish(Say(IF ready /\ ok THEN "OK" ELSE "power_failed"))
          /\ exchange' = NoAnswer
          /\ UNCHANGED lastReason
  /\ st' = NoStatus
  /\ UNCHANGED <<senders, ready, vgpioConfigured, adcSetUp>>

(* cmd_modem_at: both parsers, then the status, the exchange, the answer.    *)
CmdAt(args) ==
  /\ pc = "prompt"
  /\ IF Parse(args).command = NoCommand
     THEN Finish(Say("usage"))
     ELSE /\ pc' = "at_status"
          /\ typed' = args
          /\ parsed' = Parse(args)
          /\ logging' = DebugRequested(args)
          /\ report' = Say("nothing")
  /\ st' = NoStatus /\ exchange' = NoAnswer
  /\ UNCHANGED <<boardVars, lastReason>>

\* A bug to exclude: anything but a rail read as off will do.
PoweredUnlessOff == st'.rail # "off"

Powered == st'.rail = "on"

AtStatus(gpioOK, setupOK, readOK, sample) ==
  /\ pc = "at_status"
  /\ IF ready
     THEN /\ ReadStatus(gpioOK, setupOK, readOK, sample)
          /\ IF Powered THEN pc' = "at_send" /\ UNCHANGED <<parseVars, report>>
                        ELSE Finish(Say("not_powered"))
     ELSE Finish(Say("status_failed")) /\ UNCHANGED <<boardVars, st>>
  /\ UNCHANGED <<exchange, lastReason>>

AtSend ==
  /\ pc = "at_send"
  /\ Exchange("runtime")
  /\ pc' = "at_report"
  /\ UNCHANGED <<boardVars, parseVars, st, report>>

AtReport ==
  /\ pc = "at_report"
  /\ LET debug   == logging \/ parsed.debug
         failure == IF debug /\ exchange.response # "none" THEN "raw_response"
                    ELSE IF exchange.ret = "ETIMEDOUT" THEN "timed_out" ELSE "failed"
         success == IF exchange.response = "none" THEN "empty_response"
                    ELSE IF debug /\ exchange.response = "echo" THEN "echo_only"
                    ELSE "response"
         text    == IF exchange.ret = "OK" THEN success ELSE failure
     IN Finish([Say(text) EXCEPT !.debug = debug,
                                 !.reason = IF debug THEN lastReason ELSE "none"])
  /\ UNCHANGED <<boardVars, st, exchange, lastReason>>

Next ==
  \/ \E gpioOK, setupOK, readOK \in BOOLEAN, sample \in Samples :
       \/ CmdStatus(gpioOK, setupOK, readOK, sample)
       \/ AtStatus(gpioOK, setupOK, readOK, sample)
  \/ \E ok \in BOOLEAN : CmdReset(ok) \/ \E o \in {"on", "off", "cycle"} : CmdPower(o, ok)
  \/ \E args \in Arguments : CmdAt(args)
  \/ AtSend \/ AtReport

Spec == Init /\ [][Next]_vars

---------------------------------------------------------------------------
(* Properties.                                                              *)

(* Two functions look for the option, one for the log of the exchange, one   *)
(* for the output and the command: they always agree.                       *)
ParsersAgree == pc \in {"at_status", "at_send", "at_report"} => (logging <=> parsed.debug)

(* What the parser p keeps of one piece is the piece from some place to      *)
(* another: before it only blanks, the option as a word and an opening       *)
(* quote, after it only the closing one.  It neither begins with a blank     *)
(* nor is empty.                                                            *)
SentFrom(piece, p) ==
  LET n == Len(piece)
  IN \E i \in 1 .. n, j \in 1 .. n :
       /\ i <= j /\ p.command = SubSeq(piece, i, j)
       /\ piece[i] # "sp"
       /\ \A k \in 1 .. i - 1 :
            \/ piece[k] = "sp"
            \/ piece[k] = "debug" /\ p.debug /\ piece[k + 1] = "sp"
                 /\ \A l \in 1 .. k - 1 : piece[l] = "sp"
            \/ j = n - 1 /\ piece[k] = piece[n] /\ piece[k] \in {"dq", "sq"}
                 /\ \A l \in k + 1 .. i - 1 : piece[l] = "sp"
       /\ j \in {n - 1, n}
       /\ j = n - 1 => \E k \in 1 .. i - 1 : piece[k] = piece[n]

(* What is sent of what was typed, however the shell has split it.  One      *)
(* piece: that piece, but for blanks, the option and a pair of quotes.  The *)
(* option and a rest: the rest as it is, quotes included.  Two pieces       *)
(* without the option: the first only; the second is lost without a word.   *)
SentAsTyped ==
  pc = "at_send" =>
    \/ Len(typed) = 1 /\ SentFrom(typed[1], parsed)
    \/ parsed.debug /\ typed = <<<<"debug">>, parsed.command>>
    \/ ~parsed.debug /\ Len(typed) = 2 /\ typed[1] = parsed.command

(* ON is said only of a voltage that was measured, on a channel that was set *)
(* up, however often the set-up failed before, and so is OFF, unless ERR     *)
(* beside it says that nothing was measured.  Both are true of that voltage: *)
(* ON is 900 mV or more at a reference of 3300 mV and 12 bits.              *)
StateIsTrue ==
  /\ report.text = "state_on" => adcSetUp /\ st.sample * 3300 >= Threshold * 4096
  /\ report.text = "state_off" =>
       report.vgpio = "err" \/ (adcSetUp /\ st.sample * 3300 < Threshold * 4096)

(* Nothing is sent to a modem without power, unreadable rails included.      *)
SentOnlyPowered == pc = "at_send" => rail

(* What the test "modem at debug prints timeout diagnostics" expects of the  *)
(* program: a debug report names the reason its exchange ended for.         *)
DebugTellsWhy == report.debug => report.reason = exchange.reason
=============================================================================
