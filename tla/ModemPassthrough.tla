-------------------------- MODULE ModemPassthrough --------------------------
(***************************************************************************)
(* Who uses the modem UART, and when: the commands of modem-shell.c that   *)
(* take the receive path of ModemUartRx.  Three actors share it.           *)
(*                                                                         *)
(*   the shell thread    one command at a time (one serial backend): `at`, *)
(*                       the AT exchanges of `power on|cycle`, and         *)
(*                       `passthrough`, during which typed input goes to   *)
(*                       modem_passthrough_bypass_cb instead of the parser *)
(*   the RX thread       created by the first `passthrough`, never ends;   *)
(*                       prints what the ring holds while a session is on  *)
(*   the interrupt       moves the hardware FIFO into the ring at any time *)
(*                       between two steps of the threads                  *)
(*                                                                         *)
(* No lock protects the shared variables.  What keeps the threads apart is *)
(* priority: the RX thread (7) preempts the shell thread (lowest), so the  *)
(* shell runs only while the RX thread sleeps or waits for the shell's     *)
(* transmit buffer.  ShellMayRun is that rule.                             *)
(***************************************************************************)
EXTENDS ModemUartRx, FiniteSets

CONSTANT
  Binary     \* the bytes that are no text: they are shown as <XX>

ASSUME BinaryAssumption == Binary \subseteq Bytes

VARIABLES
  pc,        \* where the shell thread is
  stage,     \* which AT exchange of the current command it is in
  result,    \* what the last finished command or exchange returned
  active,    \* passthroughActive
  shellSet,  \* passthroughShell # NULL
  bypass,    \* the shell hands typed input to modem_passthrough_bypass_cb
  rx,        \* where the RX thread is; "none": not created yet
  rxBuf,     \* the chunk on the RX thread's stack
  printed    \* history: the bytes the RX thread has printed

shVars == <<pc, stage, result, active, shellSet, bypass>>
rtVars == <<rx, rxBuf, printed>>
vars == <<rxVars, shVars, rtVars>>

AtPc   == {"at_open", "at_write", "at_collect", "at_close"}
PtPc   == {"pt_acquire", "pt_publish", "pt_install", "typed_write"}
StopPc == {"stop_flag", "stop_release", "stop_bypass", "stop_clear"}

(* The AT exchanges of a command: `at` has one; `power on` and `power cycle` *)
(* send AT up to three times and then AT+KSLEEP=2.                          *)
Stages  == {"single", "sync1", "sync2", "sync3", "ksleep"}
Results == {"OK", "EINVAL", "EIO", "EHOSTDOWN", "ENODEV", "EBUSY", "ETIMEDOUT"}

TypeOK ==
  /\ RxTypeOK
  /\ pc \in {"prompt"} \cup AtPc \cup PtPc \cup StopPc
  /\ stage \in Stages
  /\ result \in Results
  /\ active \in BOOLEAN
  /\ shellSet \in BOOLEAN
  /\ bypass \in BOOLEAN
  /\ rx \in {"none", "check", "get", "use", "tx", "sleep"}
  /\ rxBuf \in Seq(Bytes) /\ Len(rxBuf) <= ChunkSize
  /\ printed \in Seq(Bytes)

Init ==
  /\ RxInit
  /\ pc = "prompt"
  /\ stage = "single"
  /\ result = "OK"
  /\ active = FALSE
  /\ shellSet = FALSE
  /\ bypass = FALSE
  /\ rx = "none"
  /\ rxBuf = <<>>
  /\ printed = <<>>

---------------------------------------------------------------------------
(* Scheduling.                                                              *)

\* A bug to exclude: an RX thread no more urgent than the shell thread.
ShellMayAlwaysRun == TRUE

ShellMayRun == rx \in {"none", "sleep", "tx"}

ShellAt(p) == pc = p /\ ShellMayRun

(* The command returns r to the prompt.                                     *)
Return(r) == pc' = "prompt" /\ result' = r /\ UNCHANGED stage

Step(p) == pc' = p /\ UNCHANGED <<stage, result>>

---------------------------------------------------------------------------
(* The AT commands.                                                         *)

(* What the board said of itself to a command that asked: unreadable,       *)
(* rail off, rail on.                                                       *)
BoardAnswers == {"unreadable", "off", "on"}

(* cmd_modem_at: `argsOK` says whether a command was parsed out of argv.    *)
CmdAt(argsOK, board) ==
  /\ ShellAt("prompt") /\ ~bypass
  /\ IF owner # "none" THEN Return("EBUSY")
     ELSE IF ~argsOK THEN Return("EINVAL")
     ELSE IF board = "unreadable" THEN Return("EIO")
     ELSE IF board = "off" THEN Return("EHOSTDOWN")
     ELSE pc' = "at_open" /\ stage' = "single" /\ UNCHANGED result
  /\ UNCHANGED <<rxVars, rtVars, active, shellSet, bypass>>

(* cmd_modem_power for on and cycle: the pins first (they may fail), then   *)
(* the AT exchanges.  `power off` uses no UART and is ModemBoard's.         *)
CmdPowerOn(boardOK) ==
  /\ ShellAt("prompt") /\ ~bypass
  /\ IF owner # "none" THEN Return("EBUSY")
     ELSE IF ~boardOK THEN Return("EIO")
     ELSE pc' = "at_open" /\ stage' = "sync1" /\ UNCHANGED result
  /\ UNCHANGED <<rxVars, rtVars, active, shellSet, bypass>>

(* After an exchange that returned r: an AT that failed is sent again, at   *)
(* most three times in all; one that succeeded is followed by AT+KSLEEP=2.  *)
After(r) ==
  LET next == CASE stage \in {"sync1", "sync2", "sync3"} /\ r = "OK" -> "ksleep"
                [] stage = "sync1" /\ r # "OK" -> "sync2"
                [] stage = "sync2" /\ r # "OK" -> "sync3"
                [] OTHER -> "done"
  IN /\ result' = r
     /\ IF next = "done" THEN pc' = "prompt" /\ UNCHANGED stage
                         ELSE pc' = "at_open" /\ stage' = next

(* modem_uart_irq_at_session_open                                           *)
AtOpen ==
  /\ ShellAt("at_open")
  /\ IF MayAcquire THEN Acquire("at") /\ Step("at_write")
                   ELSE FailToAcquire /\ After(AcquireError)
  /\ UNCHANGED <<rtVars, active, shellSet, bypass>>

(* modem_at_irq_write_command: it fails only if the device is not ready,    *)
(* and then the session is closed before the error is returned.  Each byte  *)
(* waits in uart_poll_out, without a timeout, while the modem holds CTS: the *)
(* step is the last byte's, and nothing says that it ever comes.            *)
AtWrite ==
  /\ ShellAt("at_write")
  /\ IF uartReady THEN Step("at_collect") /\ UNCHANGED rxVars
                  ELSE Release("at") /\ After("ENODEV")
  /\ UNCHANGED <<rtVars, active, shellSet, bypass>>

(* modem_at_irq_collect_response: a chunk without a final result keeps the  *)
(* loop going, one with it ends it, and so does silence.  ModemAtIrq tells  *)
(* which answer ends it how.                                                *)
AtReadMore ==
  /\ ShellAt("at_collect") /\ ring # <<>>
  /\ Take
  /\ UNCHANGED <<shVars, rtVars>>

AtReadFinal(r) ==
  /\ ShellAt("at_collect") /\ ring # <<>>
  /\ Take
  /\ pc' = "at_close" /\ result' = r
  /\ UNCHANGED <<stage, rtVars, active, shellSet, bypass>>

\* A bug to exclude: without a first byte the loop waits for ever.
AtTimeoutOnlyAfterByte ==
  /\ ShellAt("at_collect") /\ ring = <<>> /\ accepted # {}
  /\ pc' = "at_close" /\ result' = "ETIMEDOUT"
  /\ UNCHANGED <<rxVars, stage, rtVars, active, shellSet, bypass>>

AtTimeout ==
  /\ ShellAt("at_collect") /\ ring = <<>>
  /\ pc' = "at_close" /\ result' = "ETIMEDOUT"
  /\ UNCHANGED <<rxVars, stage, rtVars, active, shellSet, bypass>>

\* A bug to exclude: the timeout path returns without closing the session.
AtCloseUnlessTimeout ==
  /\ ShellAt("at_close")
  /\ IF result = "ETIMEDOUT" THEN UNCHANGED rxVars ELSE Release("at")
  /\ After(result)
  /\ UNCHANGED <<rtVars, active, shellSet, bypass>>

(* modem_uart_irq_at_session_close                                          *)
AtClose ==
  /\ ShellAt("at_close")
  /\ Release("at")
  /\ After(result)
  /\ UNCHANGED <<rtVars, active, shellSet, bypass>>

---------------------------------------------------------------------------
(* The passthrough command.                                                 *)

(* cmd_modem_passthrough up to the thread: the checks in the code's order.  *)
CmdPassthrough(argsOK, board) ==
  /\ ShellAt("prompt") /\ ~bypass
  /\ LET refused == IF ~argsOK THEN "EINVAL"
                    ELSE IF board = "unreadable" THEN "EIO"
                    ELSE IF board = "off" THEN "EHOSTDOWN"
                    ELSE IF ~uartReady THEN "ENODEV"
                    ELSE IF active \/ owner # "none" THEN "EBUSY"
                    ELSE "OK"
     IN IF refused # "OK"
        THEN Return(refused) /\ UNCHANGED rx
        ELSE Step("pt_acquire") /\ rx' = IF rx = "none" THEN "check" ELSE rx
  /\ UNCHANGED <<rxVars, rxBuf, printed, active, shellSet, bypass>>

PtAcquire ==
  /\ ShellAt("pt_acquire")
  /\ IF MayAcquire THEN Acquire("passthrough") /\ Step("pt_publish")
                   ELSE FailToAcquire /\ Return(AcquireError)
  /\ UNCHANGED <<rtVars, active, shellSet, bypass>>

(* passthroughShell is set, then passthroughActive; the RX thread tests     *)
(* both, so it starts at the second one.                                    *)
PtPublish ==
  /\ ShellAt("pt_publish")
  /\ shellSet' = TRUE
  /\ active' = TRUE
  /\ Step("pt_install")
  /\ UNCHANGED <<rxVars, rtVars, bypass>>

(* The banner, which may wait for the transmit buffer, is behind it.        *)
PtInstall ==
  /\ ShellAt("pt_install")
  /\ bypass' = TRUE
  /\ Return("OK")
  /\ UNCHANGED <<rxVars, rtVars, active, shellSet>>

(* modem_passthrough_bypass_cb: typed data goes to the modem, the escape     *)
(* (PassthroughEscape says which input is one) or a failing UART stops.     *)
TypedData ==
  /\ ShellAt("prompt") /\ bypass
  /\ Step(IF ~active THEN "prompt" ELSE IF uartReady THEN "typed_write" ELSE "stop_flag")
  /\ UNCHANGED <<rxVars, rtVars, active, shellSet, bypass>>

(* modem_at_uart_write of that data: it waits for CTS as AtWrite does.      *)
TypedWrite ==
  /\ ShellAt("typed_write")
  /\ Step("prompt")
  /\ UNCHANGED <<rxVars, rtVars, active, shellSet, bypass>>

TypedEscape ==
  /\ ShellAt("prompt") /\ bypass
  /\ IF active THEN Step("stop_flag") ELSE Step("prompt")
  /\ UNCHANGED <<rxVars, rtVars, active, shellSet, bypass>>

(* modem_passthrough_stop, one step per statement another actor can tell.   *)
StopFlag ==
  /\ ShellAt("stop_flag")
  /\ active' = FALSE
  /\ Step(IF active THEN "stop_release" ELSE "prompt")
  /\ UNCHANGED <<rxVars, rtVars, shellSet, bypass>>

StopRelease ==
  /\ ShellAt("stop_release")
  /\ Release("passthrough")
  /\ Step("stop_bypass")
  /\ UNCHANGED <<rtVars, active, shellSet, bypass>>

\* A bug to exclude: the bypass is left installed.
StopLeavesBypass ==
  /\ ShellAt("stop_bypass")
  /\ Step("stop_clear")
  /\ UNCHANGED <<rxVars, rtVars, active, shellSet, bypass>>

StopBypass ==
  /\ ShellAt("stop_bypass")
  /\ bypass' = FALSE
  /\ Step("stop_clear")
  /\ UNCHANGED <<rxVars, rtVars, active, shellSet>>

(* The farewell is printed before this step and may wait.                   *)
StopClear ==
  /\ ShellAt("stop_clear")
  /\ shellSet' = FALSE
  /\ ring' = <<>>
  /\ Return("OK")
  /\ UNCHANGED <<uartReady, configured, owner, irqOn, fifo, sent, accepted,
                 rtVars, active, bypass>>

---------------------------------------------------------------------------
(* modem_passthrough_rx_thread                                              *)

\* A bug to exclude: the thread looks at the session only when it has data.
RxCheckNothing ==
  /\ rx = "check"
  /\ rx' = "get"
  /\ UNCHANGED <<rxVars, shVars, rxBuf, printed>>

RxCheck ==
  /\ rx = "check"
  /\ rx' = IF active /\ shellSet THEN "get" ELSE "sleep"
  /\ UNCHANGED <<rxVars, shVars, rxBuf, printed>>

RxGet ==
  /\ rx = "get"
  /\ rxBuf' = Chunk
  /\ Take
  /\ rx' = IF Chunk = <<>> THEN "sleep" ELSE "use"
  /\ UNCHANGED <<shVars, printed>>

(* passthroughShell is read for the call that prints.                       *)
RxUse ==
  /\ rx = "use"
  /\ rx' = "tx"
  /\ UNCHANGED <<rxVars, shVars, rxBuf, printed>>

(* What the printers make of a chunk.  Both build the text in a buffer on    *)
(* the stack and stop at the first byte that would fill it: that byte and   *)
(* the rest of the chunk never reach the screen.  TextEnd and TraceEnd say   *)
(* how much of the buffer the first i bytes take: one character or <XX> each *)
(* as text, two digits and a blank between in a debug session.              *)

\* A bug to exclude: a buffer for text only.
TextSizeOfText == ChunkSize + 1

TextSize  == 4 * ChunkSize + 1
TraceSize == 3 * ChunkSize + 1

TextEnd(s, i) == i + 3 * Cardinality({j \in 1 .. i : s[j] \in Binary})
TraceEnd(i)   == 3 * i - 1

PrintText(s)  == SubSeq(s, 1, Cardinality({i \in 1 .. Len(s) : TextEnd(s, i) < TextSize}))
PrintTrace(s) == SubSeq(s, 1, Cardinality({i \in 1 .. Len(s) : TraceEnd(i) < TraceSize}))

(* z_shell_print_stream returns; until then the thread may have waited.     *)
RxTx ==
  /\ rx = "tx"
  /\ printed' \in {printed \o PrintText(rxBuf), printed \o PrintTrace(rxBuf)}
  /\ rxBuf' = <<>>
  /\ rx' = "check"
  /\ UNCHANGED <<rxVars, shVars>>

\* A bug to exclude: a sleep that only a new session ends.
RxWakeWhenIdle ==
  /\ rx = "sleep" /\ ~active
  /\ rx' = "check"
  /\ UNCHANGED <<rxVars, shVars, rxBuf, printed>>

RxWake ==
  /\ rx = "sleep"
  /\ rx' = "check"
  /\ UNCHANGED <<rxVars, shVars, rxBuf, printed>>

---------------------------------------------------------------------------
Hardware == (ModemSend \/ IrqCallback) /\ UNCHANGED <<shVars, rtVars>>

Command ==
  \/ \E argsOK \in BOOLEAN, board \in BoardAnswers : CmdAt(argsOK, board)
  \/ \E boardOK \in BOOLEAN : CmdPowerOn(boardOK)
  \/ \E argsOK \in BOOLEAN, board \in BoardAnswers : CmdPassthrough(argsOK, board)

ShellStep ==
  \/ AtOpen \/ AtWrite
  \/ AtReadMore \/ (\E r \in {"OK", "EIO"} : AtReadFinal(r)) \/ AtTimeout
  \/ AtClose
  \/ PtAcquire \/ PtPublish \/ PtInstall \/ TypedWrite
  \/ StopFlag \/ StopRelease \/ StopBypass \/ StopClear

Typed == TypedData \/ TypedEscape

RxThread == RxCheck \/ RxGet \/ RxUse \/ RxTx \/ RxWake

Next == Hardware \/ Command \/ Typed \/ ShellStep \/ RxThread

(* Fairness: a pending interrupt is served; the RX thread, the most urgent   *)
(* thread, always runs on, its sleeps end and the host reads what is sent;   *)
(* the shell thread gets the CPU whenever the RX thread sleeps or waits,     *)
(* which happens again and again, so strong fairness, except where it waits *)
(* for the modem's CTS.  Nobody has to type.                                *)
AwaitsCts == pc \in {"at_write", "typed_write"}

Fairness ==
  /\ WF_vars(IrqCallback /\ UNCHANGED <<shVars, rtVars>>)
  /\ WF_vars(RxThread)
  /\ SF_vars(~AwaitsCts /\ ShellStep)

Spec == Init /\ [][Next]_vars

FairSpec == Spec /\ Fairness

---------------------------------------------------------------------------
(* Properties.                                                              *)

(* The RX thread never prints through a cleared passthroughShell: between   *)
(* its test of the pointer and its use of it, modem_passthrough_stop cannot *)
(* run to the point that clears it.  Nothing but the priorities ensures it. *)
NoNullShellWrite == rx = "use" => shellSet

(* The ring has one reader at a time.  When the RX thread is about to read  *)
(* it, the session is still on and passthrough owns the path, so it never   *)
(* steals bytes of an AT answer or of the next session.                     *)
OneReader == rx = "get" => active /\ owner = "passthrough"

(* Nothing leaks: whatever path a command took, back at the prompt without   *)
(* bypass the receive path is free, its interrupt off, the ring empty and   *)
(* the session's variables cleared.                                         *)
NothingLeaks ==
  pc = "prompt" /\ ~bypass =>
    owner = "none" /\ ~irqOn /\ ring = <<>> /\ ~active /\ ~shellSet

(* With one shell, the EBUSY answers never happen: they would mean that a    *)
(* finished command still owned the path and the modem was locked out until *)
(* a reboot.                                                                *)
NeverLockedOut == result # "EBUSY"

(* A session loses nothing but what the ring had no room for: as long as it  *)
(* is on, each byte the handler stored for it is printed, about to be, or   *)
(* still in the ring.                                                       *)
SessionLossless ==
  active => accepted \subseteq Range(printed) \cup Range(rxBuf) \cup Range(ring)

(* Once a session's end was decided, no byte leaves the ring for the screen: *)
(* at most the one chunk taken before is still printed.                     *)
NoReadAfterStop == [][rxBuf' # rxBuf /\ rxBuf' # <<>> => active]_vars

(* The receive path is lent as RxLease says: this module implements it.  So  *)
(* bytes appear in the order of their arrival and none twice, sessions and  *)
(* late chunks included.                                                    *)
Lease == INSTANCE RxLease WITH holder <- owner, screen <- printed \o rxBuf

ImplementsLease == Lease!Spec

(* The shell always comes back to the prompt, whatever the UART, the board   *)
(* and the modem answer, provided the modem falls silent in the end (it has *)
(* MaxBytes to send; ModemAtIrq shows what happens when it does not), with  *)
(* one exception: a modem that holds CTS for ever keeps the shell for ever  *)
(* in the write of a command or of typed data, where uart_poll_out has no   *)
(* timeout.  It hangs nowhere else.                                         *)
CommandsReturn == []<>(pc = "prompt") \/ <>[]AwaitsCts

(* Once the escape was recognised the session ends, and the prompt takes     *)
(* commands again.                                                          *)
EscapeReturns == pc = "stop_flag" ~> pc = "prompt" /\ ~bypass

(* What the handler stored during a session reaches the screen, unless the   *)
(* session ends first.                                                      *)
StoredIsPrinted ==
  \A b \in Bytes :
    active /\ b \in accepted ~> b \in Range(printed) \/ ~active

---------------------------------------------------------------------------
(* The invariant that makes the safety properties inductive: what each of   *)
(* the shared variables is at each point of the shell thread.               *)

SessionOn == pc \in {"pt_install", "typed_write", "stop_flag"} \/ (pc = "prompt" /\ bypass)

ControlInv ==
  /\ active <=> SessionOn
  /\ shellSet <=> active \/ pc \in {"stop_release", "stop_bypass", "stop_clear"}
  /\ bypass => pc \in {"prompt", "typed_write", "stop_flag", "stop_release", "stop_bypass"}
  /\ pc \in {"typed_write", "stop_flag", "stop_release", "stop_bypass"} => bypass

OwnerInv ==
  /\ owner = "at" <=> pc \in {"at_write", "at_collect", "at_close"}
  /\ owner = "passthrough" <=> active \/ pc \in {"pt_publish", "stop_release"}
  /\ irqOn <=> owner # "none"
  /\ owner = "none" => ring = <<>>

RxThreadInv ==
  /\ rx \in {"get", "use"} => active
  /\ rx \notin {"use", "tx"} => rxBuf = <<>>

(* The three together: the shell thread's position determines the session,   *)
(* the owner and what the RX thread may be doing.                           *)
SessionInv == ControlInv /\ OwnerInv /\ RxThreadInv /\ result # "EBUSY"
=============================================================================
