# TLA+ models of the modem control firmware

This directory holds TLA+ specifications of the modem code of the FPH control board: the
shell commands that switch the modem on and off, send AT commands and open a raw UART
passthrough. TLC checks the specifications on small instances; TLAPS proves every
safety property that the runs check, for all values of the constants.

Sources are abbreviated below: **SH** `platform/src/modem-shell/modem-shell.c`, **SC**
`platform/src/modem-shell/modem-shell-core.c`, **AT** `platform/src/modem-at/modem-at.c`,
**BC** `platform/src/modem-board/modem-board-core.c`, **BD**
`platform/src/modem-board/modem-board.c`, **OV** `targets/boards/fph/control/control_a4.overlay`,
**SO** `targets/boards/fph/control/imx1050/soc.c`.

## Inventory

| component | state | operations | status |
|---|---|---|---|
| modem UART receive path (SH 65-129, 311-327) | owner word, ring buffer, "handler installed" flag, the interrupt's enable bit | acquire, release, read, interrupt handler | modelled: `ModemUartRx` |
| passthrough session (SH 58-64, 232-389, 441-510) | active flag, shell pointer, tail byte, debug flag, RX thread | start, stop, bypass callback, RX thread | modelled: `ModemPassthrough`, `PassthroughEscape` |
| shell commands (SC, SH 172-230, 391-439) | the debug log's shell pointer | `status`, `reset`, `power`, `at`; retries after power on | modelled: `ModemCommands`, `ModemPowerOn`; their use of the UART: `ModemPassthrough` |
| AT engine, interrupt path (AT 88-168, 205-237) | the response, its deadline | `modem_at_send_irq` | modelled: `ModemAtIrq` |
| AT engine, polling path (AT 22-86, 239-326) | `lastDiagnostics` | `modem_at_send` | modelled: `ModemAtPoll` |
| board control (BC, BD) | three GPIO lines; whether the ADC channel is set up | power on, off, cycle; reset; status | modelled: `ModemBoard`, status in `ModemCommands` |
| clocks at boot (SO 84-189) | the clock tree, the core voltage | `clock_init` | modelled: `ClockInit` |
| application main, rest of the boot code, devicetree | | idle loop, memory set-up before the kernel | not modelled, but for the line levels and the UART's flow control |

How they interact. The shell runs one command at a time in its own thread. `power on` and
`power cycle` call board control, wait ten seconds, then send `AT` up to three times and
`AT+KSLEEP=2` once through the AT engine; `at` sends one command. Each exchange opens the
receive path, polls the ring and closes the path. `passthrough` takes the same path for as
long as the session lasts, starts a thread that prints what arrives, and has the shell hand
what is typed to a callback instead of the parser. The interrupt handler fills the ring for
whichever of the two owns it. No lock guards any of these variables.

What is hard here, and what would make it correct:

* **Three actors, no lock.** The shell thread, the RX thread and the interrupt share the
  ring, the owner word and the session's variables. The RX thread tests `passthroughShell`
  and then reads it again (SH 336, 343-347); the stop clears it. The ring must have one
  reader. This works only because the RX thread (priority 7) is more urgent than the shell
  thread (lowest).
* **Many exits.** An exchange can end in six ways, a session in two. Each must give the
  receive path back, or every later command answers EBUSY until a reboot.
* **Cut streams.** The escape keys and the modem's final result may be cut by calls and reads
  at any point, and a full buffer drops the end of an answer.
* **Timeouts and retries.** Data replaces the deadline; a retried command may be answered
  twice.
* **Partial failure.** Any GPIO write of a power sequence may fail; the next operation
  starts from the lines it left. Any reading behind a status may fail on its own, and an error
  code travels in the same field as a value.
* **Two of a kind.** Two senders with different deadlines and results, of which only one keeps
  the diagnostics that are printed; two parsers of the same option.
* **Order of writes.** `clock_init` rebuilds the clock tree it runs on.

`PROJECT.json` lists these hazards at their lines, with the properties that cover them. One has
none: the wait for DC_OK (SO 144) has no timeout, and its end depends on the converter alone.

## Modules

| module | what it is |
|---|---|
| `ModemUartRx` | the receive path as operators: FIFO under RTS/CTS, handler, ring, owner |
| `ModemPassthrough` | the specification of the three actors over it |
| `RxLease` | what the users of the receive path promise each other; `ModemPassthrough` implements it |
| `PassthroughEscape` | which typed input is an escape, byte by byte |
| `ModemAtIrq` | one AT exchange: collecting, matching, deadlines |
| `ModemAtPoll` | the same by polling, with its two deadlines and its diagnostics |
| `ModemPowerOn` | the exchanges after power on, against a modem that boots, answers late or not at all |
| `PowerOnRequests` | requests that are each answered for themselves; `ModemPowerOn` implements it if the modem is never late |
| `ModemCommands` | the four commands: arguments, status, choice of sender, what is reported |
| `ModemBoard` | the power and reset sequences with failing writes and their times |
| `ClockInit` | `clock_init`, statement by statement, in two stages of the boot |
| `*_proofs` | the theorems of the module of that name, and of the abstract specification it implements |

### ModemUartRx and ModemPassthrough

A received byte is the number of its arrival: what matters is which reader gets which byte.
`Acquire`, `Release`, `Take` and `IrqCallback` are the functions of the same role. `Acquire`
is one step: until its last statement the interrupt is off, and no other actor looks at what
it changes.

The shell thread's position is `pc`. Functions are cut into steps where another actor can
tell the difference: between test and use in the RX thread (`RxCheck`, `RxGet`, `RxUse`,
`RxTx`), and between the statements of `modem_passthrough_stop` (`StopFlag`, `StopRelease`,
`StopBypass`, `StopClear`). `accepted` and `printed` are history variables.

**Writing.** A write waits for the modem's CTS, byte by byte, in `uart_poll_out` (AT 186), with no
timeout. `AtWrite` and `TypedWrite` are the end of that wait and may never come: the fairness leaves them
out (`AwaitsCts`), and `CommandsReturn` says that a command comes back or waits there for ever, and hangs
nowhere else. In a session that write is the shell thread's, so the escape is not read either.

**Scheduling.** `ShellMayRun` says that the shell thread takes a step only while the RX
thread sleeps, waits for the shell's transmit buffer, or does not exist. That is strict
priority on one core: `k_thread_create` gives 7 (SH 19, 489), and the serial shell's thread has the
lowest application priority, since the configuration leaves the default. The interrupt may
come between any two steps. The mutant `ShellMayAlwaysRun` shows what is at stake: with
equal priorities TLC finds a print through a null shell pointer, and bytes taken after the
session's end.

**What is printed.** The two printers of the RX thread build a chunk's text in a buffer on the
stack and stop when it is full. `TextEnd` and `TraceEnd` say how much of a chunk they show:
four characters for a byte that is no text (a member of `Binary`) and one for any other; in a debug
session two for each byte and a blank between. The characters are left out. There is one shell (one
backend is configured), so two commands never overlap.

### RxLease

The abstract specification of the receive path: it is free or lent to one holder, passes from one to
the next only through free, and while passthrough holds it the screen gets later bytes than
all before. In `ModemPassthrough` the holder is the owner word, the screen is what was printed and
the chunk about to be. A chunk of the last session may still be printed after its end; it was
delivered before.

### PassthroughEscape

`ModemPassthrough` has `TypedData` and `TypedEscape`; this module says which calls of the
callback are which. `typed` and `forwarded` record what was typed and what the modem got. A
chunk that holds the escape is dropped whole, bytes before it included, as in the code.

### ModemAtIrq

Tokens stand for bytes: `\nOK`, the line end that completes it, the halves of `ERROR`
(alone, each is any other text), and a 0 byte, at which `strstr` stops. A read returns any
sequence of tokens, so the cuts fall anywhere. `Send` is the call up to the loop, with the
errors of opening and writing; `ReadData` and `ReadNothing` are the loop's two branches. Time
is counted in polls of the loop; reads take none. `first`, `gotOk`, `hidden` and `quiet` record
what arrived, in the stream and not in the buffer.

### ModemAtPoll

One byte per poll. `left` and `interLeft` are the ticks to the deadline of the whole answer, which
nothing moves, and to that of the next byte. A carriage return is dropped, but counts as a sign of
life. `Trimmed` is the two loops at the end: the first goes by the length, the second by the string,
which ends at a 0 byte. The shell uses this sender only if no interrupt sender is configured, so
the shipped build does not.

### ModemPowerOn

`modem_shell_disable_sleep_after_power_on` with each exchange seen from outside: write, then
answers or a timeout. The modem is a queue of commands and a queue of answers; it boots, holds CTS,
takes commands and loses them before it is up. A timeout leaves the command with it. The interrupt
path does not discard what arrived before its command, as the polling path does (AT 61-72), and
no answer names its command. `punctual` separates modems that answer in time or never from
those that answer late: for a late one, the answer to a repeated `AT` can count for
`AT+KSLEEP=2`, and `power on` says OK to a modem that goes to sleep. The model has such
behaviours. `OkMeansAwake` is claimed without them, and the run `power_on_late` shows one. A modem that
holds CTS keeps the command in `Write`.

### PowerOnRequests

The abstract specification of those exchanges: the command asks, the modem decides, the command reports
what became of this request and goes on. No queues, no timeouts. `ImplementsRequests` maps a written
command to a request not yet decided, and its answer or loss to the decision. Of a modem that may be late
it says nothing: such behaviours map to one where nobody asks. The number of retries is left to `TypeOK`.

### ModemCommands

An argument is a sequence of tokens: blank, `--debug`, quotes, other text; `Parse` and
`DebugRequested` are the two parsers. `at` is registered with one argument and a raw rest (SH 516), so the
shell hands over the first word, parsed, and, if more was typed, all of the rest as it is, quotes
included: `Arguments`. A first word may be any text, since quotes make it one. What is sent depends on the
split. One piece is trimmed. Behind the word `--debug` the rest is sent as it is. Of two pieces
without the option the second is dropped (SC 96). `SentAsTyped` says so for all three. A Catch2
test gives the core `--debug "AT!UIMS?"` as one argument and expects the query without quotes; typed at the
shell it is two pieces, and the quotes are sent.

An exchange is one of the results its sender can have (`IrqAnswers`, `PollAnswers`), a power sequence is
a success or a failure with the lines `ModemBoard` may leave. `ReadStatus` lets each GPIO and ADC call
fail on its own; a sample becomes mV as in BD 123. Of a reading that failed, status says OFF with ERR
beside it (SC 167), and so does `StateIsTrue`. Samples are 0 to 4095: the channel has one input and 12
bits. (BD 123 divides by `BIT(12)`, which is unsigned; a negative sample would not give negative mV.) A
rail that could not be read is reported as a modem without power (SC 257), and the 256 characters of SH 42
cut long debug reports: both are wording and left out. So is what the shell does with a backslash or `-h`.

### ClockInit

The clock controller's fields are a record, the frequencies that follow from them operators of the
hardware (external). The branch is a sequence of writes, voltage steps and waits, one action per
statement, since the core runs on the tree between any two. The first stage finds one of `FoundTrees`:
the trees within the rating that can be built from some values of each divider, not from all that its
register holds, with at most one peripheral field different. The next stage finds what the first left.

### ModemBoard

One action per GPIO write, with the sleep after it. A write fails or not, each time anew, and a
failure leaves the line as it was. `railAge` and `pwrAge` are how long a line has had its
level, by the sequences' own sleeps. Operations follow each other in any order, also after
failures. The devices are ready or not from boot on.

`OkMeansDone` is about the lines an operation sets: the rail and PWR_ON, or reset. No power operation
touches reset. `modem-board.h` says otherwise: "Assert reset" and "Deassert reset" around the steps of
power on (lines 26 and 30), "Assert reset" in power off (line 43). The code has neither, and after a reset
whose release failed `power on` reports OK with reset asserted.

## Runs

| run | asks | bounds |
|---|---|---|
| `passthrough` | one owner, one reader, no leak, no loss, the lease; commands return or wait for CTS, the escape ends the session, data is printed | 3-byte ring, 2-byte FIFO, 2-byte chunks, 5 bytes from the modem, 2 of them no text |
| `escape` | the escape is found exactly when typed; the rest is forwarded | 6 keys of {0, Ctrl-Q, Ctrl-X}, chunks of up to 3 |
| `at_irq` | verdicts only for what was received; timeouts only after silence | 4 tokens stored, reads of up to 3 |
| `at_irq_hang` | the exchange always ends (violated) | 2 tokens stored, reads of 1 |
| `at_poll` | the exit reason is right, answers are cut after silence only, the exchange ends | 4 tokens stored, 2 bytes per tick, 4 and 2 ticks |
| `power_on` | OK means awake, each request answered for itself (punctual modems); the command ends or waits for CTS (all modems) | 4 commands and 4 answers under way |
| `power_on_late` | a failure to switch sleep off is reported (violated) | the same as `power_on` |
| `board` | success means done; pulses, settling, discharge | ages up to 1600 ms |
| `commands` | parsers agree, what is sent is the right part of what was typed, ON and OFF are measured or ERR, no power no send | arguments of up to 4 tokens; samples 1117, 1118; three sender tables |
| `commands_doc` | a debug report names the reason (violated) | the shipped sender table |
| `clock` | rating, quiet changes, the second stage accepts | two PLL settings, two stages |
| `clock_doc` | what is not configured is configured (violated) | the same |

Why the bounds are enough. Five bytes fill the ring and overflow it, leave a chunk in the RX
thread's buffer and fill the FIFO besides; sessions and commands are not bounded in number,
so the run covers every sequence of them. Six keys and chunks of three put the pair inside
a chunk, across a cut, and before or after another prefix; the run stops when the six are
typed, hence no deadlock check. 1600 ms is above the longest pulse, so no time that a property compares is
cut off. Four stored tokens hold both final results; three-token reads put the two into one
read after a cut; longer streams fill the buffer and lose the answer. For the polling path four tokens
hold a line with its line ends and one more; two bytes per tick and four ticks reach the full buffer and
both deadlines. A power on has four exchanges, so four commands and four answers hold everything a modem
can owe it. Four tokens are an option and a quoted text as its rest, or a quotation around two words; 1117 and 1118
are the samples on either side of the threshold. Two stages are the bootloader and the application, and the two
PLL settings differ in the core frequency; the run stops when the second stage is done, hence no
deadlock check.

**Fairness.**

* `ModemPassthrough`: a pending interrupt is served. The RX thread runs on: it is
  the most urgent thread of this model, its sleeps end, and the host reads what is sent. The
  shell thread gets the CPU whenever the RX thread sleeps or waits; that is not continuous, so
  its fairness is strong. It has none while it waits for CTS. Nobody has to type a command or a key.
  The modem sends `MaxBytes` and falls silent; `ModemAtIrq` deals with one that does not.
* `ModemPowerOn`: the shell thread runs on (`CollectAny \/ TimeOut`); `Write` is strongly fair, since the
  modem may raise and drop CTS again at any time; a modem takes, or loses, in the end what it was
  sent. Nothing is assumed of CTS: `PowerOnReturns` allows a command that waits for it for ever. A modem
  need not boot, nor answer.
* `ModemAtIrq` and `ModemAtPoll`: only the loop itself is fair.

**What the violations show.**

* `at_irq_hang`: each read that returned data moves the deadline to one second from then (AT
  157) and there is no bound on the whole. While the modem keeps sending and no final result
  is visible in the buffer (text of its own accord, or an answer that was dropped because the
  buffer was full), the command does not return. `docs/bringup/acceptance.md` asks for
  explicit errors "rather than silent hangs". `PollReturns` holds for the polling path.
* `power_on_late`: an `AT` times out and is repeated; the modem answers both, late. The first answer ends
  the second `AT`, the second one the exchange of `AT+KSLEEP=2`, which the modem has not even taken when
  `power on` says OK. A Catch2 test expects a failure when `AT+KSLEEP=2` is not answered; its fakes give
  each result to its own command, which the ring does not.
* `commands_doc`: `at --debug` prints the diagnostics of the polling path (SC 267), which the interrupt
  path never writes; with the shipped table the reason is always "none". A Catch2 test expects
  "overall-timeout" for a timeout and passes, because its diagnostics are faked.
* `clock_doc`: the comment at SO 125 says that clocks that are not configured are explicitly configured;
  four of the fields the condition tests (PERIPH_CLK2_PODF, PERCLK_CLK_SEL, PERCLK_PODF,
  FLEXSPI_CLK_SEL) are never written, so the next stage rejects the tree again.

**Mutants.** Beside a definition stands, where a property needs it, a mutated form with the
comment "A bug to exclude": the interrupt enabled before the ring is reset, the timeout path
that does not close, the escape looked for inside one chunk only, and so on. Each checked
property is violated when its mutant takes the definition's place.

## Proofs

All theorems are about `Spec`, for all constants that satisfy the module's ASSUME.

* `ModemPassthrough_proofs` begins with lemmas on the operators of `ModemUartRx`: what a cut of a
  sequence contains; that each operation keeps the types, the ring's and the FIFO's capacity among
  them. Then `TypeCorrect` and `SessionCorrect`. The inductive invariant is
  `SessionInv`: the shell thread's position determines the session flag, the shell pointer, the
  bypass, the owner and the interrupt, and the RX thread is between test and use only while the
  session is on. The last part is where `ShellMayRun` is used: the shell cannot
  leave the session in that window. `NoNullShell`, `RingHasOneReader`, `NoLeak`,
  `NoLockout` and `StopEndsReading` follow. `NoLossInSession` has its own induction: each step
  moves the accepted bytes from ring to chunk to screen and drops none. The rest is the refinement:
  `OrderInv` says that what was printed, the RX thread's chunk, the ring and the
  FIFO hold the bytes in the order of arrival, each place earlier ones than the next. It is why a
  delivered chunk is later than the screen. `LeaseImplemented` maps each step of `ModemPassthrough`
  to a step of `RxLease` or a stutter, with `SessionInv` for the owner and `OrderInv` for the screen.
* `PassthroughEscape_proofs`: the invariant adds that the remembered byte is the last one typed;
  the lemma `EscapeInConcat` says that the pair is in a concatenation exactly if it is in
  a part or across the cut. `EscapeIsExact` and `ForwardingIsExact` follow for inputs of any length.
* `ModemBoard_proofs`: the invariant `BoardInv` says, for each step of a sequence, what the
  lines are and how long they have been so, stuck lines included. The five properties follow.
* `ModemPowerOn_proofs`: for a punctual modem, what is under way belongs to the running exchange,
  and an answer to `AT+KSLEEP=2` that says OK comes from a modem that accepted it. `OkIsTrue` and
  `NoLateAnswer` follow, for any `MaxLine`. `RequestsImplemented` maps each step to one of
  `PowerOnRequests` or a stutter, from the same invariant; `RequestsSuffice` says that the abstract
  specification alone keeps the promise of power on.
* `ModemAtIrq_proofs`: `CollectInv` says, while an exchange collects, that silence and deadline add
  up, that nothing visible in the buffer answers yet, and that the buffer is the stream until the
  part begins that is hidden, by a full buffer or a 0 byte. The lemmas `FoundWasHeard` and
  `HeardIsStored` carry a pair of tokens from buffer to stream and back. All five properties of the
  run follow, for any sizes and timeouts.
* `ModemAtPoll_proofs`: `PollInv` says, while the loop polls, that silence and the deadline it counts
  against add up, that the last two bytes of the history are those of the buffer, and that the buffer
  shows no answer line yet. Two bytes are enough: a line is three tokens and is complete with the byte
  that was stored last, so a new match ends at the end of the buffer. That a buffer with an answer has a
  first one is the least-element principle, which the library's theorem on well-founded minima gives
  without induction. `PollTypes`, `ExitIsTrue` and `CutIsSilence` follow.
* `ModemCommands_proofs`: `CommandsInv` ties the "set up" flag to the channel, a voltage in the
  status to a sample, an OFF that was not measured to its ERR, and the send to a rail that was read as on.
  `ParsersAgree`, `StateIsTrue` and `SentOnlyPowered` follow for texts of any length and any samples.
  `TextIsSent` is about data: each trim leaves one unbroken part of its text (`TrimBlanksPart`,
  `TrimQuotesPart`), a part of a part is a part (`PartOfPart`), and what was cut on either side is named at
  each of the three cuts. `TwoPieces` has the calls with a raw rest, and the lemma `TypedKept` carries the
  parse from the command's start to the send.
* `ClockInit_proofs`: `BootInv` treats the branch as a list. Between two statements every field holds
  what the last write to it in the list set (`Holds`), the voltage is there once the wait is past, and a
  later stage programs only for a field that nothing writes. Each write is then shown to keep the ratings
  and to be quiet, by cases on the fields the clocks follow from. `NeverOverclocked`, `SecondStageAccepts`
  and `ChangesAreQuiet` follow for all the PLL's dividers, every part rated for the wanted tree and any
  number of stages.

What the proofs changed in the models. `ClockAssumption` says that the PLL's dividers are 54 to 108, the
range in which the PLL locks: with a much smaller one, a core parked on the 24 MHz crystal could be faster
than before, ahead of the voltage, and `QuietChange` false. `WantedAssumption` says that the part is rated
for the clocks `clock_init` wants, without which no order of the writes could be right. In `ModemAtPoll` the
history of the first answer was a CASE with two branches that overlap, when a line is completed after an
answer is known already; its value was not determined, TLC took the first branch and a proof could not.
It is an IF now: the first answer stays.

Every invariant, refinement and action property of the passing runs is a theorem. Only model-checked are
the liveness properties (`CommandsReturn`, `EscapeReturns`, `StoredIsPrinted`, `PollReturns`,
`PowerOnReturns`), since temporal reasoning under fairness is outside the prover's reach; the runs that
expect a violation are counterexamples, and have nothing to prove.

## Plan

Done: all modules above, with proofs for the safety properties of each. What is left:

1. An abstract exchange between `ModemAtIrq`, `ModemAtPoll` and their callers: one specification of what a
   sender may return for a stream, which both implement, in place of the sets `IrqAnswers` and
   `PollAnswers` of `ModemCommands`.
2. An action property of `ModemCommands`: which command may change which line of the board.

## Not modelled

* `control/src/main.c` logs and idles. It shares no state with the modem code.
* `dcd.c` is a generated table that the boot ROM interprets, and the board's configuration leaves it
  out (`CONFIG_DEVICE_CONFIGURATION_DATA=n`). The files under `imx1050/xip` are tables of constants for the
  flash controller, read by the boot ROM as well. `early_init.S` writes two registers, once. None has
  control flow or state a model could be about.
* `lastUartRet` and `modem_at_uart_read_byte`, which nothing reads or calls in the shipped build, and
  the wording of all output.
* The shell library is external: it appears as one thread that calls commands, hands typed
  input to the bypass callback and prints. Its own buffers are a wait in `RxTx`. The host's serial
  line behind it is not modelled.
* The UART driver and the modem are external: `ModemSend` fills a FIFO, held back by RTS when it is
  full (OV 645-651 turns flow control on).
* Crashes and restarts: no state survives a reset, so a restart is `Init`; only the clock tree
  does, from stage to stage, and `ClockInit` starts from it.
