---------------------------- MODULE ModemAtPoll ----------------------------
(***************************************************************************)
(* One AT exchange of modem_at_send, which polls the UART byte by byte: the *)
(* sender `at` falls back to when no other is configured, and the one that  *)
(* keeps the diagnostics modem_at_get_last_diagnostics hands out.  Unlike    *)
(* ModemAtIrq it has a deadline for the whole answer beside the one between *)
(* two bytes, and it returns 0 for any answer that it did not fail to read. *)
(*                                                                         *)
(* "OK" and "ERROR" stand for these letters, wherever they are; "nl", "cr"  *)
(* and "sp" are white space, "nul" a 0 byte.  A tick is the loop's 10 ms    *)
(* sleep; at most MaxBurst bytes can have come in that time.  The flush     *)
(* before the command discards what came earlier and changes nothing here. *)
(***************************************************************************)
EXTENDS Naturals, Sequences, Functions

CONSTANTS
  ResponseSize,    \* the caller's buffer, its terminating 0 included
  ResponseTicks,   \* MODEM_AT_RESPONSE_TIMEOUT_MS
  InterCharTicks,  \* MODEM_AT_INTER_CHAR_TIMEOUT_MS
  MaxBurst         \* bound: bytes the line brings between two sleeps

ASSUME PollAssumption ==
  /\ ResponseSize \in Nat \ {0}
  /\ ResponseTicks \in Nat \ {0}
  /\ InterCharTicks \in 1 .. ResponseTicks
  /\ MaxBurst \in Nat \ {0}

Tokens == {"OK", "ERROR", "nl", "cr", "sp", "nul"}
Blanks == {"nl", "sp"}

Exits == {"none", "matched-ok", "matched-error", "inter-char-timeout",
          "overall-timeout", "buffer-full", "uart-error"}

VARIABLES
  polling,    \* modem_at_send's loop is running
  response,   \* what it stored
  left,       \* ticks to the deadline of the answer
  interLeft,  \* ticks to the deadline of the next byte
  result,     \* what the last call returned
  exit, sawAnyByte, bytesReceived,   \* lastDiagnostics
  burst,      \* bytes since the last sleep
  quiet,      \* history: ticks since the last byte, or since the start
  text,       \* history: the last two bytes other than cr
  answer      \* history: the first complete answer line received

diagnostics == <<exit, sawAnyByte, bytesReceived>>
history == <<quiet, text, answer>>
vars == <<polling, response, left, interLeft, result, diagnostics, burst, history>>

TypeOK ==
  /\ polling \in BOOLEAN
  /\ response \in Seq(Tokens) /\ Len(response) < ResponseSize
  /\ left \in 0 .. ResponseTicks /\ interLeft \in 0 .. ResponseTicks
  /\ result \in {"OK", "ENODEV", "ENOSPC", "EIO", "ETIMEDOUT"}
  /\ exit \in Exits /\ sawAnyByte \in BOOLEAN /\ bytesReceived \in 0 .. ResponseSize - 1
  /\ burst \in 0 .. MaxBurst
  /\ quiet \in 0 .. ResponseTicks
  /\ text \in Seq(Tokens) /\ Len(text) <= 2
  /\ answer \in {"none", "matched-ok", "matched-error", "hidden"}

Init ==
  /\ polling = FALSE /\ response = <<>> /\ left = 0 /\ interLeft = 0
  /\ result = "ENODEV"
  /\ exit = "none" /\ sawAnyByte = FALSE /\ bytesReceived = 0
  /\ burst = 0 /\ quiet = 0 /\ text = <<>> /\ answer = "none"

---------------------------------------------------------------------------
(* Strings.                                                                 *)

HasLine(s, word) ==
  \E i \in 1 .. Len(s) : i + 2 <= Len(s) /\ SubSeq(s, i, i + 2) = <<"nl", word, "nl">>

(* The part of s before its first byte in S, and without blanks at its ends. *)
Before(s, S) ==
  SubSeq(s, 1, CHOOSE n \in 0 .. Len(s) :
                 (n < Len(s) => s[n + 1] \in S) /\ \A i \in 1 .. n : s[i] \notin S)

WithoutTrailing(s) ==
  SubSeq(s, 1, CHOOSE n \in 0 .. Len(s) :
                 (n > 0 => s[n] \notin Blanks) /\ \A i \in n + 1 .. Len(s) : s[i] \in Blanks)

WithoutLeading(s) == SubSeq(s, Len(Before(s, Tokens \ Blanks)) + 1, Len(s))

Visible(s) == Before(s, {"nul"})

(* The two loops at the end: the first goes by the length, 0 bytes and all,  *)
(* the second by the string, which ends at the first 0 byte.                *)
Trimmed(s) == WithoutLeading(Visible(WithoutTrailing(s)))

---------------------------------------------------------------------------
(* The call up to the loop: a UART that is not ready leaves even the         *)
(* diagnostics of the last call alone.                                      *)
Send(ready) ==
  /\ ~polling
  /\ IF ready
     THEN /\ polling' = TRUE
          /\ exit' = "none" /\ sawAnyByte' = FALSE /\ bytesReceived' = 0
          /\ response' = <<>>
          /\ left' = ResponseTicks /\ interLeft' = ResponseTicks
          /\ burst' = 0 /\ quiet' = 0 /\ text' = <<>> /\ answer' = "none"
          /\ UNCHANGED result
     ELSE /\ result' = "ENODEV"
          /\ UNCHANGED <<polling, response, left, interLeft, diagnostics, burst, history>>

GoOn == UNCHANGED <<polling, result>>

Fail(error, reason) ==
  /\ polling' = FALSE /\ result' = error /\ exit' = reason
  /\ UNCHANGED bytesReceived

(* The end of the loop, left for `reason`, with s in the buffer: only an     *)
(* exchange that never heard a byte is an error.                            *)
Finish(s, heard, reason) ==
  /\ polling' = FALSE
  /\ IF heard
     THEN /\ result' = "OK" /\ exit' = reason
          /\ response' = Trimmed(s) /\ bytesReceived' = Len(Trimmed(s))
     ELSE /\ result' = "ETIMEDOUT" /\ exit' = "overall-timeout"
          /\ response' = s /\ UNCHANGED bytesReceived

Match(s) ==
  IF HasLine(Visible(s), "OK") THEN "matched-ok"
  ELSE IF HasLine(Visible(s), "ERROR") THEN "matched-error" ELSE "none"

(* History: byte ch completed an answer line; a 0 byte before it hides it.   *)
Hear(ch) ==
  LET t == Append(text, ch)
      found == IF answer # "none" THEN answer
               ELSE IF ch = "nul" THEN "hidden"
               ELSE IF t = <<"nl", "OK", "nl">> THEN "matched-ok"
               ELSE IF t = <<"nl", "ERROR", "nl">> THEN "matched-error" ELSE "none"
  IN /\ quiet' = 0
     /\ IF ch = "cr" THEN UNCHANGED <<text, answer>>
        ELSE /\ answer' = found
             /\ text' = IF Len(t) <= 2 THEN t ELSE Tail(t)

\* A bug to exclude: one byte more than there is room for.
RoomForOneMore == Len(response) < ResponseSize

Room == Len(response) + 1 < ResponseSize

\* A bug to exclude: carriage returns are kept.
DropsNothing == {}

Dropped == {"cr"}

(* A poll that returned byte ch.                                            *)
Store(ch) ==
  LET s == Append(response, ch)
  IN IF ch \in Dropped THEN GoOn /\ UNCHANGED <<response, exit, bytesReceived>>
     ELSE IF ~Room THEN Fail("ENOSPC", "buffer-full") /\ UNCHANGED response
     ELSE IF Match(s) # "none" THEN Finish(s, TRUE, Match(s))
     ELSE GoOn /\ response' = s /\ bytesReceived' = Len(s) /\ UNCHANGED exit

\* A bug to exclude: as in the interrupt path, data moves the one deadline.
PollByteExtends(ch) ==
  /\ polling /\ left > 0 /\ burst < MaxBurst
  /\ sawAnyByte' = TRUE
  /\ left' = InterCharTicks /\ interLeft' = InterCharTicks
  /\ Store(ch) /\ Hear(ch)
  /\ burst' = burst + 1

\* A bug to exclude: a dropped byte does not count as a sign of life.
PollByteForgetsCr(ch) ==
  /\ polling /\ left > 0 /\ burst < MaxBurst
  /\ sawAnyByte' = TRUE
  /\ interLeft' = IF ch = "cr" THEN interLeft ELSE InterCharTicks
  /\ Store(ch) /\ Hear(ch)
  /\ burst' = burst + 1
  /\ UNCHANGED left

PollByte(ch) ==
  /\ polling /\ left > 0 /\ burst < MaxBurst
  /\ sawAnyByte' = TRUE
  /\ interLeft' = InterCharTicks
  /\ Store(ch) /\ Hear(ch)
  /\ burst' = burst + 1
  /\ UNCHANGED left

Less(n) == IF n = 0 THEN 0 ELSE n - 1

(* A poll that returned nothing: the answer has ended, or sleep.            *)
PollNothing ==
  /\ polling /\ left > 0
  /\ IF sawAnyByte /\ interLeft = 0
     THEN /\ Finish(response, TRUE, "inter-char-timeout")
          /\ UNCHANGED <<left, interLeft, burst, quiet>>
     ELSE /\ GoOn /\ UNCHANGED <<response, exit, bytesReceived>>
          /\ left' = left - 1 /\ interLeft' = Less(interLeft)
          /\ burst' = 0 /\ quiet' = quiet + 1
  /\ UNCHANGED <<sawAnyByte, text, answer>>

PollError ==
  /\ polling /\ left > 0
  /\ Fail("EIO", "uart-error")
  /\ UNCHANGED <<response, left, interLeft, sawAnyByte, burst, history>>

Deadline ==
  /\ polling /\ left = 0
  /\ Finish(response, sawAnyByte, "overall-timeout")
  /\ UNCHANGED <<left, interLeft, sawAnyByte, burst, history>>

Poll == (\E ch \in Tokens : PollByte(ch)) \/ PollNothing \/ PollError \/ Deadline

Next == (\E ready \in BOOLEAN : Send(ready)) \/ Poll

Spec == Init /\ [][Next]_vars

(* The loop runs on.                                                        *)
FairSpec == Spec /\ WF_vars(Poll)

---------------------------------------------------------------------------
(* Properties.                                                              *)

Finished == ~polling /\ exit # "none" /\ result # "ENODEV"

(* The exit reason is the caller's only way to tell the answers that return   *)
(* 0 from each other, and it is right: it names the first answer line that  *)
(* came, however carriage returns were mixed in, each error has its own     *)
(* reason, and 0 is returned for everything else that was heard.            *)
ExitTellsWhy ==
  Finished =>
    /\ exit \in {"matched-ok", "matched-error"} => exit = answer
    /\ result = "OK" /\ answer \in {"matched-ok", "matched-error"} => exit = answer
    /\ result = "ENOSPC" <=> exit = "buffer-full"
    /\ result = "EIO" <=> exit = "uart-error"
    /\ result = "ETIMEDOUT" <=> exit = "overall-timeout" /\ ~sawAnyByte

(* An answer is cut off only after a full silence between two bytes.        *)
CutAfterSilence ==
  Finished /\ exit = "inter-char-timeout" => quiet = InterCharTicks

(* Whatever the modem sends, and for as long, the exchange ends.  (Not so     *)
(* in the interrupt path: ModemAtIrq!NeverHangs.)                           *)
PollReturns == polling ~> ~polling

---------------------------------------------------------------------------
(* What makes the safety properties inductive, while an exchange polls: the  *)
(* silence and the deadline it counts against add up; the last two bytes of *)
(* the history are those of the buffer; the buffer answers as soon as an    *)
(* answer line is in it, and after a 0 byte never.                          *)
ClockInv == IF sawAnyByte THEN quiet + interLeft = InterCharTicks
                          ELSE quiet + left = ResponseTicks

TextInv ==
  /\ Len(text) = IF Len(response) <= 2 THEN Len(response) ELSE 2
  /\ \A k \in 1 .. Len(text) : text[k] = response[Len(response) - Len(text) + k]

AnswerInv ==
  /\ answer = IF \E i \in 1 .. Len(response) : response[i] = "nul" THEN "hidden" ELSE "none"
  /\ Match(response) = "none"

PollInv == polling => exit = "none" /\ ClockInv /\ TextInv /\ AnswerInv
=============================================================================
