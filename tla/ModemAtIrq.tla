----------------------------- MODULE ModemAtIrq -----------------------------
(***************************************************************************)
(* One AT exchange of modem_at_send_irq: how the bytes that come out of the *)
(* ring are collected, when the answer is recognised and when the exchange  *)
(* gives up.  ModemPassthrough abstracts it to AtReadMore, AtReadFinal and  *)
(* AtTimeout; here the bytes have a meaning and time passes.               *)
(*                                                                         *)
(* A token stands for some bytes: "nlOK" is \nOK, "crlf" the line end that  *)
(* completes it, "ER" and "ROR" the halves of ERROR, which apart from each *)
(* other are like any other text, "nul" a 0 byte.  Reads may cut the stream *)
(* between any two tokens.                                                 *)
(* Time is counted in polls of the loop's sleep: a tick is one k_msleep.    *)
(***************************************************************************)
EXTENDS Naturals, Sequences, Functions

CONSTANTS
  ResponseSize,    \* the caller's buffer, its terminating 0 included
  ChunkSize,       \* most tokens one read returns
  ResponseTicks,   \* MODEM_AT_RESPONSE_TIMEOUT_MS
  InterCharTicks   \* MODEM_AT_INTER_CHAR_TIMEOUT_MS

ASSUME AtAssumption ==
  /\ ResponseSize \in Nat \ {0}
  /\ ChunkSize \in Nat \ {0}
  /\ ResponseTicks \in Nat \ {0}
  /\ InterCharTicks \in 1 .. ResponseTicks

Tokens == {"nlOK", "crlf", "ER", "ROR", "nul"}
Chunks == UNION {[1 .. n -> Tokens] : n \in 1 .. ChunkSize}

VARIABLES
  collecting, \* modem_at_irq_collect_response is running
  response,   \* what it stored
  remaining,  \* ticks to its deadline
  result,     \* what the last exchange returned
  quiet,      \* history: ticks since the last data, or since the start
  heard,      \* history: something was received
  hidden,     \* history: something was received that the match cannot see
  last,       \* history: the last token received
  first,      \* history: the final result that was received first
  gotOk       \* history: an OK was received

history == <<heard, hidden, last, first, gotOk>>
vars    == <<collecting, response, remaining, result, quiet, history>>

TypeOK ==
  /\ collecting \in BOOLEAN
  /\ response \in Seq(Tokens) /\ Len(response) < ResponseSize
  /\ remaining \in 0 .. ResponseTicks
  /\ result \in {"OK", "EIO", "ETIMEDOUT", "ENODEV", "EBUSY"}
  /\ quiet \in 0 .. ResponseTicks
  /\ heard \in BOOLEAN /\ hidden \in BOOLEAN
  /\ last \in Tokens
  /\ first \in {"none", "ok", "error"}
  /\ gotOk \in BOOLEAN

Init ==
  /\ collecting = FALSE
  /\ response = <<>>
  /\ remaining = 0
  /\ result = "OK"
  /\ quiet = 0
  /\ heard = FALSE /\ hidden = FALSE
  /\ last = "crlf"
  /\ first = "none" /\ gotOk = FALSE

---------------------------------------------------------------------------
(* Where two tokens follow each other, and where the final results begin.   *)
Starts(s, a, b) == {i \in 1 .. Len(s) - 1 : s[i] = a /\ s[i + 1] = b}

\* A bug to exclude: OK at the start of a longer line passes for the answer.
OksUnfinished(s) == {i \in 1 .. Len(s) : s[i] = "nlOK"}

Oks(s)    == Starts(s, "nlOK", "crlf")
Errors(s) == Starts(s, "ER", "ROR")

(* What strstr finds of them: it stops at the first 0 byte.                 *)
Visible(s, places) == {i \in places : \A j \in 1 .. i : s[j] # "nul"}

(* History: the final result that comes first in a piece of the stream.      *)
FirstIn(s) ==
  LET oks    == Starts(s, "nlOK", "crlf")
      errors == Starts(s, "ER", "ROR")
  IN IF oks \cup errors = {} THEN "none"
     ELSE IF \E i \in oks : \A j \in errors : i < j THEN "ok" ELSE "error"

---------------------------------------------------------------------------
(* modem_at_send_irq up to the loop: opening the receive path or writing    *)
(* the command may fail, the buffer is emptied by the open.                 *)
Send(outcome) ==
  /\ ~collecting
  /\ collecting' = (outcome = "OK")
  /\ result' = outcome
  /\ response' = <<>>
  /\ remaining' = IF outcome = "OK" THEN ResponseTicks ELSE 0
  /\ quiet' = 0 /\ heard' = FALSE /\ hidden' = FALSE
  /\ last' = "crlf" /\ first' = "none" /\ gotOk' = FALSE

Return(r) == collecting' = FALSE /\ result' = r /\ UNCHANGED remaining

GoOn == UNCHANGED <<collecting, result>>

Fits(chunk) ==
  LET room == ResponseSize - 1 - Len(response)
  IN SubSeq(chunk, 1, IF room <= Len(chunk) THEN room ELSE Len(chunk))

\* A bug to exclude: the buffer's last byte is used for data.
StoresOneTooMany(chunk) ==
  LET room == ResponseSize - Len(response)
  IN response \o SubSeq(chunk, 1, IF room <= Len(chunk) THEN room ELSE Len(chunk))

Stored(chunk) == response \o Fits(chunk)

\* A bug to exclude: the answer is looked for in the new chunk alone.
VerdictOfChunk(chunk) ==
  LET s == Fits(chunk)
  IN IF Visible(s, Oks(s)) # {} THEN "OK"
     ELSE IF Visible(s, Errors(s)) # {} THEN "EIO" ELSE "none"

\* A bug to exclude: errors are looked for first.
VerdictErrorFirst(chunk) ==
  LET s == Stored(chunk)
  IN IF Visible(s, Errors(s)) # {} THEN "EIO"
     ELSE IF Visible(s, Oks(s)) # {} THEN "OK" ELSE "none"

(* Both patterns are looked for in all that is stored, OK first.            *)
Verdict(chunk) ==
  LET s == Stored(chunk)
  IN IF Visible(s, Oks(s)) # {} THEN "OK"
     ELSE IF Visible(s, Errors(s)) # {} THEN "EIO" ELSE "none"

\* A bug to exclude: the deadline stays the one of the whole answer.
NoExtension == remaining

AfterDataTicks == InterCharTicks

(* A read that returned data: what does not fit is dropped, an answer ends   *)
(* the exchange, any other data extends the deadline.                       *)
ReadData(chunk) ==
  /\ collecting
  /\ response' = Stored(chunk)
  /\ LET verdict == Verdict(chunk) IN
     IF verdict # "none"
     THEN Return(verdict)
     ELSE GoOn /\ remaining' = AfterDataTicks
  /\ quiet' = 0
  /\ heard' = TRUE
  /\ hidden' = (hidden \/ Len(Fits(chunk)) < Len(chunk) \/ "nul" \in Range(chunk))
  /\ last' = chunk[Len(chunk)]
  /\ LET heardNow == <<last>> \o chunk IN
     /\ first' = IF first = "none" THEN FirstIn(heardNow) ELSE first
     /\ gotOk' = (gotOk \/ Starts(heardNow, "nlOK", "crlf") # {})

(* A read that returned nothing: give up at the deadline, or sleep.          *)
ReadNothing ==
  /\ collecting
  /\ IF remaining = 0
     THEN Return("ETIMEDOUT") /\ UNCHANGED quiet
     ELSE GoOn /\ remaining' = remaining - 1 /\ quiet' = quiet + 1
  /\ UNCHANGED <<response, history>>

Collect == ReadNothing \/ \E chunk \in Chunks : ReadData(chunk)

Next ==
  \/ \E outcome \in {"OK", "ENODEV", "EBUSY"} : Send(outcome)
  \/ Collect

Spec == Init /\ [][Next]_vars

(* The loop runs on; what the modem sends, and when, is its own business.    *)
FairSpec == Spec /\ WF_vars(Collect)

---------------------------------------------------------------------------
(* Properties.                                                              *)

Finished(r) == ~collecting /\ heard /\ result = r

(* OK is never made up: the complete line was received, wherever the reads   *)
(* and the end of the buffer cut the stream.                                *)
OkWasReceived == Finished("OK") => gotOk

(* EIO is returned for an ERROR that no OK preceded.  (The converse does not  *)
(* hold: an ERROR followed by OK in the same read returns OK.)               *)
ErrorCameFirst == Finished("EIO") => first = "error"

(* An answered exchange does not time out, wherever the reads cut the answer, *)
(* unless part of the stream was dropped for want of room or is behind a 0   *)
(* byte.                                                                    *)
AnsweredInTime == Finished("ETIMEDOUT") /\ first # "none" => hidden

(* A timeout is a silence: of the full response time at the start, of the     *)
(* full inter-character time after data.                                    *)
TimeoutIsSilence ==
  ~collecting /\ result = "ETIMEDOUT" =>
    quiet = IF heard THEN InterCharTicks ELSE ResponseTicks

(* docs/bringup/acceptance.md: timeouts are surfaced as explicit shell errors *)
(* rather than silent hangs.  An exchange always comes to an end.           *)
NeverHangs == collecting ~> ~collecting

---------------------------------------------------------------------------
(* What makes the safety properties inductive, while an exchange collects:   *)
(* the clock of the silence and the deadline add up; nothing that is        *)
(* visible in the buffer answers yet; the buffer is the stream until the    *)
(* part that is hidden begins, and from then on no answer can show up.      *)
TimeInv == quiet + remaining = IF heard THEN InterCharTicks ELSE ResponseTicks

StreamInv ==
  /\ Visible(response, Oks(response)) = {} /\ Visible(response, Errors(response)) = {}
  /\ ~hidden =>
       /\ last = IF response = <<>> THEN "crlf" ELSE response[Len(response)]
       /\ \A i \in 1 .. Len(response) : response[i] # "nul"
       /\ first = "none"
  /\ hidden =>
       \/ Len(response) = ResponseSize - 1
       \/ \E i \in 1 .. Len(response) : response[i] = "nul"

CollectInv == collecting => TimeInv /\ StreamInv
=============================================================================
