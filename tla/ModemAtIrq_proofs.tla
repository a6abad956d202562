-------------------------- MODULE ModemAtIrq_proofs --------------------------
(***************************************************************************)
(* The collecting loop of modem_at_send_irq recognises the answers rightly, *)
(* for every size of buffer and read and every length of the timeouts.      *)
(* CollectInv is the inductive core.  Its steps compare places in two       *)
(* sequences: `Stored(chunk)`, what the buffer holds after a read, and       *)
(* `Heard(chunk)`, the new piece of the stream with the token before it.    *)
(***************************************************************************)
EXTENDS ModemAtIrq, SequenceTheorems, TLAPS

Heard(chunk) == <<last>> \o chunk

NoNul(s, n) == \A i \in 1 .. n : s[i] # "nul"

---------------------------------------------------------------------------
(* The pieces of a read.                                                    *)

LEMMA ChunkIsSeq ==
  ASSUME NEW chunk \in Chunks
  PROVE  chunk \in Seq(Tokens) /\ Len(chunk) \in Nat \ {0}
<1>1. PICK n \in 1 .. ChunkSize : chunk \in [1 .. n -> Tokens]
  BY DEF Chunks
<1>2. n \in Nat \ {0}
  BY AtAssumption
<1>3. chunk \in Seq(Tokens) /\ Len(chunk) = n
  BY <1>1, <1>2
<1>. QED  BY <1>2, <1>3

LEMMA HeardPlaces ==
  ASSUME TypeOK, NEW chunk \in Chunks
  PROVE  /\ Len(Heard(chunk)) = Len(chunk) + 1
         /\ Heard(chunk)[1] = last
         /\ \A k \in 1 .. Len(chunk) : Heard(chunk)[k + 1] = chunk[k]
<1>1. <<last>> \in Seq(Tokens) /\ Len(<<last>>) = 1 /\ <<last>>[1] = last
  BY DEF TypeOK
<1>2. chunk \in Seq(Tokens) /\ Len(chunk) \in Nat
  BY ChunkIsSeq
<1>3. /\ Len(Heard(chunk)) = 1 + Len(chunk)
      /\ \A i \in 1 .. 1 + Len(chunk) :
           Heard(chunk)[i] = IF i <= 1 THEN <<last>>[i] ELSE chunk[i - 1]
  BY <1>1, <1>2, ConcatProperties DEF Heard
<1>. QED  BY <1>1, <1>2, <1>3

(* The part of a chunk that is stored is the longest beginning that fits.    *)
LEMMA FitsPlaces ==
  ASSUME TypeOK, NEW chunk \in Chunks
  PROVE  /\ Fits(chunk) \in Seq(Tokens)
         /\ Len(Fits(chunk)) \in 0 .. Len(chunk)
         /\ Len(response) + Len(Fits(chunk)) < ResponseSize
         /\ Len(Fits(chunk)) < Len(chunk) =>
              Len(response) + Len(Fits(chunk)) = ResponseSize - 1
         /\ \A k \in 1 .. Len(Fits(chunk)) : Fits(chunk)[k] = chunk[k]
<1>. DEFINE room == ResponseSize - 1 - Len(response)
            n    == IF room <= Len(chunk) THEN room ELSE Len(chunk)
<1>1. /\ chunk \in Seq(Tokens) /\ Len(chunk) \in Nat
      /\ Len(response) \in Nat /\ Len(response) < ResponseSize /\ ResponseSize \in Nat
  BY ChunkIsSeq, LenProperties, AtAssumption DEF TypeOK
<1>2. n \in 0 .. Len(chunk) /\ Len(response) + n < ResponseSize
      /\ (n < Len(chunk) => Len(response) + n = ResponseSize - 1)
  BY <1>1
<1>3. Fits(chunk) = SubSeq(chunk, 1, n)
  BY DEF Fits
<1>. HIDE DEF n
<1>4. \A k \in 1 .. n : chunk[k] \in Tokens
  BY <1>1, <1>2, ElementOfSeq
<1>5. /\ Fits(chunk) \in Seq(Tokens)
      /\ Len(Fits(chunk)) = n
      /\ \A k \in 1 .. n : Fits(chunk)[k] = chunk[k]
  <2>1. /\ SubSeq(chunk, 1, n) \in Seq(Tokens)
        /\ Len(SubSeq(chunk, 1, n)) = IF 1 <= n THEN n - 1 + 1 ELSE 0
        /\ \A k \in 1 .. n - 1 + 1 : SubSeq(chunk, 1, n)[k] = chunk[1 + k - 1]
    BY <1>2, <1>4, SubSeqProperties
  <2>. QED  BY <1>1, <1>2, <1>3, <2>1
<1>. QED  BY <1>2, <1>5

LEMMA StoredPlaces ==
  ASSUME TypeOK, NEW chunk \in Chunks
  PROVE  /\ Stored(chunk) \in Seq(Tokens)
         /\ Len(Stored(chunk)) = Len(response) + Len(Fits(chunk))
         /\ \A i \in 1 .. Len(response) : Stored(chunk)[i] = response[i]
         /\ \A k \in 1 .. Len(Fits(chunk)) : Stored(chunk)[Len(response) + k] = chunk[k]
<1>1. /\ response \in Seq(Tokens) /\ Len(response) \in Nat
      /\ Fits(chunk) \in Seq(Tokens) /\ Len(Fits(chunk)) \in Nat
      /\ \A k \in 1 .. Len(Fits(chunk)) : Fits(chunk)[k] = chunk[k]
  BY FitsPlaces, LenProperties DEF TypeOK
<1>2. /\ Stored(chunk) \in Seq(Tokens)
      /\ Len(Stored(chunk)) = Len(response) + Len(Fits(chunk))
      /\ \A i \in 1 .. Len(response) + Len(Fits(chunk)) :
           Stored(chunk)[i] = IF i <= Len(response) THEN response[i]
                              ELSE Fits(chunk)[i - Len(response)]
  BY <1>1, ConcatProperties DEF Stored
<1>3. \A i \in 1 .. Len(response) : Stored(chunk)[i] = response[i]
  BY <1>1, <1>2
<1>4. ASSUME NEW k \in 1 .. Len(Fits(chunk))
      PROVE  Stored(chunk)[Len(response) + k] = chunk[k]
  <2>1. /\ Len(response) + k \in 1 .. Len(response) + Len(Fits(chunk))
        /\ ~(Len(response) + k <= Len(response))
        /\ (Len(response) + k) - Len(response) = k
    BY <1>1
  <2>2. Stored(chunk)[Len(response) + k] = Fits(chunk)[(Len(response) + k) - Len(response)]
    BY <1>2, <2>1
  <2>. QED  BY <1>1, <2>1, <2>2
<1>. QED  BY <1>2, <1>3, <1>4

---------------------------------------------------------------------------
(* Places of a pair of tokens.                                              *)

(* What is hidden stays hidden: no pair shows up in the buffer.              *)
LEMMA HiddenStays ==
  ASSUME TypeOK, StreamInv, hidden, NEW chunk \in Chunks, NEW a, NEW b,
         Visible(response, Starts(response, a, b)) = {}
  PROVE  Visible(Stored(chunk), Starts(Stored(chunk), a, b)) = {}
<1>. DEFINE m == Len(response)
            s == Stored(chunk)
<1>1. /\ m \in Nat /\ Len(s) \in Nat /\ Len(s) = m + Len(Fits(chunk))
      /\ Len(Fits(chunk)) \in Nat /\ m + Len(Fits(chunk)) < ResponseSize
      /\ ResponseSize \in Nat
      /\ \A i \in 1 .. m : s[i] = response[i]
  BY StoredPlaces, FitsPlaces, LenProperties, AtAssumption DEF TypeOK
<1>2. m = ResponseSize - 1 \/ \E i \in 1 .. m : response[i] = "nul"
  BY DEF StreamInv
<1>. HIDE DEF m, s
<1>. SUFFICES ASSUME NEW i \in 1 .. Len(s) - 1, s[i] = a, s[i + 1] = b, NoNul(s, i)
              PROVE  FALSE
  BY DEF Visible, Starts, NoNul, s
<1>3. i \in 1 .. m - 1
  <2>1. CASE m = ResponseSize - 1
    BY <1>1, <2>1
  <2>2. ASSUME NEW k \in 1 .. m, response[k] = "nul"
        PROVE  i \in 1 .. m - 1
    <3>1. k > i
      BY <1>1, <2>2 DEF NoNul
    <3>. QED  BY <1>1, <3>1
  <2>. QED  BY <1>2, <2>1, <2>2
<1>4. response[i] = a /\ response[i + 1] = b /\ NoNul(response, i)
  BY <1>1, <1>3 DEF NoNul
<1>. QED  BY <1>3, <1>4 DEF Visible, Starts, NoNul, m

(* As long as nothing is hidden, a pair found in the buffer is a new one,    *)
LEMMA FoundWasHeard ==
  ASSUME TypeOK, StreamInv, ~hidden, NEW chunk \in Chunks, NEW a, NEW b,
         Visible(response, Starts(response, a, b)) = {},
         NEW i \in Visible(Stored(chunk), Starts(Stored(chunk), a, b))
  PROVE  i - Len(response) + 1 \in Starts(Heard(chunk), a, b)
<1>. DEFINE m == Len(response)
            f == Len(Fits(chunk))
            s == Stored(chunk)
            h == Heard(chunk)
<1>1. /\ m \in Nat /\ f \in Nat /\ f <= Len(chunk) /\ Len(chunk) \in Nat
      /\ Len(s) = m + f /\ Len(h) = Len(chunk) + 1
      /\ \A k \in 1 .. m : s[k] = response[k]
      /\ \A k \in 1 .. f : s[m + k] = chunk[k]
      /\ h[1] = last
      /\ \A k \in 1 .. Len(chunk) : h[k + 1] = chunk[k]
  BY StoredPlaces, FitsPlaces, HeardPlaces, LenProperties, ChunkIsSeq DEF TypeOK
<1>2. m > 0 => last = response[m]
  BY DEF StreamInv, TypeOK
<1>3. i \in 1 .. Len(s) - 1 /\ s[i] = a /\ s[i + 1] = b /\ NoNul(s, i)
  BY DEF Visible, Starts, NoNul
<1>. HIDE DEF m, f, s, h
<1>4. i >= m
  <2>. SUFFICES ASSUME i < m PROVE FALSE
    BY <1>1, <1>3
  <2>1. i \in 1 .. m - 1
    BY <1>1, <1>3
  <2>2. response[i] = a /\ response[i + 1] = b /\ NoNul(response, i)
    BY <1>1, <1>3, <2>1 DEF NoNul
  <2>. QED  BY <2>1, <2>2 DEF Visible, Starts, NoNul, m
<1>5. i - m + 1 \in 1 .. Len(h) - 1
  BY <1>1, <1>3, <1>4
<1>6. h[i - m + 1] = a
  <2>1. CASE i = m
    BY <1>1, <1>2, <1>3, <2>1
  <2>2. CASE i > m
    <3>1. i - m \in 1 .. f /\ i - m \in 1 .. Len(chunk) /\ m + (i - m) = i
      BY <1>1, <1>3, <2>2
    <3>2. h[(i - m) + 1] = chunk[i - m]
      BY <1>1, <3>1
    <3>3. s[m + (i - m)] = chunk[i - m]
      BY <1>1, <3>1
    <3>. QED  BY <1>3, <3>1, <3>2, <3>3
  <2>. QED  BY <1>1, <1>3, <1>4, <2>1, <2>2
<1>7. h[(i - m + 1) + 1] = b
  <2>1. i - m + 1 \in 1 .. f /\ i - m + 1 \in 1 .. Len(chunk) /\ m + (i - m + 1) = i + 1
    BY <1>1, <1>3, <1>4
  <2>2. h[(i - m + 1) + 1] = chunk[i - m + 1]
    BY <1>1, <2>1
  <2>3. s[m + (i - m + 1)] = chunk[i - m + 1]
    BY <1>1, <2>1
  <2>. QED  BY <1>3, <2>1, <2>2, <2>3
<1>. QED  BY <1>5, <1>6, <1>7 DEF Starts, m, h

(* and a pair heard whose tokens are stored is in the buffer.               *)
LEMMA HeardIsStored ==
  ASSUME TypeOK, StreamInv, ~hidden, NEW chunk \in Chunks, NEW a, NEW b, a # "crlf",
         NEW j \in Starts(Heard(chunk), a, b), j <= Len(Fits(chunk))
  PROVE  j + Len(response) - 1 \in Starts(Stored(chunk), a, b)
<1>. DEFINE m == Len(response)
            f == Len(Fits(chunk))
            s == Stored(chunk)
            h == Heard(chunk)
<1>1. /\ m \in Nat /\ f \in Nat /\ f <= Len(chunk) /\ Len(chunk) \in Nat
      /\ Len(s) = m + f /\ Len(h) = Len(chunk) + 1
      /\ \A k \in 1 .. m : s[k] = response[k]
      /\ \A k \in 1 .. f : s[m + k] = chunk[k]
      /\ h[1] = last
      /\ \A k \in 1 .. Len(chunk) : h[k + 1] = chunk[k]
  BY StoredPlaces, FitsPlaces, HeardPlaces, LenProperties, ChunkIsSeq DEF TypeOK
<1>2. last = IF m = 0 THEN "crlf" ELSE response[m]
  BY EmptySeq DEF StreamInv, TypeOK
<1>3. j \in 1 .. Len(chunk) /\ h[j] = a /\ h[j + 1] = b /\ j <= f
  BY <1>1 DEF Starts
<1>. HIDE DEF m, f, s, h
<1>4. j + m - 1 \in 1 .. Len(s) - 1 /\ s[j + m - 1] = a
  <2>1. CASE j = 1
    <3>1. m > 0 /\ last = response[m]
      BY <1>1, <1>2, <1>3, <2>1
    <3>. QED  BY <1>1, <1>3, <2>1, <3>1
  <2>2. CASE j > 1
    <3>1. j - 1 \in 1 .. f /\ j - 1 \in 1 .. Len(chunk) /\ m + (j - 1) = j + m - 1
      BY <1>1, <1>3, <2>2
    <3>2. h[(j - 1) + 1] = chunk[j - 1]
      BY <1>1, <3>1
    <3>3. (j - 1) + 1 = j
      BY <1>3
    <3>4. s[m + (j - 1)] = chunk[j - 1]
      BY <1>1, <3>1
    <3>. QED  BY <1>1, <1>3, <3>1, <3>2, <3>3, <3>4
  <2>. QED  BY <1>1, <1>3, <2>1, <2>2
<1>5. s[(j + m - 1) + 1] = b
  <2>1. j \in 1 .. f /\ m + j = (j + m - 1) + 1
    BY <1>1, <1>3
  <2>. QED  BY <1>1, <1>3, <2>1
<1>. QED  BY <1>4, <1>5 DEF Starts, m, s

---------------------------------------------------------------------------
(* What a read decides.                                                     *)

LEMMA Verdicts ==
  ASSUME NEW chunk
  PROVE  LET s == Stored(chunk) IN
         /\ Verdict(chunk) \in {"OK", "EIO", "none"}
         /\ Verdict(chunk) = "OK" => Visible(s, Oks(s)) # {}
         /\ Verdict(chunk) = "EIO" => Visible(s, Oks(s)) = {} /\ Visible(s, Errors(s)) # {}
         /\ Verdict(chunk) = "none" => Visible(s, Oks(s)) = {} /\ Visible(s, Errors(s)) = {}
BY DEF Verdict

(* A verdict means that nothing was hidden before.                          *)
LEMMA VerdictInTheOpen ==
  ASSUME TypeOK, StreamInv, NEW chunk \in Chunks, Verdict(chunk) # "none"
  PROVE  ~hidden
<1>. SUFFICES ASSUME hidden PROVE FALSE
  OBVIOUS
<1>. DEFINE s == Stored(chunk)
<1>1. Visible(s, Oks(s)) = {}
  BY HiddenStays DEF Oks, StreamInv
<1>2. Visible(s, Errors(s)) = {}
  BY HiddenStays DEF Errors, StreamInv
<1>. HIDE DEF s
<1>3. Verdict(chunk) = "none"
  BY <1>1, <1>2 DEF Verdict, s
<1>. QED  BY <1>3

LEMMA OkVerdict ==
  ASSUME TypeOK, StreamInv, NEW chunk \in Chunks, Verdict(chunk) = "OK"
  PROVE  Starts(Heard(chunk), "nlOK", "crlf") # {}
<1>1. PICK i : i \in Visible(Stored(chunk), Starts(Stored(chunk), "nlOK", "crlf"))
  BY Verdicts DEF Oks
<1>2. ~hidden
  BY VerdictInTheOpen
<1>3. Visible(response, Starts(response, "nlOK", "crlf")) = {}
  BY DEF StreamInv, Oks
<1>. QED  BY <1>1, <1>2, <1>3, FoundWasHeard

(* The error that is found is the first final result of the piece heard: an  *)
(* OK before it would be visible in the buffer too.                        *)
LEMMA ErrorVerdict ==
  ASSUME TypeOK, StreamInv, NEW chunk \in Chunks, Verdict(chunk) = "EIO"
  PROVE  FirstIn(Heard(chunk)) = "error"
<1>. DEFINE m == Len(response)
            s == Stored(chunk)
            h == Heard(chunk)
<1>1. PICK i : i \in Visible(s, Starts(s, "ER", "ROR"))
  BY Verdicts DEF Errors
<1>2. ~hidden
  BY VerdictInTheOpen
<1>3. Visible(response, Starts(response, "ER", "ROR")) = {}
  BY DEF StreamInv, Errors
<1>4. i - m + 1 \in Starts(h, "ER", "ROR")
  BY <1>1, <1>2, <1>3, FoundWasHeard
<1>5. /\ m \in Nat /\ Len(Fits(chunk)) \in Nat
      /\ Len(s) = m + Len(Fits(chunk))
  BY StoredPlaces, FitsPlaces, LenProperties DEF TypeOK
<1>6. i \in 1 .. Len(s) - 1 /\ NoNul(s, i)
  BY <1>1 DEF Visible, Starts, NoNul
<1>7. ASSUME NEW k \in Starts(h, "nlOK", "crlf"), k < i - m + 1
      PROVE  FALSE
  <2>1. k \in Int /\ k >= 1
    BY DEF Starts
  <2>2. k <= Len(Fits(chunk)) /\ k + m - 1 < i
    BY <1>5, <1>6, <1>7, <2>1
  <2>3. k + m - 1 \in Starts(s, "nlOK", "crlf")
    BY <1>2, <2>2, HeardIsStored
  <2>4. \A j \in 1 .. k + m - 1 : s[j] # "nul"
    BY <1>5, <1>6, <2>1, <2>2 DEF NoNul
  <2>5. k + m - 1 \in Visible(s, Oks(s))
    BY <2>3, <2>4 DEF Visible, Oks
  <2>. QED  BY <2>5, Verdicts
<1>. HIDE DEF h
<1>8. ~(\E k \in Starts(h, "nlOK", "crlf") : \A j \in Starts(h, "ER", "ROR") : k < j)
  BY <1>4, <1>7
<1>9. Starts(h, "nlOK", "crlf") \cup Starts(h, "ER", "ROR") # {}
  BY <1>4
<1>10. FirstIn(h) = "error"
  BY <1>8, <1>9 DEF FirstIn
<1>. QED  BY <1>10 DEF h

(* A read that decides nothing, all of it stored and without a 0 byte, had   *)
(* no final result in it.                                                  *)
LEMMA NoVerdictNoAnswer ==
  ASSUME TypeOK, StreamInv, ~hidden, NEW chunk \in Chunks,
         Len(Fits(chunk)) = Len(chunk), NoNul(Stored(chunk), Len(Stored(chunk))),
         Verdict(chunk) = "none"
  PROVE  FirstIn(Heard(chunk)) = "none"
<1>. DEFINE m == Len(response)
            s == Stored(chunk)
            h == Heard(chunk)
<1>1. /\ m \in Nat /\ Len(chunk) \in Nat /\ Len(h) = Len(chunk) + 1
      /\ Len(s) = m + Len(chunk)
  BY StoredPlaces, HeardPlaces, ChunkIsSeq, LenProperties DEF TypeOK
<1>2. ASSUME NEW a, NEW b, a # "crlf", Visible(s, Starts(s, a, b)) = {}
      PROVE  Starts(h, a, b) = {}
  <2>. SUFFICES ASSUME NEW j \in Starts(h, a, b) PROVE FALSE
    OBVIOUS
  <2>1. j \in 1 .. Len(chunk)
    BY <1>1 DEF Starts
  <2>2. j + m - 1 \in Starts(s, a, b)
    BY <1>2, <2>1, HeardIsStored
  <2>3. \A k \in 1 .. j + m - 1 : s[k] # "nul"
    BY <1>1, <2>1 DEF NoNul
  <2>. QED  BY <1>2, <2>2, <2>3 DEF Visible
<1>3. Starts(h, "nlOK", "crlf") = {}
  BY <1>2, Verdicts DEF Oks
<1>4. Starts(h, "ER", "ROR") = {}
  BY <1>2, Verdicts DEF Errors
<1>. HIDE DEF h
<1>5. FirstIn(h) = "none"
  BY <1>3, <1>4 DEF FirstIn
<1>. QED  BY <1>5 DEF h

---------------------------------------------------------------------------
(* The invariant.                                                           *)

AtInv ==
  TypeOK /\ CollectInv /\ OkWasReceived /\ ErrorCameFirst /\ AnsweredInTime
    /\ TimeoutIsSilence

LEMMA SendStep ==
  ASSUME AtInv, NEW outcome \in {"OK", "ENODEV", "EBUSY"}, Send(outcome)
  PROVE  AtInv'
<1>1. <<>> \in Seq(Tokens) /\ Len(<<>>) = 0
  OBVIOUS
<1>2. TypeOK'
  <2>1. collecting' \in BOOLEAN /\ heard' \in BOOLEAN /\ hidden' \in BOOLEAN
        /\ gotOk' \in BOOLEAN
    BY DEF Send
  <2>2. remaining' \in 0 .. ResponseTicks /\ quiet' \in 0 .. ResponseTicks
    BY AtAssumption DEF Send
  <2>3. /\ response' \in Seq(Tokens) /\ Len(response') < ResponseSize
        /\ result' \in {"OK", "EIO", "ETIMEDOUT", "ENODEV", "EBUSY"}
        /\ last' \in Tokens /\ first' \in {"none", "ok", "error"}
    BY <1>1, AtAssumption DEF Send, Tokens
  <2>. QED  BY <2>1, <2>2, <2>3 DEF TypeOK
<1>3. collecting' => TimeInv'
  <2>. SUFFICES ASSUME collecting' PROVE TimeInv'
    OBVIOUS
  <2>1. outcome = "OK"
    BY Zenon DEF Send
  <2>2. quiet' = 0 /\ remaining' = ResponseTicks /\ ~heard'
    BY <2>1 DEF Send
  <2>. QED  BY <2>2, AtAssumption DEF TimeInv
<1>4. StreamInv'
  BY <1>1 DEF Send, StreamInv, Visible, Oks, Errors, Starts
<1>. QED
  BY <1>2, <1>3, <1>4 DEF AtInv, Send, CollectInv, OkWasReceived, ErrorCameFirst,
     AnsweredInTime, TimeoutIsSilence, Finished

LEMMA FirstType == ASSUME NEW s PROVE FirstIn(s) \in {"none", "ok", "error"}
BY DEF FirstIn

LEMMA ReadType ==
  ASSUME TypeOK, NEW chunk \in Chunks, ReadData(chunk)
  PROVE  TypeOK'
<1>1. response' \in Seq(Tokens) /\ Len(response') < ResponseSize
  BY StoredPlaces, FitsPlaces DEF ReadData
<1>2. collecting' \in BOOLEAN /\ remaining' \in 0 .. ResponseTicks
      /\ result' \in {"OK", "EIO", "ETIMEDOUT", "ENODEV", "EBUSY"}
  <2>1. CASE Verdict(chunk) # "none"
    BY <2>1, Verdicts DEF ReadData, Return, TypeOK
  <2>2. CASE Verdict(chunk) = "none"
    BY <2>2, AtAssumption DEF ReadData, GoOn, AfterDataTicks, TypeOK
  <2>. QED  BY <2>1, <2>2
<1>3. quiet' \in 0 .. ResponseTicks /\ heard' \in BOOLEAN
  BY AtAssumption DEF ReadData
<1>4. hidden' \in BOOLEAN
  BY DEF ReadData, TypeOK
<1>5. last' \in Tokens
  BY ChunkIsSeq, ElementOfSeq DEF ReadData
<1>6. first' \in {"none", "ok", "error"}
  BY FirstType DEF ReadData, TypeOK
<1>7. gotOk' \in BOOLEAN
  BY DEF ReadData, TypeOK
<1>. QED  BY <1>1, <1>2, <1>3, <1>4, <1>5, <1>6, <1>7 DEF TypeOK

(* The exchange goes on: what is visible and what is hidden are kept.        *)
LEMMA ReadOn ==
  ASSUME TypeOK, StreamInv, NEW chunk \in Chunks, ReadData(chunk), Verdict(chunk) = "none"
  PROVE  StreamInv'
<1>. DEFINE m == Len(response)
            f == Len(Fits(chunk))
            s == Stored(chunk)
<1>1. /\ response' = s
      /\ last' = chunk[Len(chunk)]
      /\ first' = IF first = "none" THEN FirstIn(Heard(chunk)) ELSE first
  BY DEF ReadData, Heard
<1>2. /\ m \in Nat /\ f \in Nat /\ f <= Len(chunk) /\ Len(chunk) \in Nat \ {0}
      /\ ResponseSize \in Nat /\ m + f < ResponseSize
      /\ f < Len(chunk) => m + f = ResponseSize - 1
      /\ Len(s) = m + f
      /\ \A i \in 1 .. m : s[i] = response[i]
      /\ \A k \in 1 .. f : s[m + k] = chunk[k]
  BY StoredPlaces, FitsPlaces, LenProperties, ChunkIsSeq, AtAssumption DEF TypeOK
<1>. HIDE DEF m, f, s
<1>3. Range(chunk) = {chunk[k] : k \in 1 .. Len(chunk)}
  BY ChunkIsSeq, LenProperties DEF Range
<1>4. Visible(s, Oks(s)) = {} /\ Visible(s, Errors(s)) = {}
  BY Verdicts DEF s
<1>5. hidden' <=> hidden \/ f < Len(chunk) \/ "nul" \in Range(chunk)
  BY Zenon DEF ReadData, f
<1>6. ASSUME ~hidden'
      PROVE  /\ last' = IF response' = <<>> THEN "crlf" ELSE response'[Len(response')]
             /\ \A i \in 1 .. Len(response') : response'[i] # "nul"
             /\ first' = "none"
  <2>1. ~hidden /\ f = Len(chunk) /\ "nul" \notin Range(chunk)
    <3>1. ~hidden /\ ~(f < Len(chunk)) /\ "nul" \notin Range(chunk)
      BY <1>6, <1>5, Zenon
    <3>. QED  BY <1>2, <3>1
  <2>2. s # <<>> /\ s[Len(s)] = chunk[Len(chunk)]
    <3>1. Len(s) = m + Len(chunk) /\ Len(chunk) \in 1 .. f
      BY <1>2, <2>1
    <3>2. s[m + Len(chunk)] = chunk[Len(chunk)]
      BY <1>2, <3>1
    <3>3. Len(s) # 0
      BY <1>2, <3>1
    <3>. QED  BY <3>1, <3>2, <3>3
  <2>3. NoNul(s, Len(s))
    <3>. SUFFICES ASSUME NEW i \in 1 .. Len(s) PROVE s[i] # "nul"
      BY DEF NoNul
    <3>1. CASE i <= m
      <4>1. i \in 1 .. m /\ s[i] = response[i]
        BY <1>2, <3>1
      <4>. QED  BY <2>1, <4>1 DEF StreamInv, m
    <3>2. CASE i > m
      <4>1. i - m \in 1 .. f /\ i - m \in 1 .. Len(chunk) /\ m + (i - m) = i
        BY <1>2, <3>2
      <4>2. s[m + (i - m)] = chunk[i - m]
        BY <1>2, <4>1
      <4>3. chunk[i - m] \in Range(chunk)
        BY <1>3, <4>1
      <4>. QED  BY <2>1, <4>1, <4>2, <4>3
    <3>. QED  BY <1>2, <3>1, <3>2
  <2>4. first' = "none"
    BY <1>1, <2>1, <2>3, NoVerdictNoAnswer DEF StreamInv, f, s
  <2>. QED  BY <1>1, <2>2, <2>3, <2>4 DEF NoNul
<1>7. ASSUME hidden'
      PROVE  \/ Len(response') = ResponseSize - 1
             \/ \E i \in 1 .. Len(response') : response'[i] = "nul"
  <2>1. CASE hidden /\ m = ResponseSize - 1
    BY <1>1, <1>2, <2>1
  <2>2. CASE hidden /\ m # ResponseSize - 1
    <3>1. PICK i \in 1 .. m : response[i] = "nul"
      BY <2>2 DEF StreamInv, m
    <3>2. i \in 1 .. Len(s) /\ s[i] = "nul"
      BY <1>2, <3>1
    <3>. QED  BY <1>1, <3>2
  <2>3. CASE f < Len(chunk)
    BY <1>1, <1>2, <2>3
  <2>4. CASE f = Len(chunk) /\ "nul" \in Range(chunk)
    <3>1. PICK k \in 1 .. Len(chunk) : chunk[k] = "nul"
      BY <1>3, <2>4
    <3>2. m + k \in 1 .. Len(s) /\ s[m + k] = "nul"
      BY <1>2, <2>4, <3>1
    <3>. QED  BY <1>1, <3>2
  <2>5. hidden \/ f < Len(chunk) \/ "nul" \in Range(chunk)
    BY <1>7, <1>5, Zenon
  <2>6. f < Len(chunk) \/ f = Len(chunk)
    BY <1>2
  <2>. QED  BY <2>1, <2>2, <2>3, <2>4, <2>5, <2>6, Zenon
<1>8. Visible(response', Oks(response')) = {} /\ Visible(response', Errors(response')) = {}
  BY <1>1, <1>4
<1>. QED  BY <1>6, <1>7, <1>8 DEF StreamInv

LEMMA ReadStep ==
  ASSUME AtInv, NEW chunk \in Chunks, ReadData(chunk)
  PROVE  AtInv'
<1>1. TypeOK /\ collecting /\ TimeInv /\ StreamInv
  BY DEF AtInv, CollectInv, ReadData
<1>2. TypeOK'
  BY <1>1, ReadType
<1>3. first' = IF first = "none" THEN FirstIn(Heard(chunk)) ELSE first
  BY DEF ReadData, Heard
<1>4. heard' = TRUE /\ quiet' = 0
  BY DEF ReadData
<1>5. CASE Verdict(chunk) = "none"
  <2>1. collecting' /\ remaining' = InterCharTicks
    BY <1>1, <1>5 DEF ReadData, GoOn, AfterDataTicks
  <2>2. StreamInv'
    BY <1>1, <1>5, ReadOn
  <2>3. TimeInv'
    BY <1>4, <2>1, AtAssumption DEF TimeInv
  <2>. QED
    BY <1>2, <2>1, <2>2, <2>3 DEF AtInv, CollectInv, OkWasReceived, ErrorCameFirst,
       AnsweredInTime, TimeoutIsSilence, Finished
<1>6. CASE Verdict(chunk) = "OK"
  <2>1. collecting' = FALSE /\ result' = "OK"
    BY <1>6 DEF ReadData, Return
  <2>2. Starts(Heard(chunk), "nlOK", "crlf") # {}
    BY <1>1, <1>6, OkVerdict
  <2>3. gotOk' <=> gotOk \/ Starts(Heard(chunk), "nlOK", "crlf") # {}
    BY Zenon DEF ReadData, Heard
  <2>4. gotOk'
    BY <2>2, <2>3, Zenon
  <2>. QED
    BY <1>2, <2>1, <2>4 DEF AtInv, CollectInv, OkWasReceived, ErrorCameFirst,
       AnsweredInTime, TimeoutIsSilence, Finished
<1>7. CASE Verdict(chunk) = "EIO"
  <2>1. collecting' = FALSE /\ result' = "EIO"
    BY <1>7 DEF ReadData, Return
  <2>2. FirstIn(Heard(chunk)) = "error" /\ ~hidden
    BY <1>1, <1>7, ErrorVerdict, VerdictInTheOpen
  <2>3. first' = "error"
    BY <1>1, <1>3, <2>2 DEF StreamInv
  <2>. QED
    BY <1>2, <2>1, <2>3 DEF AtInv, CollectInv, OkWasReceived, ErrorCameFirst,
       AnsweredInTime, TimeoutIsSilence, Finished
<1>. QED  BY <1>5, <1>6, <1>7, Verdicts

(* A timeout: the deadline is spent, so the silence has its full length; and *)
(* an answer received before would be in the buffer unless it was hidden.     *)
LEMMA SilentStep ==
  ASSUME AtInv, ReadNothing
  PROVE  AtInv'
<1>1. TypeOK /\ collecting /\ TimeInv /\ StreamInv
  BY DEF AtInv, CollectInv, ReadNothing
<1>2. /\ response' = response /\ heard' = heard /\ hidden' = hidden
      /\ last' = last /\ first' = first /\ gotOk' = gotOk
  BY DEF ReadNothing, history
<1>3. CASE remaining = 0
  <2>1. collecting' = FALSE /\ result' = "ETIMEDOUT" /\ remaining' = 0 /\ quiet' = quiet
    BY <1>3 DEF ReadNothing, Return
  <2>2. TypeOK'
    BY <1>1, <1>2, <1>3, <2>1 DEF TypeOK
  <2>3. AnsweredInTime'
    BY <1>1, <1>2 DEF AnsweredInTime, StreamInv
  <2>4. quiet \in Nat /\ quiet = IF heard THEN InterCharTicks ELSE ResponseTicks
    BY <1>1, <1>3, AtAssumption DEF TypeOK, TimeInv
  <2>5. TimeoutIsSilence'
    BY <1>2, <2>1, <2>4 DEF TimeoutIsSilence
  <2>. QED
    BY <2>1, <2>2, <2>3, <2>5 DEF AtInv, CollectInv, OkWasReceived, ErrorCameFirst, Finished
<1>4. CASE remaining # 0
  <2>1. /\ collecting' = collecting /\ result' = result
        /\ remaining' = remaining - 1 /\ quiet' = quiet + 1
    BY <1>4 DEF ReadNothing, GoOn
  <2>2. /\ remaining \in 0 .. ResponseTicks /\ quiet \in 0 .. ResponseTicks
        /\ ResponseTicks \in Nat /\ InterCharTicks \in Nat
        /\ InterCharTicks <= ResponseTicks
    BY <1>1, AtAssumption DEF TypeOK
  <2>3. TimeInv'
    BY <1>1, <1>2, <2>1, <2>2 DEF TimeInv
  <2>4. remaining' \in 0 .. ResponseTicks /\ quiet' \in 0 .. ResponseTicks
    BY <1>1, <1>4, <2>1, <2>2 DEF TimeInv
  <2>5. TypeOK'
    BY <1>1, <1>2, <2>1, <2>4 DEF TypeOK
  <2>6. StreamInv'
    BY <1>1, <1>2 DEF StreamInv, Visible, Oks, Errors, Starts
  <2>. QED
    BY <1>1, <2>1, <2>3, <2>5, <2>6 DEF AtInv, CollectInv, OkWasReceived, ErrorCameFirst,
       AnsweredInTime, TimeoutIsSilence, Finished
<1>. QED  BY <1>3, <1>4

(* The loop of modem_at_irq_collect_response keeps its clock and its buffer in *)
(* step with the stream, and whatever it returns is justified by the stream:   *)
(* every property below is a part of this one.                              *)
THEOREM AtCorrect == Spec => []AtInv
<1>1. Init => AtInv
  <2>. SUFFICES ASSUME Init PROVE AtInv
    OBVIOUS
  <2>1. <<>> \in Seq(Tokens) /\ Len(<<>>) = 0
    OBVIOUS
  <2>2. TypeOK
    <3>1. collecting \in BOOLEAN /\ heard \in BOOLEAN /\ hidden \in BOOLEAN
          /\ gotOk \in BOOLEAN
      BY DEF Init
    <3>2. /\ response \in Seq(Tokens) /\ Len(response) < ResponseSize
          /\ remaining \in 0 .. ResponseTicks /\ quiet \in 0 .. ResponseTicks
          /\ result \in {"OK", "EIO", "ETIMEDOUT", "ENODEV", "EBUSY"}
          /\ last \in Tokens /\ first \in {"none", "ok", "error"}
      BY <2>1, AtAssumption DEF Init, Tokens
    <3>. QED  BY <3>1, <3>2 DEF TypeOK
  <2>. QED
    BY <2>2 DEF Init, AtInv, CollectInv, OkWasReceived, ErrorCameFirst,
       AnsweredInTime, TimeoutIsSilence, Finished
<1>2. AtInv /\ [Next]_vars => AtInv'
  <2>. SUFFICES ASSUME AtInv, [Next]_vars PROVE AtInv'
    OBVIOUS
  <2>1. ASSUME NEW outcome \in {"OK", "ENODEV", "EBUSY"}, Send(outcome) PROVE AtInv'
    BY <2>1, SendStep
  <2>2. CASE ReadNothing
    BY <2>2, SilentStep
  <2>3. ASSUME NEW chunk \in Chunks, ReadData(chunk) PROVE AtInv'
    BY <2>3, ReadStep
  <2>4. CASE UNCHANGED vars
    BY <2>4 DEF vars, history, AtInv, TypeOK, CollectInv, TimeInv, StreamInv, Visible, Oks,
       Errors, Starts, OkWasReceived, ErrorCameFirst, AnsweredInTime, TimeoutIsSilence,
       Finished
  <2>. QED  BY <2>1, <2>2, <2>3, <2>4 DEF Next, Collect
<1>. QED  BY <1>1, <1>2, PTL DEF Spec

(* The buffer of an exchange never holds more than the caller gave it less    *)
(* the terminating 0, and the countdown never leaves its range.             *)
THEOREM AtTypes == Spec => []TypeOK
<1>1. AtInv => TypeOK
  BY DEF AtInv
<1>. QED  BY <1>1, AtCorrect, PTL

(* modem_at_send_irq returns 0 only after the complete \nOK line arrived.     *)
THEOREM OkIsReal == Spec => []OkWasReceived
<1>1. AtInv => OkWasReceived
  BY DEF AtInv
<1>. QED  BY <1>1, AtCorrect, PTL

(* modem_at_send_irq returns -EIO only for an ERROR that no OK preceded.      *)
THEOREM ErrorIsReal == Spec => []ErrorCameFirst
<1>1. AtInv => ErrorCameFirst
  BY DEF AtInv
<1>. QED  BY <1>1, AtCorrect, PTL

(* An exchange whose answer arrived times out only when the buffer or a 0     *)
(* byte hid the answer from the match.                                      *)
THEOREM NoLostAnswer == Spec => []AnsweredInTime
<1>1. AtInv => AnsweredInTime
  BY DEF AtInv
<1>. QED  BY <1>1, AtCorrect, PTL

(* -ETIMEDOUT comes after a full silence, never during a running answer.      *)
THEOREM SilenceIsReal == Spec => []TimeoutIsSilence
<1>1. AtInv => TimeoutIsSilence
  BY DEF AtInv
<1>. QED  BY <1>1, AtCorrect, PTL
=============================================================================
