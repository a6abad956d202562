----------------------- MODULE ModemPassthrough_proofs -----------------------
(***************************************************************************)
(* Proofs about ModemPassthrough, for every ring, FIFO and chunk size and   *)
(* every number of bytes, in three parts: what the operations of ModemUartRx *)
(* preserve, whoever calls them; SessionInv, which ties each shared variable *)
(* to the shell thread's position, and the safety properties that follow    *)
(* from it; and the refinement of RxLease, whose steps Lend, GiveBack and   *)
(* Deliver rest on OrderInv, which orders the four places a byte passes     *)
(* through: FIFO, ring, chunk, screen.                                      *)
(***************************************************************************)
EXTENDS ModemPassthrough, SequenceTheorems, FiniteSetTheorems, TLAPS

(* What SubSeq cuts off a sequence at a point inside it is a sequence over   *)
(* the same set, on both sides, of the expected length.                    *)
LEMMA CutType ==
  ASSUME NEW S, NEW s \in Seq(S), NEW n \in 0 .. Len(s)
  PROVE  /\ SubSeq(s, 1, n) \in Seq(S)
         /\ Len(SubSeq(s, 1, n)) = n
         /\ SubSeq(s, n + 1, Len(s)) \in Seq(S)
         /\ Len(SubSeq(s, n + 1, Len(s))) = Len(s) - n
<1>1. Len(s) \in Nat /\ n \in Nat /\ n <= Len(s)
  BY LenProperties
<1>2. \A i \in 1 .. Len(s) : s[i] \in S
  BY ElementOfSeq
<1>3. SubSeq(s, 1, n) \in Seq(S) /\ Len(SubSeq(s, 1, n)) = n
  <2>1. \A i \in 1 .. n : s[i] \in S
    BY <1>1, <1>2
  <2>. QED  BY <1>1, <2>1, SubSeqProperties
<1>4. /\ SubSeq(s, n + 1, Len(s)) \in Seq(S)
      /\ Len(SubSeq(s, n + 1, Len(s))) = Len(s) - n
  <2>1. \A i \in n + 1 .. Len(s) : s[i] \in S
    BY <1>1, <1>2
  <2>. QED  BY <1>1, <2>1, SubSeqProperties
<1>. QED  BY <1>3, <1>4

(* Nothing gets lost at the cut.                                            *)
LEMMA CutRange ==
  ASSUME NEW S, NEW s \in Seq(S), NEW n \in 0 .. Len(s)
  PROVE  Range(s) = Range(SubSeq(s, 1, n)) \cup Range(SubSeq(s, n + 1, Len(s)))
<1>1. Len(s) \in Nat /\ n \in Nat /\ n <= Len(s)
  BY LenProperties
<1>2. s = SubSeq(s, 1, n) \o SubSeq(s, n + 1, Len(s))
  <2>1. 1 \in 1 .. Len(s) + 1 /\ n \in (1 - 1) .. Len(s) /\ Len(s) \in n .. Len(s)
    BY <1>1
  <2>2. SubSeq(s, 1, n) \o SubSeq(s, n + 1, Len(s)) = SubSeq(s, 1, Len(s))
    BY ONLY <2>1, ConcatAdjacentSubSeq, s \in Seq(S)
  <2>. QED  BY <2>2, SubSeqFull
<1>3. SubSeq(s, 1, n) \in Seq(S) /\ SubSeq(s, n + 1, Len(s)) \in Seq(S)
  BY CutType
<1>. QED  BY <1>2, <1>3, RangeConcatenation

(* The number of bytes a read or the handler moves is a place to cut.       *)
LEMMA LeastCut ==
  ASSUME NEW a \in Nat, NEW b \in Nat
  PROVE  Least(a, b) \in 0 .. b /\ Least(a, b) <= a /\ Least(b, a) \in 0 .. b
BY DEF Least

---------------------------------------------------------------------------
(* Each operation keeps the receive path well typed, the ring and the FIFO   *)
(* within their capacities.                                                *)

LEMMA AcquireType ==
  ASSUME RxTypeOK, NEW o \in Owners, Acquire(o)
  PROVE  RxTypeOK'
<1>. USE RxAssumption DEF RxTypeOK, Acquire
<1>1. ring' \in Seq(Bytes) /\ Len(ring') = 0
  OBVIOUS
<1>. QED  BY <1>1

LEMMA FailToAcquireType ==
  ASSUME RxTypeOK, FailToAcquire
  PROVE  RxTypeOK'
<1>. USE RxAssumption DEF RxTypeOK, FailToAcquire
<1>1. ring' \in Seq(Bytes) /\ Len(ring') <= RingSize
  OBVIOUS
<1>. QED  BY <1>1

LEMMA ReleaseType ==
  ASSUME RxTypeOK, NEW o \in Owners, Release(o)
  PROVE  RxTypeOK'
<1>. USE RxAssumption DEF RxTypeOK, Release
<1>1. ring' \in Seq(Bytes) /\ Len(ring') <= RingSize
  OBVIOUS
<1>2. owner' \in Owners
  BY DEF Owners
<1>. QED  BY <1>1, <1>2

LEMMA TakeType ==
  ASSUME RxTypeOK, Take
  PROVE  /\ RxTypeOK'
         /\ Chunk \in Seq(Bytes)
         /\ Len(Chunk) <= ChunkSize
<1>. DEFINE n == Least(ChunkSize, Len(ring))
<1>1. ring \in Seq(Bytes) /\ Len(ring) \in Nat /\ Len(ring) <= RingSize
  BY LenProperties DEF RxTypeOK
<1>2. n \in 0 .. Len(ring) /\ n <= ChunkSize
  BY <1>1, LeastCut, RxAssumption
<1>. HIDE DEF n
<1>3. /\ SubSeq(ring, 1, n) \in Seq(Bytes) /\ Len(SubSeq(ring, 1, n)) = n
      /\ SubSeq(ring, n + 1, Len(ring)) \in Seq(Bytes)
      /\ Len(SubSeq(ring, n + 1, Len(ring))) = Len(ring) - n
  BY <1>1, <1>2, CutType
<1>4. Chunk \in Seq(Bytes) /\ Len(Chunk) <= ChunkSize
  BY <1>2, <1>3 DEF Chunk, n
<1>5. ring' \in Seq(Bytes) /\ Len(ring') <= Len(ring)
  BY <1>1, <1>2, <1>3 DEF Take, n
<1>6. Len(ring') <= RingSize
  BY <1>1, <1>5, LenProperties, RxAssumption
<1>. QED  BY <1>4, <1>5, <1>6 DEF Take, RxTypeOK

LEMMA ModemSendType ==
  ASSUME RxTypeOK, ModemSend
  PROVE  RxTypeOK'
<1>1. fifo \in Seq(Bytes) /\ Len(fifo) \in Nat /\ Len(fifo) < FifoDepth
  BY LenProperties DEF RxTypeOK, ModemSend
<1>2. sent + 1 \in Bytes /\ sent' \in 0 .. MaxBytes
  BY RxAssumption DEF RxTypeOK, ModemSend, Bytes
<1>3. fifo' \in Seq(Bytes) /\ Len(fifo') = Len(fifo) + 1
  BY <1>1, <1>2, AppendProperties DEF ModemSend
<1>4. Len(fifo') <= FifoDepth
  BY <1>1, <1>3, RxAssumption
<1>. QED  BY <1>2, <1>3, <1>4 DEF RxTypeOK, ModemSend

(* What the handler stores is part of the FIFO, and it fits.                *)
LEMMA IrqCallbackType ==
  ASSUME RxTypeOK, IrqCallback
  PROVE  RxTypeOK'
<1>. DEFINE n    == Least(RingSize - Len(ring), Len(fifo))
            kept == SubSeq(fifo, 1, n)
<1>1. /\ ring \in Seq(Bytes) /\ Len(ring) \in Nat /\ Len(ring) <= RingSize
      /\ fifo \in Seq(Bytes) /\ Len(fifo) \in Nat
  BY LenProperties DEF RxTypeOK
<1>2. n \in 0 .. Len(fifo) /\ n <= RingSize - Len(ring)
  <2>1. RingSize - Len(ring) \in Nat
    BY <1>1, RxAssumption
  <2>. QED  BY <1>1, <2>1, LeastCut
<1>. HIDE DEF n
<1>3. kept \in Seq(Bytes) /\ Len(kept) = n
  BY <1>1, <1>2, CutType
<1>4. ring' = ring \o kept /\ accepted' = accepted \cup Range(kept) /\ fifo' = <<>>
  BY DEF IrqCallback, n
<1>. HIDE DEF kept
<1>5. ring' \in Seq(Bytes) /\ Len(ring') = Len(ring) + n
  BY <1>1, <1>3, <1>4, ConcatProperties
<1>6. Len(ring') <= RingSize
  BY <1>1, <1>2, <1>5, RxAssumption
<1>7. accepted' \subseteq Bytes
  <2>1. Range(kept) \subseteq Bytes
    BY <1>3, RangeOfSeq
  <2>. QED  BY <1>4, <2>1 DEF RxTypeOK
<1>8. fifo' \in Seq(Bytes) /\ Len(fifo') <= FifoDepth
  BY <1>4, RxAssumption
<1>. QED  BY <1>5, <1>6, <1>7, <1>8 DEF RxTypeOK, IrqCallback

-----------------------------------------------------------------------------
(* The types of the threads' own variables; RxTypeOK is the rest of TypeOK.  *)
ThreadTypeOK ==
  /\ pc \in {"prompt"} \cup AtPc \cup PtPc \cup StopPc
  /\ stage \in Stages
  /\ result \in Results
  /\ active \in BOOLEAN
  /\ shellSet \in BOOLEAN
  /\ bypass \in BOOLEAN
  /\ rx \in {"none", "check", "get", "use", "tx", "sleep"}
  /\ rxBuf \in Seq(Bytes) /\ Len(rxBuf) <= ChunkSize
  /\ printed \in Seq(Bytes)

LEMMA TypeSplit ==
  /\ TypeOK <=> RxTypeOK /\ ThreadTypeOK
  /\ TypeOK' <=> RxTypeOK' /\ ThreadTypeOK'
BY DEF TypeOK, ThreadTypeOK

LEMMA RxUnchangedType ==
  ASSUME RxTypeOK, UNCHANGED rxVars
  PROVE  RxTypeOK'
BY DEF RxTypeOK, rxVars

(* The ends of an AT exchange and of a command.                             *)
LEMMA AfterType ==
  ASSUME stage \in Stages, NEW r \in Results, After(r)
  PROVE  /\ pc' \in {"prompt", "at_open"}
         /\ stage' \in Stages
         /\ result' = r
BY DEF After, Stages

LEMMA AcquireErrorResult == AcquireError \in Results
BY DEF AcquireError, Results

---------------------------------------------------------------------------
(* The printers' buffers have room for a whole chunk, whatever its bytes.   *)

LEMMA TextFits ==
  ASSUME NEW s, NEW i \in 1 .. ChunkSize
  PROVE  TextEnd(s, i) < TextSize
<1>. DEFINE B == {j \in 1 .. i : s[j] \in Binary}
<1>1. i \in Nat /\ i <= ChunkSize /\ ChunkSize \in Nat
  BY RxAssumption
<1>2. IsFiniteSet(1 .. i) /\ Cardinality(1 .. i) = i
  BY <1>1, FS_Interval
<1>3. B \in SUBSET (1 .. i)
  OBVIOUS
<1>. HIDE DEF B
<1>4. IsFiniteSet(B) /\ Cardinality(B) <= i
  BY <1>2, <1>3, FS_Subset
<1>5. Cardinality(B) \in Nat
  BY <1>4, FS_CardinalityType
<1>6. TextEnd(s, i) = i + 3 * Cardinality(B)
  BY DEF TextEnd, B
<1>. QED  BY <1>1, <1>4, <1>5, <1>6 DEF TextSize

LEMMA NothingCutOff ==
  ASSUME NEW s \in Seq(Bytes), Len(s) <= ChunkSize
  PROVE  PrintText(s) = s /\ PrintTrace(s) = s
<1>1. Len(s) \in Nat /\ ChunkSize \in Nat
  BY LenProperties, RxAssumption
<1>2. Cardinality(1 .. Len(s)) = Len(s)
  <2>1. 1 \in Int /\ Len(s) \in Int
    BY <1>1
  <2>2. Cardinality(1 .. Len(s)) = IF 1 > Len(s) THEN 0 ELSE Len(s) - 1 + 1
    BY <2>1, FS_Interval
  <2>. QED  BY <1>1, <2>2
<1>3. {i \in 1 .. Len(s) : TextEnd(s, i) < TextSize} = 1 .. Len(s)
  <2>1. 1 .. Len(s) \subseteq 1 .. ChunkSize
    BY <1>1
  <2>2. \A i \in 1 .. Len(s) : TextEnd(s, i) < TextSize
    BY <2>1, TextFits
  <2>. QED  BY <2>2
<1>4. {i \in 1 .. Len(s) : TraceEnd(i) < TraceSize} = 1 .. Len(s)
  BY <1>1 DEF TraceEnd, TraceSize
<1>5. SubSeq(s, 1, Len(s)) = s
  BY SubSeqFull
<1>. QED  BY <1>2, <1>3, <1>4, <1>5 DEF PrintText, PrintTrace

LEMMA RxTxPrintsAll ==
  ASSUME TypeOK, RxTx
  PROVE  printed' = printed \o rxBuf
BY NothingCutOff DEF RxTx, TypeOK

---------------------------------------------------------------------------
(* Every step of the shell thread keeps its own variables typed.            *)
LEMMA CommandType ==
  ASSUME TypeOK, Command
  PROVE  TypeOK'
<1>. USE TypeSplit
<1>1. RxTypeOK'
  BY RxUnchangedType DEF Command, CmdAt, CmdPowerOn, CmdPassthrough
<1>2. ThreadTypeOK'
  BY DEF Command, CmdAt, CmdPowerOn, CmdPassthrough, Return, Step, ThreadTypeOK,
         rtVars, AtPc, PtPc, Stages, Results
<1>. QED  BY <1>1, <1>2

LEMMA TypedType ==
  ASSUME TypeOK, Typed
  PROVE  TypeOK'
<1>. USE TypeSplit
<1>1. RxTypeOK'
  BY RxUnchangedType DEF Typed, TypedData, TypedEscape
<1>2. ThreadTypeOK'
  BY DEF Typed, TypedData, TypedEscape, Step, ThreadTypeOK, rtVars, PtPc, StopPc
<1>. QED  BY <1>1, <1>2

LEMMA ShellStepType ==
  ASSUME TypeOK, ShellStep
  PROVE  TypeOK'
<1>. USE TypeSplit
<1>. USE DEF ThreadTypeOK, Step, Return, rtVars, shVars
<1>1. CASE AtOpen
  <2>1. CASE MayAcquire
    <3>1. Acquire("at") /\ Step("at_write")
      BY <1>1, <2>1 DEF AtOpen
    <3>2. RxTypeOK'
      BY <3>1, AcquireType DEF Owners
    <3>. QED  BY <1>1, <3>1, <3>2 DEF AtOpen, AtPc
  <2>2. CASE ~MayAcquire
    <3>1. FailToAcquire /\ After(AcquireError)
      BY <1>1, <2>2 DEF AtOpen
    <3>2. RxTypeOK'
      BY <3>1, FailToAcquireType
    <3>3. /\ pc' \in {"prompt", "at_open"} /\ stage' \in Stages /\ result' \in Results
      BY <3>1, AfterType, AcquireErrorResult
    <3>. QED  BY <1>1, <3>2, <3>3 DEF AtOpen, AtPc
  <2>. QED  BY <2>1, <2>2
<1>2. CASE AtWrite
  <2>1. CASE uartReady
    BY <1>2, <2>1, RxUnchangedType DEF AtWrite, AtPc
  <2>2. CASE ~uartReady
    <3>1. RxTypeOK'
      BY <1>2, <2>2, ReleaseType DEF AtWrite, Owners
    <3>2. "ENODEV" \in Results /\ After("ENODEV")
      BY <1>2, <2>2 DEF AtWrite, Results
    <3>3. pc' \in {"prompt", "at_open"} /\ stage' \in Stages /\ result' \in Results
      BY <3>2, AfterType
    <3>. QED  BY <1>2, <3>1, <3>3 DEF AtWrite, AtPc
  <2>. QED  BY <2>1, <2>2
<1>3. CASE AtReadMore
  BY <1>3, TakeType DEF AtReadMore
<1>4. ASSUME NEW r \in {"OK", "EIO"}, AtReadFinal(r)
      PROVE  TypeOK'
  BY <1>4, TakeType DEF AtReadFinal, AtPc, Results
<1>5. CASE AtTimeout
  BY <1>5, RxUnchangedType DEF AtTimeout, AtPc, Results
<1>6. CASE AtClose
  <2>1. RxTypeOK'
    BY <1>6, ReleaseType DEF AtClose, Owners
  <2>2. pc' \in {"prompt", "at_open"} /\ stage' \in Stages /\ result' \in Results
    BY <1>6, AfterType DEF AtClose
  <2>. QED  BY <1>6, <2>1, <2>2 DEF AtClose, AtPc
<1>7. CASE PtAcquire
  <2>1. CASE MayAcquire
    <3>1. RxTypeOK'
      BY <1>7, <2>1, AcquireType DEF PtAcquire, Owners
    <3>. QED  BY <1>7, <2>1, <3>1 DEF PtAcquire, PtPc
  <2>2. CASE ~MayAcquire
    <3>1. RxTypeOK'
      BY <1>7, <2>2, FailToAcquireType DEF PtAcquire
    <3>. QED  BY <1>7, <2>2, <3>1, AcquireErrorResult DEF PtAcquire
  <2>. QED  BY <2>1, <2>2
<1>8. CASE PtPublish
  BY <1>8, RxUnchangedType DEF PtPublish, PtPc
<1>9. CASE PtInstall
  BY <1>9, RxUnchangedType DEF PtInstall, Results
<1>10. CASE StopFlag
  BY <1>10, RxUnchangedType DEF StopFlag, StopPc
<1>11. CASE StopRelease
  <2>1. RxTypeOK'
    BY <1>11, ReleaseType DEF StopRelease, Owners
  <2>. QED  BY <1>11, <2>1 DEF StopRelease, StopPc
<1>12. CASE StopBypass
  BY <1>12, RxUnchangedType DEF StopBypass, StopPc
<1>13. CASE StopClear
  <2>1. ring' \in Seq(Bytes) /\ Len(ring') <= RingSize
    BY <1>13, RxAssumption DEF StopClear
  <2>2. RxTypeOK'
    BY <1>13, <2>1 DEF StopClear, RxTypeOK
  <2>. QED  BY <1>13, <2>2 DEF StopClear, Results
<1>14. CASE TypedWrite
  BY <1>14, RxUnchangedType DEF TypedWrite
<1>. QED
  BY <1>1, <1>2, <1>3, <1>4, <1>5, <1>6, <1>7, <1>8, <1>9, <1>10, <1>11, <1>12,
     <1>13, <1>14 DEF ShellStep

LEMMA RxThreadType ==
  ASSUME TypeOK, RxThread
  PROVE  TypeOK'
<1>. USE TypeSplit
<1>. USE DEF ThreadTypeOK, shVars
<1>1. CASE RxCheck
  BY <1>1, RxUnchangedType DEF RxCheck
<1>2. CASE RxGet
  BY <1>2, TakeType DEF RxGet
<1>3. CASE RxUse
  BY <1>3, RxUnchangedType DEF RxUse
<1>4. CASE RxTx
  <2>1. printed' \in Seq(Bytes)
    BY <1>4, ConcatProperties, RxTxPrintsAll
  <2>2. rxBuf' \in Seq(Bytes) /\ Len(rxBuf') <= ChunkSize
    BY <1>4, RxAssumption DEF RxTx
  <2>. QED  BY <1>4, <2>1, <2>2, RxUnchangedType DEF RxTx
<1>5. CASE RxWake
  BY <1>5, RxUnchangedType DEF RxWake
<1>. QED  BY <1>1, <1>2, <1>3, <1>4, <1>5 DEF RxThread

(* The program's variables keep their types: in particular the handler never *)
(* writes past the ring (modem_uart_rx_irq_cb) and the RX thread never reads *)
(* more than its chunk buffer holds (modem_passthrough_rx_thread).           *)
THEOREM TypeCorrect == Spec => []TypeOK
<1>1. Init => TypeOK
  <2>. SUFFICES ASSUME Init PROVE TypeOK
    OBVIOUS
  <2>0. <<>> \in Seq(Bytes) /\ Len(<<>>) = 0
    OBVIOUS
  <2>. USE RxAssumption
  <2>1. RxTypeOK
    <3>1. /\ ring \in Seq(Bytes) /\ Len(ring) <= RingSize
          /\ fifo \in Seq(Bytes) /\ Len(fifo) <= FifoDepth
      BY <2>0 DEF Init, RxInit
    <3>2. /\ uartReady \in BOOLEAN /\ configured \in BOOLEAN /\ irqOn \in BOOLEAN
          /\ owner \in Owners
      BY DEF Init, RxInit, Owners
    <3>3. sent \in 0 .. MaxBytes /\ accepted \subseteq Bytes
      BY DEF Init, RxInit
    <3>. QED  BY <3>1, <3>2, <3>3 DEF RxTypeOK
  <2>2. ThreadTypeOK
    <3>1. /\ rxBuf \in Seq(Bytes) /\ Len(rxBuf) <= ChunkSize
          /\ printed \in Seq(Bytes)
      BY <2>0 DEF Init
    <3>. QED  BY <3>1 DEF Init, ThreadTypeOK, Stages, Results
  <2>. QED  BY <2>1, <2>2, TypeSplit
<1>2. TypeOK /\ [Next]_vars => TypeOK'
  <2>. SUFFICES ASSUME TypeOK, [Next]_vars PROVE TypeOK'
    OBVIOUS
  <2>. USE TypeSplit
  <2>1. CASE Hardware
    <3>1. RxTypeOK'
      BY <2>1, ModemSendType, IrqCallbackType DEF Hardware
    <3>. QED  BY <2>1, <3>1 DEF Hardware, ThreadTypeOK, shVars, rtVars
  <2>2. CASE Command
    BY <2>2, CommandType
  <2>3. CASE Typed
    BY <2>3, TypedType
  <2>4. CASE ShellStep
    BY <2>4, ShellStepType
  <2>5. CASE RxThread
    BY <2>5, RxThreadType
  <2>6. CASE UNCHANGED vars
    BY <2>6, RxUnchangedType DEF vars, ThreadTypeOK, shVars, rtVars
  <2>. QED  BY <2>1, <2>2, <2>3, <2>4, <2>5, <2>6 DEF Next
<1>. QED  BY <1>1, <1>2, PTL DEF Spec

---------------------------------------------------------------------------
(* SessionInv is inductive.                                                 *)

LEMMA OwnerType == TypeOK => owner \in {"none", "at", "passthrough"}
BY DEF TypeOK, RxTypeOK, Owners

LEMMA SessionInit == Init => SessionInv
BY DEF Init, RxInit, SessionInv, ControlInv, OwnerInv, RxThreadInv, SessionOn

(* The interrupt touches neither the threads nor the owner, and it is on     *)
(* only while the path is owned.                                           *)
LEMMA HardwareSession ==
  ASSUME TypeOK, SessionInv, Hardware
  PROVE  SessionInv'
<1>. USE DEF SessionInv, ControlInv, OwnerInv, RxThreadInv, SessionOn
<1>1. UNCHANGED <<pc, stage, result, active, shellSet, bypass, rx, rxBuf, owner, irqOn>>
  BY DEF Hardware, ModemSend, IrqCallback, shVars, rtVars
<1>2. owner = "none" => UNCHANGED ring
  BY DEF Hardware, ModemSend, IrqCallback
<1>. QED  BY <1>1, <1>2

(* A command starts at the prompt, where nothing is owned, so that it never  *)
(* answers EBUSY.                                                          *)
LEMMA CommandSession ==
  ASSUME TypeOK, SessionInv, Command
  PROVE  SessionInv'
<1>. USE DEF SessionInv, ControlInv, OwnerInv, RxThreadInv, SessionOn
<1>1. pc = "prompt" /\ ~bypass /\ owner = "none" /\ ~active /\ ShellMayRun
  BY OwnerType DEF Command, CmdAt, CmdPowerOn, CmdPassthrough, ShellAt
<1>2. pc' \in {"prompt", "at_open", "pt_acquire"} /\ result' # "EBUSY"
  BY <1>1 DEF Command, CmdAt, CmdPowerOn, CmdPassthrough, Return, Step
<1>3. rx' = rx \/ (rx = "none" /\ rx' = "check")
  BY DEF Command, CmdAt, CmdPowerOn, CmdPassthrough, rtVars
<1>4. UNCHANGED <<owner, irqOn, ring, active, shellSet, bypass, rxBuf>>
  BY DEF Command, CmdAt, CmdPowerOn, CmdPassthrough, rtVars, rxVars
<1>. QED  BY <1>1, <1>2, <1>3, <1>4

LEMMA TypedSession ==
  ASSUME TypeOK, SessionInv, Typed
  PROVE  SessionInv'
<1>. USE DEF SessionInv, ControlInv, OwnerInv, RxThreadInv, SessionOn
<1>1. pc = "prompt" /\ bypass /\ active
  BY DEF Typed, TypedData, TypedEscape, ShellAt
<1>2. pc' \in {"prompt", "typed_write", "stop_flag"} /\ UNCHANGED result
  BY DEF Typed, TypedData, TypedEscape, Step
<1>3. UNCHANGED <<owner, irqOn, ring, active, shellSet, bypass, rx, rxBuf>>
  BY DEF Typed, TypedData, TypedEscape, rtVars, rxVars
<1>. QED  BY <1>1, <1>2, <1>3

(* The shell thread moves only while the RX thread is neither between its    *)
(* test of the session and its use of it.                                  *)
LEMMA ShellStepSession ==
  ASSUME TypeOK, SessionInv, ShellStep
  PROVE  SessionInv'
<1>. USE DEF SessionInv, ControlInv, OwnerInv, RxThreadInv, SessionOn
<1>0. rx \notin {"get", "use"} /\ UNCHANGED <<rx, rxBuf>>
  BY DEF ShellStep, ShellAt, ShellMayRun, AtOpen, AtWrite, AtReadMore, AtReadFinal,
         AtTimeout, AtClose, PtAcquire, PtPublish, PtInstall, TypedWrite, StopFlag, StopRelease,
         StopBypass, StopClear, rtVars
<1>1. CASE AtOpen
  <2>1. pc = "at_open" /\ owner = "none" /\ ~active
    BY <1>1, OwnerType DEF AtOpen, ShellAt
  <2>2. CASE MayAcquire
    BY <1>0, <1>1, <2>1, <2>2 DEF AtOpen, Acquire, Step
  <2>3. CASE ~MayAcquire
    <3>1. FailToAcquire /\ After(AcquireError) /\ AcquireError = "ENODEV"
      BY <1>1, <2>1, <2>3 DEF AtOpen, MayAcquire, AcquireError
    <3>2. pc' \in {"prompt", "at_open"} /\ result' = "ENODEV"
      BY <3>1 DEF After
    <3>3. ring' = <<>> /\ UNCHANGED <<owner, irqOn, active, shellSet, bypass>>
      BY <1>1, <2>1, <3>1 DEF AtOpen, FailToAcquire
    <3>. QED  BY <1>0, <2>1, <3>2, <3>3
  <2>. QED  BY <2>2, <2>3
<1>2. CASE AtWrite
  <2>1. CASE uartReady
    BY <1>0, <1>2, <2>1 DEF AtWrite, ShellAt, Step, rxVars
  <2>2. CASE ~uartReady
    <3>1. pc' \in {"prompt", "at_open"} /\ result' = "ENODEV"
      BY <1>2, <2>2 DEF AtWrite, After
    <3>. QED  BY <1>0, <1>2, <2>2, <3>1 DEF AtWrite, ShellAt, Release
  <2>. QED  BY <2>1, <2>2
<1>3. CASE AtReadMore
  BY <1>0, <1>3 DEF AtReadMore, ShellAt, Take, shVars
<1>4. ASSUME NEW r \in {"OK", "EIO"}, AtReadFinal(r)
      PROVE  SessionInv'
  BY <1>0, <1>4 DEF AtReadFinal, ShellAt, Take
<1>5. CASE AtTimeout
  BY <1>0, <1>5 DEF AtTimeout, ShellAt, rxVars
<1>6. CASE AtClose
  <2>1. pc' \in {"prompt", "at_open"} /\ result' = result
    BY <1>6 DEF AtClose, After
  <2>. QED  BY <1>0, <1>6, <2>1 DEF AtClose, ShellAt, Release
<1>7. CASE PtAcquire
  <2>1. pc = "pt_acquire" /\ owner = "none" /\ ~active
    BY <1>7, OwnerType DEF PtAcquire, ShellAt
  <2>2. CASE MayAcquire
    BY <1>0, <1>7, <2>1, <2>2 DEF PtAcquire, Acquire, Step
  <2>3. CASE ~MayAcquire
    <3>1. AcquireError = "ENODEV"
      BY <2>1, <2>3 DEF MayAcquire, AcquireError
    <3>. QED  BY <1>0, <1>7, <2>1, <2>3, <3>1 DEF PtAcquire, FailToAcquire, Return
  <2>. QED  BY <2>2, <2>3
<1>8. CASE PtPublish
  BY <1>0, <1>8 DEF PtPublish, ShellAt, Step, rxVars
<1>9. CASE PtInstall
  BY <1>0, <1>9 DEF PtInstall, ShellAt, Return, rxVars
<1>10. CASE StopFlag
  BY <1>0, <1>10 DEF StopFlag, ShellAt, Step, rxVars
<1>11. CASE StopRelease
  BY <1>0, <1>11 DEF StopRelease, ShellAt, Step, Release
<1>12. CASE StopBypass
  BY <1>0, <1>12 DEF StopBypass, ShellAt, Step, rxVars
<1>13. CASE StopClear
  BY <1>0, <1>13 DEF StopClear, ShellAt, Return
<1>14. CASE TypedWrite
  BY <1>0, <1>14 DEF TypedWrite, ShellAt, Step, rxVars
<1>. QED
  BY <1>1, <1>2, <1>3, <1>4, <1>5, <1>6, <1>7, <1>8, <1>9, <1>10, <1>11, <1>12,
     <1>13, <1>14 DEF ShellStep

LEMMA RxThreadSession ==
  ASSUME TypeOK, SessionInv, RxThread
  PROVE  SessionInv'
<1>. USE DEF SessionInv, ControlInv, OwnerInv, RxThreadInv, SessionOn, shVars
<1>1. CASE RxCheck
  BY <1>1 DEF RxCheck, rxVars
<1>2. CASE RxGet
  BY <1>2 DEF RxGet, Take
<1>3. CASE RxUse
  BY <1>3 DEF RxUse, rxVars
<1>4. CASE RxTx
  BY <1>4 DEF RxTx, rxVars
<1>5. CASE RxWake
  BY <1>5 DEF RxWake, rxVars
<1>. QED  BY <1>1, <1>2, <1>3, <1>4, <1>5 DEF RxThread

(* At every moment the shell thread's position says whether a session is on, *)
(* who owns the receive path and what the RX thread may be doing.          *)
THEOREM SessionCorrect == Spec => []SessionInv
<1>1. TypeOK /\ SessionInv /\ [Next]_vars => SessionInv'
  <2>. SUFFICES ASSUME TypeOK, SessionInv, [Next]_vars PROVE SessionInv'
    OBVIOUS
  <2>1. CASE UNCHANGED vars
    BY <2>1 DEF vars, rxVars, shVars, rtVars, SessionInv, ControlInv, OwnerInv,
                RxThreadInv, SessionOn
  <2>. QED
    BY <2>1, HardwareSession, CommandSession, TypedSession, ShellStepSession,
       RxThreadSession DEF Next
<1>. QED  BY <1>1, SessionInit, TypeCorrect, PTL DEF Spec

---------------------------------------------------------------------------
(* What follows from it.                                                    *)

(* modem_passthrough_rx_thread never hands a cleared passthroughShell to the *)
(* printing functions.                                                     *)
THEOREM NoNullShell == Spec => []NoNullShellWrite
<1>1. TypeOK /\ SessionInv => NoNullShellWrite
  BY DEF TypeOK, SessionInv, ControlInv, RxThreadInv, NoNullShellWrite
<1>. QED  BY <1>1, TypeCorrect, SessionCorrect, PTL

(* The RX thread reads the ring only as its owner.                          *)
THEOREM RingHasOneReader == Spec => []OneReader
<1>1. SessionInv => OneReader
  BY DEF SessionInv, OwnerInv, RxThreadInv, OneReader
<1>. QED  BY <1>1, SessionCorrect, PTL

(* Every path through at, power and passthrough gives back what it took.    *)
THEOREM NoLeak == Spec => []NothingLeaks
<1>1. TypeOK /\ SessionInv => NothingLeaks
  BY OwnerType DEF SessionInv, ControlInv, OwnerInv, SessionOn, NothingLeaks
<1>. QED  BY <1>1, TypeCorrect, SessionCorrect, PTL

(* No command is ever refused as busy.                                      *)
THEOREM NoLockout == Spec => []NeverLockedOut
<1>1. SessionInv => NeverLockedOut
  BY DEF SessionInv, NeverLockedOut
<1>. QED  BY <1>1, SessionCorrect, PTL

(* Once passthroughActive is cleared, nothing more is taken out of the ring  *)
(* for the screen.                                                         *)
THEOREM StopEndsReading == Spec => NoReadAfterStop
<1>1. SessionInv /\ [Next]_vars => [rxBuf' # rxBuf /\ rxBuf' # <<>> => active]_vars
  <2>. SUFFICES ASSUME SessionInv, Next, rxBuf' # rxBuf, rxBuf' # <<>>
                PROVE  active
    OBVIOUS
  <2>1. RxThread
    BY DEF Next, Hardware, Command, CmdAt, CmdPowerOn, CmdPassthrough, Typed,
           TypedData, TypedEscape, ShellStep, AtOpen, AtWrite, AtReadMore,
           AtReadFinal, AtTimeout, AtClose, PtAcquire, PtPublish, PtInstall, TypedWrite,
           StopFlag, StopRelease, StopBypass, StopClear, rtVars
  <2>2. rx = "get"
    BY <2>1 DEF RxThread, RxCheck, RxGet, RxUse, RxTx, RxWake
  <2>. QED  BY <2>2 DEF SessionInv, RxThreadInv
<1>. QED  BY <1>1, SessionCorrect, PTL DEF Spec, NoReadAfterStop

---------------------------------------------------------------------------
(* A session loses nothing that the handler stored.                         *)

(* SessionLossless from the moment the path is acquired to its release: as   *)
(* an invariant it must cover the steps before and after `active`.          *)
StoredInv ==
  owner = "passthrough" =>
    accepted \subseteq Range(printed) \cup Range(rxBuf) \cup Range(ring)

LEMMA StoredStep ==
  ASSUME TypeOK, SessionInv, StoredInv, [Next]_vars
  PROVE  StoredInv'
<1>. USE DEF StoredInv
<1>1. CASE Hardware
  <2>1. UNCHANGED <<owner, printed, rxBuf>>
    BY <1>1 DEF Hardware, ModemSend, IrqCallback, rtVars
  <2>2. CASE ModemSend
    BY <2>1, <2>2 DEF ModemSend
  <2>3. CASE IrqCallback
    <3>. DEFINE n    == Least(RingSize - Len(ring), Len(fifo))
                kept == SubSeq(fifo, 1, n)
    <3>1. /\ ring \in Seq(Bytes) /\ Len(ring) \in Nat /\ Len(ring) <= RingSize
          /\ fifo \in Seq(Bytes) /\ Len(fifo) \in Nat
      BY LenProperties DEF TypeOK, RxTypeOK
    <3>2. n \in 0 .. Len(fifo)
      <4>1. RingSize - Len(ring) \in Nat
        BY <3>1, RxAssumption
      <4>. QED  BY <3>1, <4>1, LeastCut
    <3>3. kept \in Seq(Bytes)
      <4>. HIDE DEF n
      <4>. QED  BY <3>1, <3>2, CutType
    <3>4. ring' = ring \o kept /\ accepted' = accepted \cup Range(kept)
      BY <2>3 DEF IrqCallback
    <3>. HIDE DEF kept
    <3>5. Range(ring') = Range(ring) \cup Range(kept)
      BY <3>1, <3>3, <3>4, RangeConcatenation
    <3>. QED  BY <2>1, <3>4, <3>5
  <2>. QED  BY <1>1, <2>2, <2>3 DEF Hardware
<1>2. CASE Command
  BY <1>2 DEF Command, CmdAt, CmdPowerOn, CmdPassthrough, rxVars, rtVars
<1>3. CASE Typed
  BY <1>3 DEF Typed, TypedData, TypedEscape, rxVars, rtVars
<1>4. CASE ShellStep
  <2>1. UNCHANGED <<printed, rxBuf>>
    BY <1>4 DEF ShellStep, AtOpen, AtWrite, AtReadMore, AtReadFinal, AtTimeout, AtClose,
                PtAcquire, PtPublish, PtInstall, TypedWrite, StopFlag, StopRelease, StopBypass,
                StopClear, rtVars
  <2>2. CASE PtAcquire
    BY <2>1, <2>2 DEF PtAcquire, Acquire, FailToAcquire, ShellAt,
       SessionInv, OwnerInv, ControlInv, SessionOn
  <2>3. CASE ~PtAcquire
    <3>1. owner' = "passthrough" => UNCHANGED <<owner, ring, accepted>>
      BY <1>4, <2>3 DEF ShellStep, AtOpen, AtWrite, AtReadMore, AtReadFinal, AtTimeout,
         AtClose, PtPublish, PtInstall, TypedWrite, StopFlag, StopRelease, StopBypass, StopClear,
         ShellAt, Acquire, FailToAcquire, Release, Take, rxVars, SessionInv, OwnerInv,
         ControlInv, SessionOn
    <3>. QED  BY <2>1, <3>1
  <2>. QED  BY <2>2, <2>3
<1>5. CASE RxGet
  <2>. DEFINE n == Least(ChunkSize, Len(ring))
  <2>1. ring \in Seq(Bytes) /\ Len(ring) \in Nat /\ n \in 0 .. Len(ring)
    BY LenProperties, LeastCut, RxAssumption DEF TypeOK, RxTypeOK
  <2>2. rxBuf = <<>> /\ UNCHANGED <<owner, accepted, printed>>
    BY <1>5 DEF SessionInv, RxThreadInv, RxGet, Take
  <2>3. rxBuf' = SubSeq(ring, 1, n) /\ ring' = SubSeq(ring, n + 1, Len(ring))
    BY <1>5 DEF RxGet, Chunk, Take
  <2>. HIDE DEF n
  <2>4. Range(ring) = Range(rxBuf') \cup Range(ring')
    BY <2>1, <2>3, CutRange
  <2>5. Range(rxBuf) = {}
    BY <2>2 DEF Range
  <2>. QED  BY <2>2, <2>4, <2>5
<1>6. CASE RxTx
  <2>1. /\ printed \in Seq(Bytes) /\ rxBuf \in Seq(Bytes)
        /\ printed' = printed \o rxBuf
    BY <1>6, RxTxPrintsAll DEF TypeOK
  <2>2. Range(printed') = Range(printed) \cup Range(rxBuf)
    BY <2>1, RangeConcatenation
  <2>. QED  BY <1>6, <2>2 DEF RxTx, rxVars
<1>7. CASE RxCheck \/ RxUse \/ RxWake
  BY <1>7 DEF RxCheck, RxUse, RxWake, rxVars
<1>8. CASE UNCHANGED vars
  BY <1>8 DEF vars, rxVars, rtVars
<1>. QED  BY <1>1, <1>2, <1>3, <1>4, <1>5, <1>6, <1>7, <1>8 DEF Next, RxThread

(* While a session is on, every byte that modem_uart_rx_irq_cb stored for it  *)
(* is printed, in the RX thread's hands or still in the ring.              *)
THEOREM NoLossInSession == Spec => []SessionLossless
<1>1. Init => StoredInv
  BY DEF Init, RxInit, StoredInv
<1>2. SessionInv /\ StoredInv => SessionLossless
  BY DEF SessionInv, OwnerInv, StoredInv, SessionLossless
<1>. QED  BY <1>1, <1>2, StoredStep, TypeCorrect, SessionCorrect, PTL DEF Spec

-----------------------------------------------------------------------------
InOrder(s) == Lease!InOrder(s)

Before(S, T) == \A x \in S, y \in T : x < y

(* In each place the bytes are in the order of arrival, and a place further  *)
(* on holds earlier bytes.                                                 *)
EachInOrder == InOrder(printed) /\ InOrder(rxBuf) /\ InOrder(ring) /\ InOrder(fifo)

PlacesInOrder ==
  /\ Before(Range(printed), Range(rxBuf) \cup Range(ring) \cup Range(fifo))
  /\ Before(Range(rxBuf), Range(ring) \cup Range(fifo))
  /\ Before(Range(ring), Range(fifo))

OnlySent ==
  Range(printed) \cup Range(rxBuf) \cup Range(ring) \cup Range(fifo) \subseteq 1 .. sent

OrderInv == EachInOrder /\ PlacesInOrder /\ OnlySent

-----------------------------------------------------------------------------
(* Ordered sequences of bytes, put together and cut.                        *)

LEMMA EmptyOrder == InOrder(<<>>) /\ Range(<<>>) = {}
<1>1. Len(<<>>) = 0 /\ DOMAIN <<>> = {}
  OBVIOUS
<1>. QED  BY <1>1 DEF InOrder, Lease!InOrder, Range

LEMMA ElementInRange ==
  ASSUME NEW s \in Seq(Bytes), NEW i \in 1 .. Len(s)
  PROVE  s[i] \in Range(s) /\ s[i] \in Bytes
BY LenProperties, ElementOfSeq DEF Range

LEMMA ConcatOrder ==
  ASSUME NEW s \in Seq(Bytes), NEW t \in Seq(Bytes),
         InOrder(s), InOrder(t), Before(Range(s), Range(t))
  PROVE  InOrder(s \o t)
<1>. SUFFICES ASSUME NEW i \in 1 .. Len(s \o t), NEW j \in 1 .. Len(s \o t), i < j
              PROVE  (s \o t)[i] < (s \o t)[j]
  BY DEF InOrder, Lease!InOrder
<1>1. /\ Len(s) \in Nat /\ Len(t) \in Nat
      /\ Len(s \o t) = Len(s) + Len(t)
      /\ \A k \in 1 .. Len(s) + Len(t) :
           (s \o t)[k] = IF k <= Len(s) THEN s[k] ELSE t[k - Len(s)]
  BY LenProperties, ConcatProperties
<1>2. CASE j <= Len(s)
  <2>1. i \in 1 .. Len(s) /\ j \in 1 .. Len(s)
    BY <1>1, <1>2
  <2>2. s[i] < s[j]
    BY <2>1 DEF InOrder, Lease!InOrder
  <2>. QED  BY <1>1, <1>2, <2>1, <2>2
<1>3. CASE i > Len(s)
  <2>1. i - Len(s) \in 1 .. Len(t) /\ j - Len(s) \in 1 .. Len(t)
    BY <1>1, <1>3
  <2>2. t[i - Len(s)] < t[j - Len(s)]
    BY <1>1, <2>1 DEF InOrder, Lease!InOrder
  <2>. QED  BY <1>1, <1>3, <2>1, <2>2
<1>4. CASE i <= Len(s) /\ j > Len(s)
  <2>1. i \in 1 .. Len(s) /\ j - Len(s) \in 1 .. Len(t)
    BY <1>1, <1>4
  <2>2. s[i] < t[j - Len(s)]
    BY <2>1, ElementInRange DEF Before
  <2>. QED  BY <1>1, <1>4, <2>1, <2>2
<1>. QED  BY <1>1, <1>2, <1>3, <1>4

LEMMA CutOrder ==
  ASSUME NEW s \in Seq(Bytes), NEW n \in 0 .. Len(s), InOrder(s)
  PROVE  /\ InOrder(SubSeq(s, 1, n))
         /\ InOrder(SubSeq(s, n + 1, Len(s)))
         /\ Before(Range(SubSeq(s, 1, n)), Range(SubSeq(s, n + 1, Len(s))))
<1>. DEFINE l == SubSeq(s, 1, n)
            r == SubSeq(s, n + 1, Len(s))
<1>1. Len(s) \in Nat /\ n \in Nat /\ n <= Len(s)
  BY LenProperties
<1>2. \A i, j \in 1 .. Len(s) : i < j => s[i] < s[j]
  BY DEF InOrder, Lease!InOrder
<1>3. /\ l \in Seq(Bytes) /\ Len(l) = n
      /\ r \in Seq(Bytes) /\ Len(r) = Len(s) - n
  BY CutType
<1>4. \A i \in 1 .. n : l[i] = s[i]
  <2>1. \A i \in 1 .. n : s[i] \in Bytes
    BY <1>1, ElementInRange
  <2>2. \A i \in 1 .. n - 1 + 1 : l[i] = s[1 + i - 1]
    BY <1>1, <2>1, SubSeqProperties
  <2>. QED  BY <1>1, <2>2
<1>5. \A i \in 1 .. Len(s) - n : r[i] = s[n + i]
  <2>1. \A i \in n + 1 .. Len(s) : s[i] \in Bytes
    BY <1>1, ElementInRange
  <2>2. \A i \in 1 .. Len(s) - (n + 1) + 1 : r[i] = s[n + 1 + i - 1]
    BY <1>1, <2>1, SubSeqProperties
  <2>. QED  BY <1>1, <2>2
<1>. HIDE DEF l, r
<1>6. InOrder(l)
  BY <1>1, <1>2, <1>3, <1>4 DEF InOrder, Lease!InOrder
<1>7. InOrder(r)
  BY <1>1, <1>2, <1>3, <1>5 DEF InOrder, Lease!InOrder
<1>8. Before(Range(l), Range(r))
  <2>. SUFFICES ASSUME NEW x \in Range(l), NEW y \in Range(r)
                PROVE  x < y
    BY DEF Before
  <2>1. PICK i \in 1 .. n : x = l[i]
    BY <1>3, LenProperties DEF Range
  <2>2. PICK j \in 1 .. Len(s) - n : y = r[j]
    BY <1>3, LenProperties DEF Range
  <2>3. i \in 1 .. Len(s) /\ n + j \in 1 .. Len(s) /\ i < n + j
    BY <1>1
  <2>. QED  BY <1>2, <1>4, <1>5, <2>1, <2>2, <2>3
<1>. QED  BY <1>6, <1>7, <1>8 DEF l, r

---------------------------------------------------------------------------
(* OrderInv is inductive.                                                   *)

LEMMA SendOrder ==
  ASSUME TypeOK, OrderInv, ModemSend, UNCHANGED <<printed, rxBuf>>
  PROVE  OrderInv'
<1>. DEFINE b == <<sent + 1>>
<1>1. sent \in Nat /\ sent + 1 \in Bytes /\ sent' = sent + 1 /\ UNCHANGED ring
  BY RxAssumption DEF ModemSend, TypeOK, RxTypeOK, Bytes
<1>2. b \in Seq(Bytes) /\ InOrder(b) /\ Range(b) = {sent + 1}
  <2>1. Len(b) = 1 /\ b[1] = sent + 1 /\ DOMAIN b = {1}
    OBVIOUS
  <2>. QED  BY <1>1, <2>1 DEF InOrder, Lease!InOrder, Range
<1>3. fifo \in Seq(Bytes) /\ fifo' = fifo \o b
  BY <1>1 DEF ModemSend, TypeOK, RxTypeOK
<1>. HIDE DEF b
<1>4. Range(fifo') = Range(fifo) \cup {sent + 1}
  BY <1>2, <1>3, RangeConcatenation
<1>5. Before(Range(fifo), Range(b))
  BY <1>1, <1>2 DEF OrderInv, OnlySent, Before
<1>6. InOrder(fifo')
  BY <1>2, <1>3, <1>5, ConcatOrder DEF OrderInv, EachInOrder
<1>7. EachInOrder'
  BY <1>1, <1>6 DEF OrderInv, EachInOrder
<1>8. PlacesInOrder'
  BY <1>1, <1>4 DEF OrderInv, PlacesInOrder, OnlySent, Before
<1>9. OnlySent'
  BY <1>1, <1>4 DEF OrderInv, OnlySent
<1>. QED  BY <1>7, <1>8, <1>9 DEF OrderInv

LEMMA IrqOrder ==
  ASSUME TypeOK, OrderInv, IrqCallback, UNCHANGED <<printed, rxBuf>>
  PROVE  OrderInv'
<1>. DEFINE n    == Least(RingSize - Len(ring), Len(fifo))
            kept == SubSeq(fifo, 1, n)
<1>1. /\ ring \in Seq(Bytes) /\ Len(ring) \in Nat /\ Len(ring) <= RingSize
      /\ fifo \in Seq(Bytes) /\ Len(fifo) \in Nat
  BY LenProperties DEF TypeOK, RxTypeOK
<1>2. n \in 0 .. Len(fifo)
  <2>1. RingSize - Len(ring) \in Nat
    BY <1>1, RxAssumption
  <2>. QED  BY <1>1, <2>1, LeastCut
<1>3. ring' = ring \o kept /\ fifo' = <<>> /\ UNCHANGED sent
  BY DEF IrqCallback
<1>. HIDE DEF n
<1>4. kept \in Seq(Bytes) /\ InOrder(kept) /\ Range(kept) \subseteq Range(fifo)
  BY <1>1, <1>2, CutType, CutOrder, CutRange DEF OrderInv, EachInOrder
<1>. HIDE DEF kept
<1>5. Range(ring') = Range(ring) \cup Range(kept) /\ Range(fifo') = {}
  BY <1>1, <1>3, <1>4, RangeConcatenation, EmptyOrder
<1>6. Before(Range(ring), Range(kept))
  BY <1>4 DEF OrderInv, PlacesInOrder, Before
<1>7. EachInOrder'
  BY <1>1, <1>3, <1>4, <1>6, ConcatOrder, EmptyOrder DEF OrderInv, EachInOrder
<1>8. PlacesInOrder'
  BY <1>4, <1>5 DEF OrderInv, PlacesInOrder, Before
<1>9. OnlySent'
  BY <1>3, <1>4, <1>5 DEF OrderInv, OnlySent
<1>. QED  BY <1>7, <1>8, <1>9 DEF OrderInv

(* Any step that leaves a suffix of the ring and nothing else.              *)
LEMMA DropOrder ==
  ASSUME TypeOK, OrderInv, UNCHANGED <<printed, rxBuf, fifo, sent>>,
         InOrder(ring'), Range(ring') \subseteq Range(ring)
  PROVE  OrderInv'
BY DEF OrderInv, EachInOrder, PlacesInOrder, OnlySent, Before

LEMMA TakeCut ==
  ASSUME TypeOK, OrderInv, Take
  PROVE  /\ Chunk \in Seq(Bytes)
         /\ InOrder(Chunk)
         /\ InOrder(ring')
         /\ Before(Range(Chunk), Range(ring'))
         /\ Range(ring) = Range(Chunk) \cup Range(ring')
<1>. DEFINE n == Least(ChunkSize, Len(ring))
<1>1. ring \in Seq(Bytes) /\ Len(ring) \in Nat /\ n \in 0 .. Len(ring)
  BY LenProperties, LeastCut, RxAssumption DEF TypeOK, RxTypeOK
<1>2. Chunk = SubSeq(ring, 1, n) /\ ring' = SubSeq(ring, n + 1, Len(ring))
  BY DEF Chunk, Take
<1>. HIDE DEF n
<1>3. InOrder(ring)
  BY DEF OrderInv, EachInOrder
<1>. QED  BY <1>1, <1>2, <1>3, CutType, CutOrder, CutRange

LEMMA ShellStepOrder ==
  ASSUME TypeOK, OrderInv, ShellStep
  PROVE  OrderInv'
<1>1. UNCHANGED <<printed, rxBuf, fifo, sent>>
  BY DEF ShellStep, AtOpen, AtWrite, AtReadMore, AtReadFinal, AtTimeout, AtClose,
         PtAcquire, PtPublish, PtInstall, TypedWrite, StopFlag, StopRelease, StopBypass, StopClear,
         rtVars, rxVars, Acquire, FailToAcquire, Release, Take
<1>2. ring' = ring \/ ring' = <<>> \/ Take
  BY DEF ShellStep, AtOpen, AtWrite, AtReadMore, AtReadFinal, AtTimeout, AtClose,
         PtAcquire, PtPublish, PtInstall, TypedWrite, StopFlag, StopRelease, StopBypass, StopClear,
         rxVars, Acquire, FailToAcquire, Release
<1>3. InOrder(ring') /\ Range(ring') \subseteq Range(ring)
  <2>1. CASE ring' = ring
    BY <2>1 DEF OrderInv, EachInOrder
  <2>2. CASE ring' = <<>>
    BY <2>2, EmptyOrder
  <2>3. CASE Take
    BY <2>3, TakeCut
  <2>. QED  BY <1>2, <2>1, <2>2, <2>3
<1>. QED  BY <1>1, <1>3, DropOrder

LEMMA RxThreadOrder ==
  ASSUME TypeOK, SessionInv, OrderInv, RxThread
  PROVE  OrderInv'
<1>1. CASE RxGet
  <2>1. rxBuf = <<>> /\ rxBuf' = Chunk /\ Take /\ UNCHANGED <<printed, fifo, sent>>
    BY <1>1 DEF RxGet, Take, SessionInv, RxThreadInv
  <2>2. EachInOrder'
    BY <2>1, TakeCut DEF OrderInv, EachInOrder
  <2>3. PlacesInOrder'
    BY <2>1, TakeCut DEF OrderInv, PlacesInOrder, Before
  <2>4. OnlySent'
    BY <2>1, TakeCut DEF OrderInv, OnlySent
  <2>. QED  BY <2>2, <2>3, <2>4 DEF OrderInv
<1>2. CASE RxTx
  <2>1. /\ printed \in Seq(Bytes) /\ rxBuf \in Seq(Bytes)
        /\ printed' = printed \o rxBuf /\ rxBuf' = <<>>
        /\ UNCHANGED <<ring, fifo, sent>>
    BY <1>2, RxTxPrintsAll DEF RxTx, TypeOK, rxVars
  <2>2. Range(printed') = Range(printed) \cup Range(rxBuf) /\ Range(rxBuf') = {}
    BY <2>1, RangeConcatenation, EmptyOrder
  <2>3. Before(Range(printed), Range(rxBuf))
    BY DEF OrderInv, PlacesInOrder, Before
  <2>4. EachInOrder'
    BY <2>1, <2>3, ConcatOrder, EmptyOrder DEF OrderInv, EachInOrder
  <2>5. PlacesInOrder'
    BY <2>1, <2>2 DEF OrderInv, PlacesInOrder, Before
  <2>6. OnlySent'
    BY <2>1, <2>2 DEF OrderInv, OnlySent
  <2>. QED  BY <2>4, <2>5, <2>6 DEF OrderInv
<1>3. CASE RxCheck \/ RxUse \/ RxWake
  BY <1>3 DEF RxCheck, RxUse, RxWake, rxVars, OrderInv, EachInOrder, PlacesInOrder,
              OnlySent
<1>. QED  BY <1>1, <1>2, <1>3 DEF RxThread

THEOREM OrderCorrect == Spec => []OrderInv
<1>1. Init => OrderInv
  <2>. SUFFICES ASSUME Init PROVE OrderInv
    OBVIOUS
  <2>1. printed = <<>> /\ rxBuf = <<>> /\ ring = <<>> /\ fifo = <<>>
    BY DEF Init, RxInit
  <2>. QED
    BY <2>1, EmptyOrder DEF OrderInv, EachInOrder, PlacesInOrder, OnlySent, Before
<1>2. TypeOK /\ SessionInv /\ OrderInv /\ [Next]_vars => OrderInv'
  <2>. SUFFICES ASSUME TypeOK, SessionInv, OrderInv, [Next]_vars PROVE OrderInv'
    OBVIOUS
  <2>1. CASE Hardware
    BY <2>1, SendOrder, IrqOrder DEF Hardware, rtVars
  <2>2. CASE Command \/ Typed \/ UNCHANGED vars
    <3>1. UNCHANGED <<printed, rxBuf, ring, fifo, sent>>
      BY <2>2 DEF Command, CmdAt, CmdPowerOn, CmdPassthrough, Typed, TypedData,
                  TypedEscape, vars, rxVars, rtVars
    <3>. QED  BY <3>1 DEF OrderInv, EachInOrder, PlacesInOrder, OnlySent
  <2>3. CASE ShellStep
    BY <2>3, ShellStepOrder
  <2>4. CASE RxThread
    BY <2>4, RxThreadOrder
  <2>. QED  BY <2>1, <2>2, <2>3, <2>4 DEF Next
<1>. QED  BY <1>1, <1>2, TypeCorrect, SessionCorrect, PTL DEF Spec

---------------------------------------------------------------------------
(* Each step maps to one of RxLease or to a stutter.                        *)

LEMMA HandOver ==
  ASSUME TypeOK, SessionInv, ShellStep
  PROVE  [Lease!Next]_Lease!vars
<1>1. UNCHANGED <<printed, rxBuf>>
  BY DEF ShellStep, AtOpen, AtWrite, AtReadMore, AtReadFinal, AtTimeout, AtClose,
         PtAcquire, PtPublish, PtInstall, TypedWrite, StopFlag, StopRelease, StopBypass, StopClear,
         rtVars
<1>2. \/ UNCHANGED owner
      \/ owner = "none" /\ owner' \in {"at", "passthrough"}
      \/ owner # "none" /\ owner' = "none"
  BY DEF ShellStep, AtOpen, AtWrite, AtReadMore, AtReadFinal, AtTimeout, AtClose,
         PtAcquire, PtPublish, PtInstall, TypedWrite, StopFlag, StopRelease, StopBypass, StopClear,
         MayAcquire, AcquireError, Acquire, FailToAcquire, Release, Take, rxVars
<1>. QED
  BY <1>1, <1>2 DEF Lease!Next, Lease!Lend, Lease!GiveBack, Lease!Holders, Lease!vars

LEMMA GetDelivers ==
  ASSUME TypeOK, SessionInv, OrderInv, RxGet
  PROVE  [Lease!Next]_Lease!vars
<1>1. /\ owner = "passthrough" /\ rxBuf = <<>> /\ rxBuf' = Chunk
      /\ Take /\ UNCHANGED <<owner, printed>>
  BY DEF RxGet, Take, SessionInv, OwnerInv, RxThreadInv
<1>2. printed \in Seq(Bytes) /\ Chunk \in Seq(Bytes)
  BY <1>1, TakeCut DEF TypeOK
<1>3. printed \o rxBuf = printed /\ (printed \o rxBuf)' = printed \o Chunk
  BY <1>1, <1>2, ConcatEmptySeq
<1>4. CASE Chunk = <<>>
  BY <1>1, <1>3, <1>4 DEF Lease!vars
<1>5. CASE Chunk # <<>>
  <2>1. Len(printed \o Chunk) > Len(printed)
    BY <1>2, <1>5, EmptySeq, LenProperties, ConcatProperties
  <2>2. SubSeq(printed \o Chunk, 1, Len(printed)) = printed
    BY <1>2
  <2>3. InOrder(printed \o Chunk)
    <3>1. Before(Range(printed), Range(Chunk))
      BY <1>1, TakeCut DEF OrderInv, PlacesInOrder, Before
    <3>. QED  BY <1>1, <1>2, <3>1, TakeCut, ConcatOrder DEF OrderInv, EachInOrder
  <2>4. Lease!Deliver
    BY <1>1, <1>3, <2>1, <2>2, <2>3 DEF Lease!Deliver, InOrder
  <2>. QED  BY <2>4 DEF Lease!Next
<1>. QED  BY <1>4, <1>5

(* The receive path is only ever lent to one user at a time, and what the    *)
(* passthrough session puts on the screen, over all sessions, is in the     *)
(* order the modem sent it, nothing twice.                                 *)
THEOREM LeaseImplemented == Spec => ImplementsLease
<1>1. Init => Lease!Init
  <2>1. <<>> \o <<>> = <<>>
    OBVIOUS
  <2>. QED  BY <2>1 DEF Init, RxInit, Lease!Init
<1>2. TypeOK /\ SessionInv /\ OrderInv /\ [Next]_vars => [Lease!Next]_Lease!vars
  <2>. SUFFICES ASSUME TypeOK, SessionInv, OrderInv, [Next]_vars
                PROVE  [Lease!Next]_Lease!vars
    OBVIOUS
  <2>1. CASE Hardware \/ Command \/ Typed \/ RxCheck \/ RxUse \/ RxWake \/ UNCHANGED vars
    <3>1. UNCHANGED <<owner, printed, rxBuf>>
      BY <2>1 DEF Hardware, ModemSend, IrqCallback, Command, CmdAt, CmdPowerOn,
                  CmdPassthrough, Typed, TypedData, TypedEscape, RxCheck, RxUse, RxWake,
                  vars, rxVars, rtVars
    <3>. QED  BY <3>1 DEF Lease!vars
  <2>2. CASE ShellStep
    BY <2>2, HandOver
  <2>3. CASE RxGet
    BY <2>3, GetDelivers
  <2>4. CASE RxTx
    <3>1. /\ printed \in Seq(Bytes) /\ rxBuf \in Seq(Bytes)
          /\ printed' = printed \o rxBuf /\ rxBuf' = <<>> /\ UNCHANGED owner
      BY <2>4, RxTxPrintsAll DEF RxTx, TypeOK, rxVars
    <3>2. (printed \o rxBuf)' = printed \o rxBuf
      BY <3>1, ConcatProperties, ConcatEmptySeq
    <3>. QED  BY <3>1, <3>2 DEF Lease!vars
  <2>. QED  BY <2>1, <2>2, <2>3, <2>4 DEF Next, RxThread
<1>. QED
  BY <1>1, <1>2, TypeCorrect, SessionCorrect, OrderCorrect, PTL
     DEF Spec, ImplementsLease, Lease!Spec

=============================================================================
