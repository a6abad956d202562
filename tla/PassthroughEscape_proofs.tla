---------------------- MODULE PassthroughEscape_proofs ----------------------
(***************************************************************************)
(* The escape detection of modem_passthrough_bypass_cb is exact for every   *)
(* set of keys, every chunk size and every length of input.                *)
(***************************************************************************)
EXTENDS PassthroughEscape, SequenceTheorems, TLAPS

LEMMA ChunkIsSeq ==
  ASSUME NEW data \in Chunks, data # <<>>
  PROVE  data \in Seq(Keys) /\ Len(data) \in Nat \ {0}
<1>1. PICK n \in 0 .. MaxChunk : data \in [1 .. n -> Keys]
  BY DEF Chunks
<1>2. data \in Seq(Keys) /\ Len(data) = n
  BY <1>1, EscapeAssumption
<1>. QED  BY <1>1, <1>2, EmptySeq, EscapeAssumption

(* The pair is in a concatenation if it is in a part or across the cut.     *)
LEMMA EscapeInConcat ==
  ASSUME NEW s \in Seq(Keys), NEW t \in Seq(Keys), t # <<>>
  PROVE  HasEscape(s \o t) <=>
           \/ HasEscape(s)
           \/ HasEscape(t)
           \/ /\ s # <<>>
              /\ s[Len(s)] = EscapePrefix
              /\ t[1] = EscapeSuffix
<1>. DEFINE m == Len(s)
            n == Len(t)
            u == s \o t
<1>1. /\ m \in Nat /\ n \in Nat /\ n > 0
      /\ Len(u) = m + n
      /\ \A i \in 1 .. m : u[i] = s[i]
      /\ \A i \in 1 .. n : u[m + i] = t[i]
      /\ s # <<>> <=> m > 0
  BY ConcatProperties, EmptySeq, LenProperties
<1>. HIDE DEF m, n, u
<1>2. ASSUME HasEscape(u)
      PROVE  \/ HasEscape(s) \/ HasEscape(t)
             \/ m > 0 /\ s[m] = EscapePrefix /\ t[1] = EscapeSuffix
  <2>1. PICK i \in 1 .. Len(u) :
          i + 1 <= Len(u) /\ u[i] = EscapePrefix /\ u[i + 1] = EscapeSuffix
    BY <1>2 DEF HasEscape
  <2>2. CASE i + 1 <= m
    <3>1. i \in 1 .. m /\ i + 1 \in 1 .. m
      BY <1>1, <2>1, <2>2
    <3>. QED  BY <1>1, <2>1, <3>1 DEF HasEscape, m
  <2>3. CASE i = m
    <3>1. m \in 1 .. m /\ 1 \in 1 .. n
      BY <1>1, <2>1, <2>3
    <3>. QED  BY <1>1, <2>1, <2>3, <3>1
  <2>4. CASE i > m
    <3>1. i - m \in 1 .. n /\ i - m + 1 \in 1 .. n
      BY <1>1, <2>1, <2>4
    <3>2. u[m + (i - m)] = t[i - m] /\ u[m + (i - m + 1)] = t[i - m + 1]
      BY <1>1, <3>1
    <3>3. m + (i - m) = i /\ m + (i - m + 1) = i + 1
      BY <1>1, <2>1
    <3>4. t[i - m] = EscapePrefix /\ t[i - m + 1] = EscapeSuffix
      BY <2>1, <3>2, <3>3
    <3>. QED  BY <3>1, <3>4 DEF HasEscape, n
  <2>. QED  BY <1>1, <2>1, <2>2, <2>3, <2>4
<1>3. ASSUME HasEscape(s) PROVE HasEscape(u)
  <2>1. PICK i \in 1 .. m :
          i + 1 <= m /\ s[i] = EscapePrefix /\ s[i + 1] = EscapeSuffix
    BY <1>3 DEF HasEscape, m
  <2>2. i \in 1 .. Len(u) /\ i + 1 <= Len(u) /\ u[i] = s[i] /\ u[i + 1] = s[i + 1]
    BY <1>1, <2>1
  <2>. QED  BY <2>1, <2>2 DEF HasEscape
<1>4. ASSUME HasEscape(t) PROVE HasEscape(u)
  <2>1. PICK i \in 1 .. n :
          i + 1 <= n /\ t[i] = EscapePrefix /\ t[i + 1] = EscapeSuffix
    BY <1>4 DEF HasEscape, n
  <2>2. m + i \in 1 .. Len(u) /\ (m + i) + 1 <= Len(u)
    BY <1>1, <2>1
  <2>3. u[m + i] = t[i] /\ u[m + (i + 1)] = t[i + 1] /\ m + (i + 1) = (m + i) + 1
    BY <1>1, <2>1
  <2>. QED  BY <2>1, <2>2, <2>3 DEF HasEscape
<1>5. ASSUME m > 0, s[m] = EscapePrefix, t[1] = EscapeSuffix
      PROVE  HasEscape(u)
  <2>1. m \in 1 .. Len(u) /\ m + 1 <= Len(u) /\ u[m] = s[m] /\ u[m + 1] = t[1]
    BY <1>1, <1>5
  <2>. QED  BY <1>5, <2>1 DEF HasEscape
<1>. QED  BY <1>1, <1>2, <1>3, <1>4, <1>5 DEF m, u

LEMMA NoEscapeInNothing == ~HasEscape(<<>>)
BY DEF HasEscape

---------------------------------------------------------------------------
EscapeInv == TypeOK /\ EscapeExact /\ ForwardedExact /\ TailInv

LEMMA EscapeInit == Init => EscapeInv
<1>. SUFFICES ASSUME Init PROVE EscapeInv
  OBVIOUS
<1>1. TypeOK
  <2>1. <<>> \in Seq(Keys) /\ 0 \in Keys \cup {0}
    OBVIOUS
  <2>. QED  BY <2>1 DEF Init, TypeOK
<1>. QED
  BY <1>1, NoEscapeInNothing DEF Init, EscapeInv, EscapeExact, ForwardedExact, TailInv

(* A call of the callback during a session.                                 *)
LEMMA InputStep ==
  ASSUME EscapeInv, NEW data \in Chunks, Input(data)
  PROVE  EscapeInv'
<1>1. /\ data \in Seq(Keys) /\ Len(data) \in Nat \ {0} /\ data # <<>>
      /\ active /\ typed \in Seq(Keys) /\ forwarded = typed /\ ~HasEscape(typed)
      /\ tail = IF typed = <<>> THEN 0 ELSE typed[Len(typed)]
  <2>1. data # <<>> /\ active
    BY DEF Input
  <2>. QED  BY <2>1, ChunkIsSeq DEF EscapeInv, TypeOK, ForwardedExact, TailInv
<1>2. typed' = typed \o data /\ typed' \in Seq(Keys) /\ typed' # <<>>
      /\ typed'[Len(typed')] = data[Len(data)]
  BY <1>1, ConcatProperties, ConcatEmptySeq, LenProperties DEF Input
<1>3. HasEscape(typed') <=> Escapes(data)
  <2>1. HasEscape(typed') <=>
          \/ HasEscape(data)
          \/ typed # <<>> /\ typed[Len(typed)] = EscapePrefix /\ data[1] = EscapeSuffix
    BY <1>1, <1>2, EscapeInConcat
  <2>2. tail = EscapePrefix <=> typed # <<>> /\ typed[Len(typed)] = EscapePrefix
    BY <1>1 DEF EscapePrefix
  <2>. QED  BY <2>1, <2>2 DEF Escapes
<1>4. active' <=> ~HasEscape(typed')
  BY <1>3 DEF Input
<1>5. forwarded' = IF HasEscape(typed') THEN typed ELSE typed'
  BY <1>1, <1>2, <1>3 DEF Input
<1>6. data[Len(data)] \in Keys
  BY <1>1, ElementOfSeq
<1>7. TypeOK'
  <2>1. active' \in BOOLEAN /\ tail' \in Keys \cup {0}
    BY <1>6 DEF Input
  <2>. QED  BY <1>1, <1>2, <1>5, <2>1 DEF TypeOK
<1>8. EscapeExact'
  BY <1>4 DEF EscapeExact
<1>9. ForwardedExact'
  BY <1>1, <1>4, <1>5 DEF ForwardedExact
<1>10. TailInv'
  BY <1>2, <1>3, <1>4 DEF TailInv, Input
<1>. QED  BY <1>7, <1>8, <1>9, <1>10 DEF EscapeInv

LEMMA EscapeCorrect == Spec => []EscapeInv
<1>1. EscapeInv /\ [Next]_vars => EscapeInv'
  <2>. SUFFICES ASSUME EscapeInv, [Next]_vars PROVE EscapeInv'
    OBVIOUS
  <2>1. CASE Start
    <3>1. TypeOK'
      BY <2>1 DEF Start, TypeOK
    <3>. QED  BY <2>1, <3>1, NoEscapeInNothing DEF Start, EscapeInv, EscapeExact,
                 ForwardedExact, TailInv
  <2>2. ASSUME NEW data \in Chunks, Input(data)
        PROVE  EscapeInv'
    BY <2>2, InputStep
  <2>3. CASE UNCHANGED vars
    BY <2>3 DEF vars, EscapeInv, TypeOK, EscapeExact, ForwardedExact, TailInv
  <2>. QED  BY <2>1, <2>2, <2>3 DEF Next
<1>. QED  BY <1>1, EscapeInit, PTL DEF Spec

(* The session's flag, its remembered byte and the two records keep their    *)
(* types for inputs of any length, in calls of any size.                    *)
THEOREM EscapeTypes == Spec => []TypeOK
<1>1. EscapeInv => TypeOK
  BY DEF EscapeInv
<1>. QED  BY <1>1, EscapeCorrect, PTL

(* However the typed bytes are cut into calls of modem_passthrough_bypass_cb, *)
(* the session ends with the call that completes Ctrl-X, Ctrl-Q and no other. *)
THEOREM EscapeIsExact == Spec => []EscapeExact
<1>1. EscapeInv => EscapeExact
  BY DEF EscapeInv
<1>. QED  BY <1>1, EscapeCorrect, PTL

(* The modem receives what was typed, in order, and never the escape.       *)
THEOREM ForwardingIsExact == Spec => []ForwardedExact
<1>1. EscapeInv => ForwardedExact
  BY DEF EscapeInv
<1>. QED  BY <1>1, EscapeCorrect, PTL
=============================================================================
